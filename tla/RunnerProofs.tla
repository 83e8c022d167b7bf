---------------------------- MODULE RunnerProofs ----------------------------
(***************************************************************************)
(* What holds of Runner for any number of pretasks, bundles, agents and    *)
(* tasks.  The invariants of Runner are not inductive: each speaks of one  *)
(* moment, and what makes it true lies earlier in the walk through run.    *)
(* IInv says, label by label, what the walk has established so far, and    *)
(* what stays true of the jobs and children once the walk has been left.   *)
(***************************************************************************)
EXTENDS Runner, TLAPS

FromPost    == {"post", "taskWait", "disconnect"}
FromAgent   == {"agent", "spawn", "connect"} \cup FromPost
FromBind    == {"bind", "connWait"} \cup FromAgent
FromHash    == {"hash", "attach", "attachWait"} \cup FromBind
FromPrimary == {"primary", "primaryWait"} \cup FromHash
Unwinding   == {"unwind", "reap", "destroy", "returned"}

AllPretasksOk   == \A i \in Pretasks : pretask[i] = "ok"
NoTaskPosted    == \A t \in Tasks : task[t] = "unposted"
PrimarySettled  == \A b \in Primary : bundle[b] \in Settled
PrimaryLoaded   == LastLoaded(0, PrimaryCount)
AttachLoaded    == LastLoaded(PrimaryCount, AttachCount)

\* Pretasks start one after another, each after the success of those before.
PretaskInv ==
    /\ \A i, j \in Pretasks : j < i /\ pretask[i] # "unstarted" => pretask[j] = "ok"
    /\ pc = "pretask" =>
         /\ at >= 1 /\ at <= PretaskCount + 1
         /\ \A i \in Pretasks : i < at => pretask[i] = "ok"
         /\ \A i \in Pretasks : i >= at => pretask[i] = "unstarted"
    /\ pc = "pretaskWait" =>
         /\ at \in Pretasks
         /\ pretask[at] # "unstarted"
         /\ \A i \in Pretasks : i > at => pretask[i] = "unstarted"
    /\ pc \in {"controller"} \cup FromPrimary => AllPretasksOk
    /\ handles # "none" => AllPretasksOk
    /\ \A i \in Pretasks : pretask[i] = "running" => pc \in {"pretaskWait", "exited"}

\* The handles exist from CreateHandles to the scope guard; nothing that works
\* on them exists before.
HandleInv ==
    /\ pc \in {"pretask", "pretaskWait", "controller"} => handles = "none"
    /\ pc \in FromPrimary => handles = "live"
    /\ handles = "destroyed" => pc = "returned"
    /\ pc = "returned" => handles # "live"
    /\ handles = "none" =>
         /\ conn = "unposted" /\ hashOf = NotTaken
         /\ \A b \in Bundles : bundle[b] = "unposted"
         /\ \A a \in Agents : client[a] = "none" /\ child[a] = "none"
         /\ NoTaskPosted
    /\ handles # "none" => conn # "unposted"

\* Bundles settle in order, and the attached ones follow the last primary one.
BundleInv ==
    /\ \A a, b \in Bundles : a < b /\ bundle[b] # "unposted" => bundle[a] # "unposted"
    /\ \A a, b \in Bundles : a < b /\ bundle[b] \in Settled => bundle[a] \in Settled
    /\ \A b \in Attach : bundle[b] # "unposted" => PrimarySettled /\ PrimaryLoaded
    /\ pc = "primary" => \A b \in Bundles : bundle[b] = "unposted"
    /\ pc \in {"primaryWait", "hash", "attach"} => \A b \in Attach : bundle[b] = "unposted"
    /\ pc = "primaryWait" => PrimaryCount > 0
    /\ pc = "attachWait" => AttachCount > 0
    /\ pc \in FromHash => PrimarySettled /\ PrimaryLoaded
    /\ pc \in FromBind => AttachLoaded

\* The connection is awaited before the first agent is started.
ConnInv == pc \in FromAgent => conn = "ok"

\* The agents before the one the loop is at are connected, those behind it do
\* not exist; on the way out children disappear in the same order.
AgentInv ==
    /\ pc \in FromPrimary \ FromAgent => \A a \in Agents : client[a] = "none" /\ child[a] = "none"
    /\ pc \in {"agent", "spawn", "connect"} =>
         /\ at >= 1 /\ at <= AgentCount + 1
         /\ \A a \in Agents : a < at => client[a] = "connected"
         /\ \A a \in Agents : a > at => child[a] = "none" /\ client[a] = "none"
    /\ pc \in {"spawn", "connect"} => at \in Agents
    /\ pc \in {"agent", "spawn"} => \A a \in Agents : a >= at => child[a] = "none"
    /\ pc = "agent" => \A a \in Agents : a >= at => client[a] = "none"
    /\ pc \in FromPost => \A a \in Agents : client[a] = "connected"
    /\ pc \in FromAgent => \A a \in Agents : child[a] \in {"none", "alive", "exited"}
    /\ pc \in {"unwind", "reap"} =>
         /\ at >= 1 /\ at <= AgentCount + 1
         /\ \A a \in Agents : a < at => child[a] \in {"none", "reaped"}
    /\ pc = "reap" => at \in Agents
    /\ pc \in {"destroy", "returned"} => \A a \in Agents : child[a] \in {"none", "reaped"}

\* Tasks are posted in order behind the gate, and settle in order.
TaskInv ==
    /\ \A s, t \in Tasks : s < t /\ task[t] \in Settled => task[s] \in Settled
    /\ \A s, t \in Tasks : s < t /\ task[t] # "unposted" => task[s] # "unposted"
    /\ pc \in {"pretask", "pretaskWait", "controller"} \cup (FromPrimary \ FromPost) => NoTaskPosted
    /\ pc = "post" =>
         /\ at >= 1 /\ at <= TaskCount + 1
         /\ \A t \in Tasks : t < at <=> task[t] # "unposted"
    /\ pc = "taskWait" => \A t \in Tasks : task[t] # "unposted"
    /\ pc = "disconnect" => \A t \in Tasks : task[t] \in Settled

\* false is returned with nothing posted; true behind the gate.
ResultInv ==
    /\ pc \in {"pretask", "pretaskWait", "controller"} \cup FromPrimary => result = "none"
    /\ pc \in Unwinding => result \in {"true", "false"}
    /\ pc = "exited" => result = "interrupted"
    /\ result = "false" => NoTaskPosted
    /\ result = "true" =>
         /\ handles # "none" /\ conn = "ok" /\ PrimaryLoaded /\ AttachLoaded

IInv ==
    /\ TypeOK
    /\ PretaskInv /\ HandleInv /\ BundleInv /\ ConnInv /\ AgentInv /\ TaskInv /\ ResultInv
    /\ StartGate /\ HashOfPrimary /\ SuccessIsComplete

-----------------------------------------------------------------------------

\* What get_hash is recorded as: nothing, or a set of bundles (Runner.cpp:597-607).
LEMMA HashType ==
    TakeHash => hashOf' \in (SUBSET Bundles) \cup {NotTaken}
<1> SUFFICES ASSUME TakeHash PROVE hashOf' \in (SUBSET Bundles) \cup {NotTaken}
  OBVIOUS
<1>1. hashOf' \in {NotTaken, {b \in Bundles : bundle[b] = "ok"}}
  BY DEF TakeHash
<1>2. {b \in Bundles : bundle[b] = "ok"} \in SUBSET Bundles
  OBVIOUS
<1> QED
  BY <1>1, <1>2

\* When a bundle settles, no bundle that was not pending changes.
LEMMA SettledStays ==
    ASSUME TypeOK, NEW b \in Bundles, BundleSettles(b)
    PROVE  /\ \A x \in Bundles : bundle[x] # "pending" => bundle'[x] = bundle[x]
           /\ UNCHANGED <<thread, workers, conn, task>>
<1>1. PICK s \in Settled : bundle' = [bundle EXCEPT ![b] = s]
  BY DEF BundleSettles
<1> QED
  BY <1>1 DEF TypeOK, BundleSettles

\* Every step keeps every variable in its range.
LEMMA Types == TypeOK /\ [Next]_vars => TypeOK'
<1> SUFFICES ASSUME TypeOK, [Next]_vars PROVE TypeOK'
  OBVIOUS
<1> USE RunnerAssumption DEF TypeOK, Goto, Loop, Return, jobs, workers, thread, Settled,
        Pretasks, Primary, Attach, Bundles, Agents, Tasks, NotTaken, PostBundles
<1>1. CASE StartPretask
  <2>1. pretask' \in [Pretasks -> {"unstarted", "running", "ok", "failed"}]
    BY <1>1 DEF StartPretask
  <2>2. at' \in Nat /\ pc' \in {"pretaskWait", "unwind"} /\ result' \in {"none", "true", "false",
      "interrupted"}
    BY <1>1 DEF StartPretask
  <2> QED
    BY <1>1, <2>1, <2>2 DEF StartPretask
<1>2. CASE ReapPretask
  BY <1>2 DEF ReapPretask
<1>3. CASE PretasksDone
  BY <1>3 DEF PretasksDone
<1>4. CASE ControllerFails
  BY <1>4 DEF ControllerFails
<1>5. CASE CreateHandles
  BY <1>5 DEF CreateHandles
<1>6. CASE PostPrimary
  BY <1>6 DEF PostPrimary
<1>7. CASE AwaitPrimary
  BY <1>7 DEF AwaitPrimary
<1>8. CASE TakeHash
  BY <1>8, HashType DEF TakeHash
<1>9. CASE PostAttach
  BY <1>9 DEF PostAttach
<1>10. CASE AwaitAttach
  BY <1>10 DEF AwaitAttach
<1>11. CASE Bind
  BY <1>11 DEF Bind
<1>12. CASE AwaitConnection
  BY <1>12 DEF AwaitConnection
<1>13. CASE CreateClient
  BY <1>13 DEF CreateClient
<1>14. CASE SpawnAgent
  <2>1. child' \in [Agents -> {"none", "alive", "signalled", "exited", "reaped"}]
    BY <1>14 DEF SpawnAgent
  <2> QED
    BY <1>14, <2>1 DEF SpawnAgent
<1>15. CASE ConnectAgent
  BY <1>15 DEF ConnectAgent
<1>16. CASE AgentsDone
  BY <1>16 DEF AgentsDone
<1>17. CASE PostTask
  BY <1>17 DEF PostTask
<1>18. CASE TasksPosted
  BY <1>18 DEF TasksPosted
<1>19. CASE AwaitTasks
  BY <1>19 DEF AwaitTasks
<1>20. CASE DisconnectAgents
  BY <1>20 DEF DisconnectAgents
<1>21. CASE KillAgent
  BY <1>21 DEF KillAgent
<1>22. CASE ReapAgent
  <2>1. child' \in [Agents -> {"none", "alive", "signalled", "exited", "reaped"}]
    BY <1>22 DEF ReapAgent
  <2>2. at' \in Nat /\ pc' = "unwind"
    BY <1>22 DEF ReapAgent
  <2> QED
    BY <1>22, <2>1, <2>2 DEF ReapAgent
<1>23. CASE ChildrenGone
  BY <1>23 DEF ChildrenGone
<1>24. CASE DestroyHandles
  BY <1>24 DEF DestroyHandles
<1>25. CASE Interrupt
  BY <1>25 DEF Interrupt
<1>26. CASE ConnectionSettles
  BY <1>26 DEF ConnectionSettles
<1>27. ASSUME NEW i \in Pretasks, PretaskExits(i) PROVE TypeOK'
  BY <1>27 DEF PretaskExits
<1>28. ASSUME NEW b \in Bundles, BundleSettles(b) PROVE TypeOK'
  BY <1>28 DEF BundleSettles
<1>29. ASSUME NEW t \in Tasks, TaskSettles(t) PROVE TypeOK'
  BY <1>29 DEF TaskSettles
<1>30. ASSUME NEW a \in Agents, AgentExits(a) PROVE TypeOK'
  BY <1>30 DEF AgentExits
<1>31. CASE UNCHANGED vars
  BY <1>31 DEF vars
<1> QED
  BY <1>1, <1>2, <1>3, <1>4, <1>5, <1>6, <1>7, <1>8, <1>9, <1>10, <1>11, <1>12, <1>13, <1>14,
      <1>15, <1>16, <1>17, <1>18, <1>19, <1>20, <1>21, <1>22, <1>23, <1>24, <1>25, <1>26, <1>27,
      <1>28, <1>29, <1>30, <1>31 DEF Next, RunStep, PretaskStep, SetupStep, AgentStep, TaskStep,
      LeaveStep, Outside

\* Every step keeps the order of the pretasks: one is started only after those
\* before it have exited with 0.
LEMMA PretaskSteps == TypeOK /\ PretaskInv /\ HandleInv /\ [Next]_vars => PretaskInv'
<1> SUFFICES ASSUME TypeOK, PretaskInv, HandleInv, [Next]_vars PROVE PretaskInv'
  OBVIOUS
<1> USE RunnerAssumption DEF
        TypeOK, Goto, Loop, Return, jobs, workers, thread, Settled, Pretasks, Primary,
        Attach, Bundles, Agents, Tasks, PostBundles, LastLoaded, FromPost, FromAgent,
        FromBind, FromHash, FromPrimary, Unwinding, PretaskInv, HandleInv, AllPretasksOk
<1>1. CASE PretaskStep
  BY <1>1 DEF PretaskStep, StartPretask, ReapPretask, PretasksDone
<1>2. CASE SetupStep
  BY <1>2 DEF SetupStep, ControllerFails, CreateHandles, PostPrimary, AwaitPrimary, TakeHash,
      PostAttach, AwaitAttach, Bind, AwaitConnection
<1>3. CASE AgentStep
  BY <1>3 DEF AgentStep, CreateClient, SpawnAgent, ConnectAgent, AgentsDone
<1>4. CASE TaskStep
  BY <1>4 DEF TaskStep, PostTask, TasksPosted, AwaitTasks, DisconnectAgents
<1>5. CASE LeaveStep
  BY <1>5 DEF LeaveStep, KillAgent, ReapAgent, ChildrenGone, DestroyHandles
<1>6. CASE Interrupt
  BY <1>6 DEF Interrupt
<1>7. CASE ConnectionSettles
  BY <1>7 DEF ConnectionSettles
<1>8. ASSUME NEW i \in Pretasks, PretaskExits(i) PROVE PretaskInv'
  BY <1>8 DEF PretaskExits
<1>9. ASSUME NEW b \in Bundles, BundleSettles(b) PROVE PretaskInv'
  BY <1>9 DEF BundleSettles
<1>10. ASSUME NEW t \in Tasks, TaskSettles(t) PROVE PretaskInv'
  BY <1>10 DEF TaskSettles
<1>11. ASSUME NEW a \in Agents, AgentExits(a) PROVE PretaskInv'
  BY <1>11 DEF AgentExits
<1>12. CASE UNCHANGED vars
  BY <1>12 DEF vars
<1> QED
  BY <1>1, <1>2, <1>3, <1>4, <1>5, <1>6, <1>7, <1>8, <1>9, <1>10, <1>11, <1>12 DEF Next, RunStep,
      Outside

\* Every step keeps the lifetime of the handles: nothing is posted, created or
\* spawned before they exist, and only the end of run destroys them.
LEMMA HandleSteps == TypeOK /\ HandleInv /\ [Next]_vars => HandleInv'
<1> SUFFICES ASSUME TypeOK, HandleInv, [Next]_vars PROVE HandleInv'
  OBVIOUS
<1> USE RunnerAssumption DEF
        TypeOK, Goto, Loop, Return, jobs, workers, thread, Settled, Pretasks, Primary,
        Attach, Bundles, Agents, Tasks, PostBundles, LastLoaded, FromPost, FromAgent,
        FromBind, FromHash, FromPrimary, Unwinding, HandleInv, NoTaskPosted, NotTaken
<1>1. CASE PretaskStep
  BY <1>1 DEF PretaskStep, StartPretask, ReapPretask, PretasksDone
<1>2. CASE SetupStep
  BY <1>2 DEF SetupStep, ControllerFails, CreateHandles, PostPrimary, AwaitPrimary, TakeHash,
      PostAttach, AwaitAttach, Bind, AwaitConnection
<1>3. CASE AgentStep
  BY <1>3 DEF AgentStep, CreateClient, SpawnAgent, ConnectAgent, AgentsDone
<1>4. CASE TaskStep
  BY <1>4 DEF TaskStep, PostTask, TasksPosted, AwaitTasks, DisconnectAgents
<1>5. CASE LeaveStep
  BY <1>5 DEF LeaveStep, KillAgent, ReapAgent, ChildrenGone, DestroyHandles
<1>6. CASE Interrupt
  BY <1>6 DEF Interrupt
<1>7. CASE ConnectionSettles
  BY <1>7 DEF ConnectionSettles
<1>8. ASSUME NEW i \in Pretasks, PretaskExits(i) PROVE HandleInv'
  BY <1>8 DEF PretaskExits
<1>9. ASSUME NEW b \in Bundles, BundleSettles(b) PROVE HandleInv'
  BY <1>9 DEF BundleSettles
<1>10. ASSUME NEW t \in Tasks, TaskSettles(t) PROVE HandleInv'
  BY <1>10 DEF TaskSettles
<1>11. ASSUME NEW a \in Agents, AgentExits(a) PROVE HandleInv'
  BY <1>11 DEF AgentExits
<1>12. CASE UNCHANGED vars
  BY <1>12 DEF vars
<1> QED
  BY <1>1, <1>2, <1>3, <1>4, <1>5, <1>6, <1>7, <1>8, <1>9, <1>10, <1>11, <1>12 DEF Next, RunStep,
      Outside

\* Every step keeps the order of the bundles: they settle in posting order, and
\* an attached one is posted only when the primary ones are settled.
LEMMA BundleSteps == TypeOK /\ HandleInv /\ BundleInv /\ [Next]_vars => BundleInv'
<1> SUFFICES ASSUME TypeOK, HandleInv, BundleInv, [Next]_vars PROVE BundleInv'
  OBVIOUS
<1> USE RunnerAssumption DEF
        TypeOK, Goto, Loop, Return, jobs, workers, thread, Settled, Pretasks, Primary,
        Attach, Bundles, Agents, Tasks, PostBundles, LastLoaded, FromPost, FromAgent,
        FromBind, FromHash, FromPrimary, Unwinding, HandleInv, BundleInv, PrimarySettled,
        PrimaryLoaded, AttachLoaded
<1>1. CASE PretaskStep
  BY <1>1 DEF PretaskStep, StartPretask, ReapPretask, PretasksDone
<1>2. CASE SetupStep
  BY <1>2 DEF SetupStep, ControllerFails, CreateHandles, PostPrimary, AwaitPrimary, TakeHash,
      PostAttach, AwaitAttach, Bind, AwaitConnection
<1>3. CASE AgentStep
  BY <1>3 DEF AgentStep, CreateClient, SpawnAgent, ConnectAgent, AgentsDone
<1>4. CASE TaskStep
  BY <1>4 DEF TaskStep, PostTask, TasksPosted, AwaitTasks, DisconnectAgents
<1>5. CASE LeaveStep
  BY <1>5 DEF LeaveStep, KillAgent, ReapAgent, ChildrenGone, DestroyHandles
<1>6. CASE Interrupt
  BY <1>6 DEF Interrupt
<1>7. CASE ConnectionSettles
  BY <1>7 DEF ConnectionSettles
<1>8. ASSUME NEW i \in Pretasks, PretaskExits(i) PROVE BundleInv'
  BY <1>8 DEF PretaskExits
<1>9. ASSUME NEW b \in Bundles, BundleSettles(b) PROVE BundleInv'
  <2>1. PICK s \in Settled : bundle' = [bundle EXCEPT ![b] = s]
    BY <1>9 DEF BundleSettles
  <2>2. \A x \in Bundles : x # b => bundle'[x] = bundle[x]
    BY <2>1
  <2>3. bundle'[b] = s /\ bundle[b] = "pending" /\ handles = "live" /\ UNCHANGED <<pc, handles>>
    BY <1>9, <2>1 DEF BundleSettles
  <2>4. \A x, y \in Bundles : x < y /\ bundle'[y] # "unposted" => bundle'[x] # "unposted"
    BY <2>2, <2>3
  <2>5. \A x, y \in Bundles : x < y /\ bundle'[y] \in Settled => bundle'[x] \in Settled
    BY <1>9, <2>2, <2>3 DEF BundleSettles
  <2>6. PrimarySettled => PrimarySettled' /\ (PrimaryLoaded <=> PrimaryLoaded')
    BY <2>2, <2>3
  <2>7. pc \in FromBind => AttachLoaded'
    BY <2>2, <2>3
  <2> QED
    BY <2>2, <2>3, <2>4, <2>5, <2>6, <2>7
<1>10. ASSUME NEW t \in Tasks, TaskSettles(t) PROVE BundleInv'
  BY <1>10 DEF TaskSettles
<1>11. ASSUME NEW a \in Agents, AgentExits(a) PROVE BundleInv'
  BY <1>11 DEF AgentExits
<1>12. CASE UNCHANGED vars
  BY <1>12 DEF vars
<1> QED
  BY <1>1, <1>2, <1>3, <1>4, <1>5, <1>6, <1>7, <1>8, <1>9, <1>10, <1>11, <1>12 DEF Next, RunStep,
      Outside

\* Every step keeps this: from the agents on, the connection is up.
LEMMA ConnSteps == TypeOK /\ HandleInv /\ ConnInv /\ [Next]_vars => ConnInv'
<1> SUFFICES ASSUME TypeOK, HandleInv, ConnInv, [Next]_vars PROVE ConnInv'
  OBVIOUS
<1> USE RunnerAssumption DEF
        TypeOK, Goto, Loop, Return, jobs, workers, thread, Settled, Pretasks, Primary,
        Attach, Bundles, Agents, Tasks, PostBundles, LastLoaded, FromPost, FromAgent,
        FromBind, FromHash, FromPrimary, Unwinding, ConnInv, HandleInv
<1>1. CASE PretaskStep
  BY <1>1 DEF PretaskStep, StartPretask, ReapPretask, PretasksDone
<1>2. CASE SetupStep
  BY <1>2 DEF SetupStep, ControllerFails, CreateHandles, PostPrimary, AwaitPrimary, TakeHash,
      PostAttach, AwaitAttach, Bind, AwaitConnection
<1>3. CASE AgentStep
  BY <1>3 DEF AgentStep, CreateClient, SpawnAgent, ConnectAgent, AgentsDone
<1>4. CASE TaskStep
  BY <1>4 DEF TaskStep, PostTask, TasksPosted, AwaitTasks, DisconnectAgents
<1>5. CASE LeaveStep
  BY <1>5 DEF LeaveStep, KillAgent, ReapAgent, ChildrenGone, DestroyHandles
<1>6. CASE Interrupt
  BY <1>6 DEF Interrupt
<1>7. CASE ConnectionSettles
  BY <1>7 DEF ConnectionSettles
<1>8. ASSUME NEW i \in Pretasks, PretaskExits(i) PROVE ConnInv'
  BY <1>8 DEF PretaskExits
<1>9. ASSUME NEW b \in Bundles, BundleSettles(b) PROVE ConnInv'
  BY <1>9 DEF BundleSettles
<1>10. ASSUME NEW t \in Tasks, TaskSettles(t) PROVE ConnInv'
  BY <1>10 DEF TaskSettles
<1>11. ASSUME NEW a \in Agents, AgentExits(a) PROVE ConnInv'
  BY <1>11 DEF AgentExits
<1>12. CASE UNCHANGED vars
  BY <1>12 DEF vars
<1> QED
  BY <1>1, <1>2, <1>3, <1>4, <1>5, <1>6, <1>7, <1>8, <1>9, <1>10, <1>11, <1>12 DEF Next, RunStep,
      Outside

\* Every step keeps the order of the agents: connected before the loop's index,
\* absent after it, and gone below it while run unwinds.
LEMMA AgentSteps == TypeOK /\ HandleInv /\ AgentInv /\ [Next]_vars => AgentInv'
<1> SUFFICES ASSUME TypeOK, HandleInv, AgentInv, [Next]_vars PROVE AgentInv'
  OBVIOUS
<1> USE RunnerAssumption DEF
        TypeOK, Goto, Loop, Return, jobs, workers, thread, Settled, Pretasks, Primary,
        Attach, Bundles, Agents, Tasks, PostBundles, LastLoaded, FromPost, FromAgent,
        FromBind, FromHash, FromPrimary, Unwinding, AgentInv, HandleInv
<1>1. CASE PretaskStep
  BY <1>1 DEF PretaskStep, StartPretask, ReapPretask, PretasksDone
<1>2. CASE SetupStep
  BY <1>2 DEF SetupStep, ControllerFails, CreateHandles, PostPrimary, AwaitPrimary, TakeHash,
      PostAttach, AwaitAttach, Bind, AwaitConnection
<1>3. CASE AgentStep
  BY <1>3 DEF AgentStep, CreateClient, SpawnAgent, ConnectAgent, AgentsDone
<1>4. CASE TaskStep
  BY <1>4 DEF TaskStep, PostTask, TasksPosted, AwaitTasks, DisconnectAgents
<1>5. CASE LeaveStep
  BY <1>5 DEF LeaveStep, KillAgent, ReapAgent, ChildrenGone, DestroyHandles
<1>6. CASE Interrupt
  BY <1>6 DEF Interrupt
<1>7. CASE ConnectionSettles
  BY <1>7 DEF ConnectionSettles
<1>8. ASSUME NEW i \in Pretasks, PretaskExits(i) PROVE AgentInv'
  BY <1>8 DEF PretaskExits
<1>9. ASSUME NEW b \in Bundles, BundleSettles(b) PROVE AgentInv'
  BY <1>9 DEF BundleSettles
<1>10. ASSUME NEW t \in Tasks, TaskSettles(t) PROVE AgentInv'
  BY <1>10 DEF TaskSettles
<1>11. ASSUME NEW a \in Agents, AgentExits(a) PROVE AgentInv'
  BY <1>11 DEF AgentExits
<1>12. CASE UNCHANGED vars
  BY <1>12 DEF vars
<1> QED
  BY <1>1, <1>2, <1>3, <1>4, <1>5, <1>6, <1>7, <1>8, <1>9, <1>10, <1>11, <1>12 DEF Next, RunStep,
      Outside

\* Every step keeps the order of the tasks: posted one after another, settled one
\* after another.
LEMMA TaskSteps == TypeOK /\ TaskInv /\ [Next]_vars => TaskInv'
<1> SUFFICES ASSUME TypeOK, TaskInv, [Next]_vars PROVE TaskInv'
  OBVIOUS
<1> USE RunnerAssumption DEF
        TypeOK, Goto, Loop, Return, jobs, workers, thread, Settled, Pretasks, Primary,
        Attach, Bundles, Agents, Tasks, PostBundles, LastLoaded, FromPost, FromAgent,
        FromBind, FromHash, FromPrimary, Unwinding, TaskInv, NoTaskPosted
<1>1. CASE PretaskStep
  BY <1>1 DEF PretaskStep, StartPretask, ReapPretask, PretasksDone
<1>2. CASE SetupStep
  BY <1>2 DEF SetupStep, ControllerFails, CreateHandles, PostPrimary, AwaitPrimary, TakeHash,
      PostAttach, AwaitAttach, Bind, AwaitConnection
<1>3. CASE AgentStep
  BY <1>3 DEF AgentStep, CreateClient, SpawnAgent, ConnectAgent, AgentsDone
<1>4. CASE TaskStep
  BY <1>4 DEF TaskStep, PostTask, TasksPosted, AwaitTasks, DisconnectAgents
<1>5. CASE LeaveStep
  BY <1>5 DEF LeaveStep, KillAgent, ReapAgent, ChildrenGone, DestroyHandles
<1>6. CASE Interrupt
  BY <1>6 DEF Interrupt
<1>7. CASE ConnectionSettles
  BY <1>7 DEF ConnectionSettles
<1>8. ASSUME NEW i \in Pretasks, PretaskExits(i) PROVE TaskInv'
  BY <1>8 DEF PretaskExits
<1>9. ASSUME NEW b \in Bundles, BundleSettles(b) PROVE TaskInv'
  BY <1>9 DEF BundleSettles
<1>10. ASSUME NEW t \in Tasks, TaskSettles(t) PROVE TaskInv'
  BY <1>10 DEF TaskSettles
<1>11. ASSUME NEW a \in Agents, AgentExits(a) PROVE TaskInv'
  BY <1>11 DEF AgentExits
<1>12. CASE UNCHANGED vars
  BY <1>12 DEF vars
<1> QED
  BY <1>1, <1>2, <1>3, <1>4, <1>5, <1>6, <1>7, <1>8, <1>9, <1>10, <1>11, <1>12 DEF Next, RunStep,
      Outside

\* Every step keeps what a return value says: false means no task was posted,
\* true means the gate was passed.
LEMMA ResultSteps ==
    TypeOK /\ HandleInv /\ BundleInv /\ ConnInv /\ TaskInv /\ ResultInv /\ [Next]_vars =>
    ResultInv'
<1> SUFFICES ASSUME TypeOK, HandleInv, BundleInv, ConnInv, TaskInv, ResultInv, [Next]_vars PROVE
    ResultInv'
  OBVIOUS
<1> USE RunnerAssumption DEF
        TypeOK, Goto, Loop, Return, jobs, workers, thread, Settled, Pretasks, Primary,
        Attach, Bundles, Agents, Tasks, PostBundles, LastLoaded, FromPost, FromAgent,
        FromBind, FromHash, FromPrimary, Unwinding, ResultInv, HandleInv, ConnInv, TaskInv,
        BundleInv, NoTaskPosted, PrimaryLoaded, AttachLoaded, PrimarySettled
<1>1. CASE PretaskStep
  BY <1>1 DEF PretaskStep, StartPretask, ReapPretask, PretasksDone
<1>2. CASE SetupStep
  BY <1>2 DEF SetupStep, ControllerFails, CreateHandles, PostPrimary, AwaitPrimary, TakeHash,
      PostAttach, AwaitAttach, Bind, AwaitConnection
<1>3. CASE AgentStep
  BY <1>3 DEF AgentStep, CreateClient, SpawnAgent, ConnectAgent, AgentsDone
<1>4. CASE TaskStep
  BY <1>4 DEF TaskStep, PostTask, TasksPosted, AwaitTasks, DisconnectAgents
<1>5. CASE LeaveStep
  BY <1>5 DEF LeaveStep, KillAgent, ReapAgent, ChildrenGone, DestroyHandles
<1>6. CASE Interrupt
  BY <1>6 DEF Interrupt
<1>7. CASE ConnectionSettles
  BY <1>7 DEF ConnectionSettles
<1>8. ASSUME NEW i \in Pretasks, PretaskExits(i) PROVE ResultInv'
  BY <1>8 DEF PretaskExits
<1>9. ASSUME NEW b \in Bundles, BundleSettles(b) PROVE ResultInv'
  BY <1>9, SettledStays
<1>10. ASSUME NEW t \in Tasks, TaskSettles(t) PROVE ResultInv'
  BY <1>10 DEF TaskSettles
<1>11. ASSUME NEW a \in Agents, AgentExits(a) PROVE ResultInv'
  BY <1>11 DEF AgentExits
<1>12. CASE UNCHANGED vars
  BY <1>12 DEF vars
<1> QED
  BY <1>1, <1>2, <1>3, <1>4, <1>5, <1>6, <1>7, <1>8, <1>9, <1>10, <1>11, <1>12 DEF Next, RunStep,
      Outside

\* Every step keeps StartGate: a task is posted only with everything in place,
\* and what is in place stays so.
LEMMA GateSteps ==
    TypeOK /\ PretaskInv /\ HandleInv /\ BundleInv /\ ConnInv /\ AgentInv /\ TaskInv /\
    StartGate /\ [Next]_vars => StartGate'
<1> SUFFICES ASSUME TypeOK, PretaskInv, HandleInv, BundleInv, ConnInv, AgentInv, TaskInv,
    StartGate, [Next]_vars PROVE StartGate'
  OBVIOUS
<1> USE RunnerAssumption DEF
        TypeOK, Goto, Loop, Return, jobs, workers, thread, Settled, Pretasks, Primary,
        Attach, Bundles, Agents, Tasks, PostBundles, LastLoaded, FromPost, FromAgent,
        FromBind, FromHash, FromPrimary, Unwinding, StartGate, PretaskInv, AllPretasksOk,
        HandleInv, ConnInv, AgentInv, TaskInv, BundleInv, NoTaskPosted, PrimaryLoaded,
        AttachLoaded
<1>1. CASE PretaskStep
  BY <1>1 DEF PretaskStep, StartPretask, ReapPretask, PretasksDone
<1>2. CASE SetupStep
  BY <1>2 DEF SetupStep, ControllerFails, CreateHandles, PostPrimary, AwaitPrimary, TakeHash,
      PostAttach, AwaitAttach, Bind, AwaitConnection
<1>3. CASE AgentStep
  BY <1>3 DEF AgentStep, CreateClient, SpawnAgent, ConnectAgent, AgentsDone
<1>4. CASE TaskStep
  BY <1>4 DEF TaskStep, PostTask, TasksPosted, AwaitTasks, DisconnectAgents
<1>5. CASE LeaveStep
  BY <1>5 DEF LeaveStep, KillAgent, ReapAgent, ChildrenGone, DestroyHandles
<1>6. CASE Interrupt
  BY <1>6 DEF Interrupt
<1>7. CASE ConnectionSettles
  BY <1>7 DEF ConnectionSettles
<1>8. ASSUME NEW i \in Pretasks, PretaskExits(i) PROVE StartGate'
  BY <1>8 DEF PretaskExits
<1>9. ASSUME NEW b \in Bundles, BundleSettles(b) PROVE StartGate'
  BY <1>9, SettledStays
<1>10. ASSUME NEW t \in Tasks, TaskSettles(t) PROVE StartGate'
  BY <1>10 DEF TaskSettles
<1>11. ASSUME NEW a \in Agents, AgentExits(a) PROVE StartGate'
  BY <1>11 DEF AgentExits
<1>12. CASE UNCHANGED vars
  BY <1>12 DEF vars
<1> QED
  BY <1>1, <1>2, <1>3, <1>4, <1>5, <1>6, <1>7, <1>8, <1>9, <1>10, <1>11, <1>12 DEF Next, RunStep,
      Outside

\* Every step keeps HashOfPrimary: the bundles the hash was taken of do not
\* change afterwards, and attached ones were not loaded yet.
LEMMA HashSteps ==
    TypeOK /\ HandleInv /\ BundleInv /\ HashOfPrimary /\ [Next]_vars => HashOfPrimary'
<1> SUFFICES ASSUME TypeOK, HandleInv, BundleInv, HashOfPrimary, [Next]_vars PROVE HashOfPrimary'
  OBVIOUS
<1> USE RunnerAssumption DEF
        TypeOK, Goto, Loop, Return, jobs, workers, thread, Settled, Pretasks, Primary,
        Attach, Bundles, Agents, Tasks, PostBundles, LastLoaded, FromPost, FromAgent,
        FromBind, FromHash, FromPrimary, Unwinding, HashOfPrimary, HandleInv, BundleInv,
        PrimarySettled, PrimaryLoaded, AttachLoaded, NotTaken
<1>1. CASE PretaskStep
  BY <1>1 DEF PretaskStep, StartPretask, ReapPretask, PretasksDone
<1>2. CASE SetupStep
  BY <1>2 DEF SetupStep, ControllerFails, CreateHandles, PostPrimary, AwaitPrimary, TakeHash,
      PostAttach, AwaitAttach, Bind, AwaitConnection
<1>3. CASE AgentStep
  BY <1>3 DEF AgentStep, CreateClient, SpawnAgent, ConnectAgent, AgentsDone
<1>4. CASE TaskStep
  BY <1>4 DEF TaskStep, PostTask, TasksPosted, AwaitTasks, DisconnectAgents
<1>5. CASE LeaveStep
  BY <1>5 DEF LeaveStep, KillAgent, ReapAgent, ChildrenGone, DestroyHandles
<1>6. CASE Interrupt
  BY <1>6 DEF Interrupt
<1>7. CASE ConnectionSettles
  BY <1>7 DEF ConnectionSettles
<1>8. ASSUME NEW i \in Pretasks, PretaskExits(i) PROVE HashOfPrimary'
  BY <1>8 DEF PretaskExits
<1>9. ASSUME NEW b \in Bundles, BundleSettles(b) PROVE HashOfPrimary'
  BY <1>9 DEF BundleSettles
<1>10. ASSUME NEW t \in Tasks, TaskSettles(t) PROVE HashOfPrimary'
  BY <1>10 DEF TaskSettles
<1>11. ASSUME NEW a \in Agents, AgentExits(a) PROVE HashOfPrimary'
  BY <1>11 DEF AgentExits
<1>12. CASE UNCHANGED vars
  BY <1>12 DEF vars
<1> QED
  BY <1>1, <1>2, <1>3, <1>4, <1>5, <1>6, <1>7, <1>8, <1>9, <1>10, <1>11, <1>12 DEF Next, RunStep,
      Outside

\* Every step keeps SuccessIsComplete: true is returned only with the last task
\* settled, which settles all of them.
LEMMA SuccessSteps ==
    TypeOK /\ TaskInv /\ ResultInv /\ SuccessIsComplete /\ [Next]_vars => SuccessIsComplete'
<1> SUFFICES ASSUME TypeOK, TaskInv, ResultInv, SuccessIsComplete, [Next]_vars PROVE
    SuccessIsComplete'
  OBVIOUS
<1> USE RunnerAssumption DEF
        TypeOK, Goto, Loop, Return, jobs, workers, thread, Settled, Pretasks, Primary,
        Attach, Bundles, Agents, Tasks, PostBundles, LastLoaded, FromPost, FromAgent,
        FromBind, FromHash, FromPrimary, Unwinding, SuccessIsComplete, ResultInv, TaskInv
<1>1. CASE PretaskStep
  BY <1>1 DEF PretaskStep, StartPretask, ReapPretask, PretasksDone
<1>2. CASE SetupStep
  BY <1>2 DEF SetupStep, ControllerFails, CreateHandles, PostPrimary, AwaitPrimary, TakeHash,
      PostAttach, AwaitAttach, Bind, AwaitConnection
<1>3. CASE AgentStep
  BY <1>3 DEF AgentStep, CreateClient, SpawnAgent, ConnectAgent, AgentsDone
<1>4. CASE TaskStep
  BY <1>4 DEF TaskStep, PostTask, TasksPosted, AwaitTasks, DisconnectAgents
<1>5. CASE LeaveStep
  BY <1>5 DEF LeaveStep, KillAgent, ReapAgent, ChildrenGone, DestroyHandles
<1>6. CASE Interrupt
  BY <1>6 DEF Interrupt
<1>7. CASE ConnectionSettles
  BY <1>7 DEF ConnectionSettles
<1>8. ASSUME NEW i \in Pretasks, PretaskExits(i) PROVE SuccessIsComplete'
  BY <1>8 DEF PretaskExits
<1>9. ASSUME NEW b \in Bundles, BundleSettles(b) PROVE SuccessIsComplete'
  BY <1>9 DEF BundleSettles
<1>10. ASSUME NEW t \in Tasks, TaskSettles(t) PROVE SuccessIsComplete'
  BY <1>10 DEF TaskSettles
<1>11. ASSUME NEW a \in Agents, AgentExits(a) PROVE SuccessIsComplete'
  BY <1>11 DEF AgentExits
<1>12. CASE UNCHANGED vars
  BY <1>12 DEF vars
<1> QED
  BY <1>1, <1>2, <1>3, <1>4, <1>5, <1>6, <1>7, <1>8, <1>9, <1>10, <1>11, <1>12 DEF Next, RunStep,
      Outside

\* The walk through run keeps IInv, from its start to its return or exit.
THEOREM Invariance == Spec => []IInv
<1>1. Init => IInv
  BY RunnerAssumption DEF Init, IInv, TypeOK, PretaskInv, HandleInv, BundleInv, ConnInv, AgentInv,
     TaskInv, ResultInv, StartGate, HashOfPrimary, SuccessIsComplete, NoTaskPosted, NotTaken,
         Settled,
     Pretasks, Primary, Attach, Bundles, Agents, Tasks, FromPost, FromAgent, FromBind, FromHash,
     FromPrimary, Unwinding
<1>2. IInv /\ [Next]_vars => IInv'
  BY Types, PretaskSteps, HandleSteps, BundleSteps, ConnSteps, AgentSteps, TaskSteps, ResultSteps,
     GateSteps, HashSteps, SuccessSteps DEF IInv
<1> QED
  BY <1>1, <1>2, PTL DEF Spec

\* Every variable of Runner stays in its range.
THEOREM TypeCorrect == Spec => []TypeOK
<1>1. IInv => TypeOK
  BY DEF IInv
<1> QED
  BY <1>1, Invariance, PTL

\* No task is posted before pretasks, connection, bundles and agents are in place
\* (Runner.cpp:473-671), however many of each there are.
THEOREM TasksBehindGate == Spec => []StartGate
<1>1. IInv => StartGate
  BY DEF IInv
<1> QED
  BY <1>1, Invariance, PTL

\* The hash is read with exactly resource.path loaded (Runner.cpp:589-609).
THEOREM HashIsOfPrimary == Spec => []HashOfPrimary
<1>1. IInv => HashOfPrimary
  BY DEF IInv
<1> QED
  BY <1>1, Invariance, PTL

\* No agent process survives the run that spawned it (Runner.cpp:238-247).
THEOREM ChildrenReaped == Spec => []NoAgentOutlivesRun
<1>1. IInv => NoAgentOutlivesRun
  BY DEF IInv, HandleInv, AgentInv, NoAgentOutlivesRun
<1> QED
  BY <1>1, Invariance, PTL

\* A run that reports true left no task pending and no client open
\* (Runner.cpp:668-680).
THEOREM TrueIsComplete == Spec => []SuccessIsComplete
<1>1. IInv => SuccessIsComplete
  BY DEF IInv
<1> QED
  BY <1>1, Invariance, PTL

-----------------------------------------------------------------------------
(* Refinement: what the contract sees of a step of Runner.                   *)

Met     == ConnectionMet \cup ResourceMet \cup AgentsMet
AllMet  == {Prereq("connection", 0), Prereq("resource", 0)} \cup {Prereq("agent", a) : a \in Agents}
Started == {t \in Tasks : task[t] # "unposted"}
Ended   == {t \in Tasks : task[t] \in Settled}
Seen    == IF Over THEN result ELSE "none"

\* The contract's variables, one by one, as functions of Runner's.
ContractView == <<RanPretasks, Phase, Met, Started, Ended, Seen>>

\* With the handles alive and run not over, the contract is in "prepare".
LEMMA PhaseWhenLive ==
    ASSUME IInv, handles = "live", pc # "exited"
    PROVE  Phase = "prepare"
<1>1. RanPretasks = Pretasks
  BY DEF IInv, PretaskInv, AllPretasksOk, RanPretasks
<1>2. pc \notin {"returned", "pretask", "pretaskWait"}
  BY DEF IInv, HandleInv
<1> QED
  BY <1>1, <1>2 DEF Phase, Over

\* Everything the contract asks for is met once the gate is passed.
LEMMA MetBehindGate ==
    ASSUME IInv, handles # "none", conn = "ok", PrimaryLoaded, AttachLoaded,
           \A a \in Agents : client[a] \in {"connected", "closed"}
    PROVE  Met = AllMet
<1>1. ConnectionMet = {Prereq("connection", 0)}
  BY DEF ConnectionMet
<1>2. ResourceMet = {Prereq("resource", 0)}
  BY DEF ResourceMet, PrimaryLoaded, AttachLoaded
<1>3. AgentsMet = {Prereq("agent", a) : a \in Agents}
  BY DEF AgentsMet
<1> QED
  BY <1>1, <1>2, <1>3 DEF Met, AllMet

\* Steps that leave pretasks, jobs, clients and handles alone, and do not end
\* the run, are invisible: only Phase could move, and it does not.
LEMMA Invisible ==
    ASSUME IInv, UNCHANGED <<pretask, conn, bundle, client, task, handles>>,
           ~Over, ~Over', Phase' = Phase
    PROVE  UNCHANGED ContractView
<1>1. UNCHANGED RanPretasks
  BY DEF RanPretasks
<1>2. UNCHANGED Met
  BY DEF Met, ConnectionMet, ResourceMet, AgentsMet, LastLoaded
<1>3. UNCHANGED <<Started, Ended, Seen>>
  BY DEF Started, Ended, Seen
<1> QED
  BY <1>1, <1>2, <1>3 DEF ContractView

\* Phase depends on pc only at its two boundaries.
LEMMA PhaseStays ==
    ASSUME pc \notin {"pretask", "pretaskWait"}, pc' \notin {"pretask", "pretaskWait"},
           ~Over, ~Over', UNCHANGED pretask
    PROVE  Phase' = Phase
BY DEF Phase, RanPretasks

\* A step that leaves the view alone is a stutter of the contract.
LEMMA ViewStutters == UNCHANGED ContractView => UNCHANGED Contract!vars
BY DEF ContractView, Contract!vars, Met, Started, Ended, Seen

\* A walking step that only moves pc, at, child or hashOf.
LEMMA WalkIsInvisible ==
    ASSUME IInv,
           ControllerFails \/ AwaitPrimary \/ TakeHash \/ AwaitAttach \/ Bind \/ AwaitConnection
           \/ SpawnAgent \/ AgentsDone \/ TasksPosted \/ AwaitTasks
           \/ KillAgent \/ ReapAgent \/ ChildrenGone
    PROVE  UNCHANGED ContractView
<1>1. UNCHANGED <<pretask, conn, bundle, client, task, handles>>
  BY DEF ControllerFails, AwaitPrimary, TakeHash, AwaitAttach, Bind, AwaitConnection, SpawnAgent,
     AgentsDone, TasksPosted, AwaitTasks, KillAgent, ReapAgent, ChildrenGone, jobs, workers
<1>2. /\ pc \notin {"pretask", "pretaskWait", "returned", "exited"}
      /\ pc' \notin {"pretask", "pretaskWait", "returned", "exited"}
  BY DEF ControllerFails, AwaitPrimary, TakeHash, AwaitAttach, Bind, AwaitConnection, SpawnAgent,
     AgentsDone, TasksPosted, AwaitTasks, KillAgent, ReapAgent, ChildrenGone, Goto, Loop, Return
<1>3. Phase' = Phase
  BY <1>1, <1>2, PhaseStays DEF Over
<1> QED
  BY <1>1, <1>2, <1>3, Invisible DEF Over

\* The walk through the pretasks is invisible until it is done with them.
LEMMA PretaskStepIsAllowed ==
    ASSUME IInv, PretaskStep
    PROVE  Contract!Prepare \/ UNCHANGED ContractView
<1>1. CASE StartPretask
  <2>1. RanPretasks' = RanPretasks
    <3>1. pretask[at] = "unstarted" /\ at \in Pretasks
      BY <1>1 DEF StartPretask, IInv, PretaskInv, TypeOK
    <3>2. pretask' \in {[pretask EXCEPT ![at] = "running"], [pretask EXCEPT ![at] = "failed"]}
      BY <1>1 DEF StartPretask
    <3>3. \A i \in Pretasks : pretask'[i] = "ok" <=> pretask[i] = "ok"
      BY <3>1, <3>2 DEF IInv, TypeOK
    <3> QED
      BY <3>3 DEF RanPretasks
  <2>2. Phase = "pretasks"
    BY <1>1 DEF StartPretask, Phase, Over
  <2>3. Phase' = "pretasks"
    <3>1. pc' \in {"pretaskWait", "unwind"} /\ pretask'[at] # "ok" /\ at \in Pretasks
      BY <1>1 DEF StartPretask, Goto, Return, IInv, TypeOK
    <3> QED
      BY <3>1 DEF Phase, Over, RanPretasks
  <2>4. UNCHANGED <<Met, Started, Ended, Seen>>
    BY <1>1 DEF StartPretask, Goto, Return, jobs, Met, ConnectionMet, ResourceMet, AgentsMet,
        LastLoaded,
       Started, Ended, Seen, Over
  <2> QED
    BY <2>1, <2>2, <2>3, <2>4 DEF ContractView
<1>2. CASE ReapPretask
  <2>1. UNCHANGED <<pretask, conn, bundle, client, task, handles>>
    BY <1>2 DEF ReapPretask, jobs, workers
  <2>2. ~Over /\ ~Over' /\ Phase = "pretasks"
    BY <1>2 DEF ReapPretask, Loop, Return, Over, Phase
  <2>3. Phase' = "pretasks"
    <3>1. pc' = "pretask" \/ (pc' = "unwind" /\ at \in Pretasks /\ pretask'[at] # "ok")
      BY <1>2 DEF ReapPretask, Loop, Return, workers, IInv, PretaskInv, Settled
    <3> QED
      BY <3>1, <2>2 DEF Phase, RanPretasks, Over
  <2> QED
    BY <2>1, <2>2, <2>3, Invisible
<1>3. CASE PretasksDone
  <2>1. RanPretasks = 1 .. PretaskCount /\ Pretasks = 1 .. PretaskCount
    BY <1>3, RunnerAssumption DEF PretasksDone, IInv, TypeOK, PretaskInv, RanPretasks, Pretasks
  <2>2. Phase = "pretasks"
    BY <1>3 DEF PretasksDone, Phase, Over
  <2>3. RanPretasks' = RanPretasks /\ Phase' = "prepare"
    BY <1>3, <2>1 DEF PretasksDone, Phase, Over, Goto, RanPretasks, workers
  <2>4. UNCHANGED <<Met, Started, Ended, Seen>>
    BY <1>3 DEF PretasksDone, Goto, jobs, workers, Met, ConnectionMet, ResourceMet, AgentsMet,
        LastLoaded,
       Started, Ended, Seen, Over
  <2> QED
    BY <2>1, <2>2, <2>3, <2>4 DEF Contract!Prepare, Met, Started, Ended, Seen
<1> QED
  BY <1>1, <1>2, <1>3 DEF PretaskStep

\* Steps on the handles and their queues: at most the resource, the connection
\* or an agent becomes met, or a task starts.
LEMMA SetupStepIsAllowed ==
    ASSUME IInv, IInv', CreateHandles \/ PostPrimary \/ PostAttach
    PROVE  (\E p \in AllMet : Contract!Meet(p)) \/ UNCHANGED ContractView
<1>1. /\ pc \notin {"pretask", "pretaskWait", "returned", "exited"}
      /\ pc' \notin {"pretask", "pretaskWait", "returned", "exited"}
      /\ UNCHANGED <<pretask, client, task, result>>
  BY DEF CreateHandles, PostPrimary, PostAttach, Goto, workers
<1>2. UNCHANGED <<RanPretasks, Phase, Started, Ended, Seen, AgentsMet>>
  BY <1>1, PhaseStays DEF RanPretasks, Started, Ended, Seen, Over, AgentsMet
<1>3. UNCHANGED ConnectionMet
  BY DEF CreateHandles, PostPrimary, PostAttach, ConnectionMet, IInv, HandleInv
<1>4. CASE CreateHandles
  <2>1. handles = "none" /\ ResourceMet = {}
    BY <1>4 DEF CreateHandles, ResourceMet, IInv, HandleInv
  <2>2. CASE ResourceMet' = {}
    BY <1>2, <1>3, <2>1, <2>2 DEF ContractView, Met
  <2>3. CASE ResourceMet' # {}
    <3>1. ResourceMet' = {Prereq("resource", 0)}
      BY <2>3 DEF ResourceMet
    <3>2. Prereq("resource", 0) \notin Met
      BY <2>1 DEF Met, ConnectionMet, AgentsMet, Prereq
    <3>3. Phase = "prepare"
      <4>1. RanPretasks = Pretasks
        BY <1>4 DEF CreateHandles, IInv, PretaskInv, AllPretasksOk, RanPretasks
      <4> QED
        BY <4>1, <1>1 DEF Phase, Over
    <3>4. Contract!Meet(Prereq("resource", 0))
      BY <1>2, <1>3, <2>1, <3>1, <3>2, <3>3 DEF Contract!Meet, Met, Started, Ended, Seen
    <3> QED
      BY <3>4 DEF AllMet
  <2> QED
    BY <2>2, <2>3
<1>5. CASE PostPrimary \/ PostAttach
  <2>1. UNCHANGED ResourceMet
    <3>1. CASE PostPrimary
      <4>1. \A b \in Bundles : bundle[b] = "unposted"
        BY <3>1 DEF PostPrimary, IInv, BundleInv
      <4>2. \A b \in Bundles : bundle'[b] # "ok" /\ bundle[b] # "ok"
        BY <3>1, <4>1 DEF PostPrimary, PostBundles
      <4> QED
        BY <3>1, <4>2, RunnerAssumption DEF PostPrimary, ResourceMet, LastLoaded, Bundles
    <3>2. CASE PostAttach
      <4>1. \A b \in Attach : bundle[b] # "ok" /\ bundle'[b] # "ok"
        BY <3>2, RunnerAssumption DEF PostAttach, PostBundles, IInv, BundleInv, Attach, Bundles
      <4>2. \A b \in Primary : bundle'[b] = bundle[b]
        BY <3>2, RunnerAssumption DEF PostAttach, PostBundles, Primary, Attach, Bundles, IInv,
            TypeOK
      <4> QED
        BY <3>2, <4>1, <4>2, RunnerAssumption DEF PostAttach, ResourceMet, LastLoaded, Attach,
            Primary
    <3> QED
      BY <1>5, <3>1, <3>2
  <2> QED
    BY <1>2, <1>3, <2>1 DEF ContractView, Met
<1> QED
  BY <1>4, <1>5

\* Creating and closing clients is invisible, connecting one meets its
\* prerequisite.
LEMMA AgentStepIsAllowed ==
    ASSUME IInv, CreateClient \/ ConnectAgent \/ DisconnectAgents
    PROVE  (\E p \in AllMet : Contract!Meet(p)) \/ UNCHANGED ContractView
<1>1. /\ pc \notin {"pretask", "pretaskWait", "returned", "exited"}
      /\ pc' \notin {"pretask", "pretaskWait", "returned", "exited"}
      /\ UNCHANGED <<pretask, task, conn, bundle, handles>>
  BY DEF CreateClient, ConnectAgent, DisconnectAgents, Goto, Loop, Return, jobs
<1>2. UNCHANGED <<RanPretasks, Phase, Started, Ended, Seen, ConnectionMet, ResourceMet>>
  BY <1>1, PhaseStays DEF RanPretasks, Started, Ended, Seen, Over, ConnectionMet, ResourceMet,
      LastLoaded
<1>3. CASE CreateClient
  <2>1. at \in Agents /\ client' = [client EXCEPT ![at] = "created"]
    BY <1>3 DEF CreateClient
  <2>2. CASE client[at] = "none"
    <3>1. UNCHANGED AgentsMet
      BY <2>1, <2>2 DEF AgentsMet, IInv, TypeOK
    <3> QED
      BY <1>2, <3>1 DEF ContractView, Met
  <2> QED
    BY <1>3, <2>1, <2>2 DEF CreateClient, IInv, AgentInv, TypeOK
<1>4. CASE ConnectAgent
  <2>1. CASE UNCHANGED client
    BY <1>2, <2>1 DEF ContractView, Met, AgentsMet
  <2>2. CASE client' = [client EXCEPT ![at] = "connected"]
    <3>1. at \in Agents /\ pc = "connect"
      BY <1>4 DEF ConnectAgent, IInv, AgentInv
    <3>2. AgentsMet' = AgentsMet \cup {Prereq("agent", at)}
      BY <2>2, <3>1 DEF AgentsMet, IInv, TypeOK
    <3>3. CASE Prereq("agent", at) \in Met
      BY <1>2, <3>2, <3>3 DEF ContractView, Met, ConnectionMet, ResourceMet, Prereq
    <3>4. CASE Prereq("agent", at) \notin Met
      <4>1. Phase = "prepare"
        BY <3>1, PhaseWhenLive DEF IInv, HandleInv, FromPrimary, FromHash, FromBind, FromAgent
      <4>2. Contract!Meet(Prereq("agent", at))
        BY <1>2, <3>2, <3>4, <4>1 DEF Contract!Meet, Met, Started, Ended, Seen
      <4> QED
        BY <3>1, <4>2 DEF AllMet
    <3> QED
      BY <3>3, <3>4
  <2> QED
    BY <1>4, <2>1, <2>2 DEF ConnectAgent
<1>5. CASE DisconnectAgents
  <2>1. UNCHANGED AgentsMet
    BY <1>5 DEF DisconnectAgents, AgentsMet, IInv, AgentInv, FromPost
  <2> QED
    BY <1>2, <2>1 DEF ContractView, Met
<1> QED
  BY <1>3, <1>4, <1>5

\* Tasks start behind the gate, and the queue ends them in order.
LEMMA TaskStepIsAllowed ==
    ASSUME IInv, IInv', PostTask
    PROVE  at \in Tasks /\ Contract!StartTask(at)
<1>1. /\ pc = "post" /\ pc' = "post" /\ at \in Tasks /\ task' = [task EXCEPT ![at] = "pending"]
      /\ UNCHANGED <<pretask, conn, bundle, client, handles, result>>
  BY DEF PostTask, Loop, workers
<1>2. UNCHANGED <<RanPretasks, Phase, Met, Seen>>
  BY <1>1, PhaseStays DEF RanPretasks, Seen, Over, Met, ConnectionMet, ResourceMet, AgentsMet,
      LastLoaded
<1>3. handles = "live" /\ Phase = "prepare"
  BY <1>1, PhaseWhenLive DEF IInv, HandleInv, FromPrimary, FromHash, FromBind, FromAgent, FromPost
<1>4. Met = AllMet
  BY <1>1, <1>3, MetBehindGate
     DEF IInv, ConnInv, BundleInv, AgentInv, FromHash, FromBind, FromAgent, FromPost
<1>5. \A t \in Tasks : t < at <=> task[t] # "unposted"
  BY <1>1 DEF IInv, TaskInv
<1>6. Started = 1 .. at - 1 /\ Started' = 1 .. at
  BY <1>1, <1>5, RunnerAssumption DEF Started, Tasks, IInv, TypeOK
<1>7. Ended' = Ended
  BY <1>1, <1>5, RunnerAssumption DEF Ended, Tasks, Settled, IInv, TypeOK
<1>8. Contract!StartTask(at)
  BY <1>2, <1>3, <1>4, <1>6, <1>7 DEF Contract!StartTask, Met, AllMet, Started, Ended, Seen
<1> QED
  BY <1>1, <1>8

\* A task that settles is the next one the contract lets end.
LEMMA TaskSettlesIsAllowed ==
    ASSUME IInv, pc # "exited", NEW t \in Tasks, TaskSettles(t)
    PROVE  Contract!EndTask(t)
<1>1. PICK s \in Settled : task' = [task EXCEPT ![t] = s]
  BY DEF TaskSettles
<1>2. UNCHANGED <<RanPretasks, Phase, Met, Seen>>
  BY DEF TaskSettles, thread, workers, RanPretasks, Phase, Seen, Over, Met, ConnectionMet,
     ResourceMet, AgentsMet, LastLoaded
<1>3. Phase = "prepare"
  BY PhaseWhenLive DEF TaskSettles
<1>4. task[t] = "pending" /\ \A e \in Tasks : e < t => task[e] \in Settled
  BY RunnerAssumption DEF TaskSettles, IInv, TypeOK, TaskInv, Tasks, Settled
<1>5. \A l \in Tasks : l > t => task[l] \notin Settled
  BY <1>4, RunnerAssumption DEF IInv, TaskInv, Settled, Tasks
<1>6. Ended = 1 .. t - 1 /\ Ended' = 1 .. t
  BY <1>1, <1>4, <1>5, RunnerAssumption DEF Ended, Tasks, Settled, IInv, TypeOK
<1>7. Started' = Started /\ t \in Started
  BY <1>1, <1>4 DEF Started, Settled, IInv, TypeOK
<1> QED
  BY <1>2, <1>3, <1>6, <1>7 DEF Contract!EndTask, Met, Started, Ended, Seen

\* The return value becomes visible when the locals of run are gone.
LEMMA DestroyIsAllowed ==
    ASSUME IInv, DestroyHandles
    PROVE  Contract!Succeed \/ Contract!GiveUp
<1>1. /\ pc = "destroy" /\ pc' = "returned"
      /\ UNCHANGED <<pretask, conn, bundle, client, task, result>>
  BY DEF DestroyHandles, Goto, jobs, workers
<1>2. UNCHANGED <<RanPretasks, Started, Ended>>
  BY <1>1 DEF RanPretasks, Started, Ended
<1>3. UNCHANGED Met
  BY <1>1 DEF DestroyHandles, Met, ConnectionMet, ResourceMet, AgentsMet, LastLoaded
<1>4. Phase # "over" /\ Phase' = "over" /\ Seen = "none" /\ Seen' = result
  BY <1>1 DEF Phase, Seen, Over
<1>5. CASE result = "true"
  <2>1. handles # "none" /\ AllPretasksOk
    BY <1>5 DEF IInv, ResultInv, PretaskInv
  <2>2. Phase = "prepare"
    BY <1>1, <2>1 DEF Phase, Over, RanPretasks, AllPretasksOk
  <2>3. Met = AllMet
    BY <1>5, <2>1, MetBehindGate DEF IInv, ResultInv, SuccessIsComplete
  <2>4. Ended = 1 .. TaskCount
    BY <1>5 DEF IInv, SuccessIsComplete, Ended, Tasks
  <2> QED
    BY <1>2, <1>3, <1>4, <1>5, <2>2, <2>3, <2>4 DEF Contract!Succeed, Met, AllMet, Started, Ended,
        Seen
<1>6. CASE result = "false"
  <2>1. Started = {}
    BY <1>6 DEF IInv, ResultInv, NoTaskPosted, Started
  <2> QED
    BY <1>2, <1>3, <1>4, <1>6, <2>1 DEF Contract!GiveUp, Met, Started, Ended, Seen
<1> QED
  BY <1>1, <1>5, <1>6 DEF IInv, ResultInv, Unwinding

\* The signal handler's exit is the contract's Interrupt.
LEMMA InterruptIsAllowed ==
    ASSUME IInv, Interrupt
    PROVE  Contract!Interrupt
<1>1. pc \notin {"returned", "exited"} /\ pc' = "exited" /\ result' = "interrupted"
      /\ UNCHANGED <<pretask, conn, bundle, client, task, handles>>
  BY DEF Interrupt, jobs, workers
<1>2. UNCHANGED <<RanPretasks, Met, Started, Ended>>
  BY <1>1 DEF RanPretasks, Met, ConnectionMet, ResourceMet, AgentsMet, LastLoaded, Started, Ended
<1>3. Phase # "over" /\ Phase' = "over" /\ Seen' = "interrupted"
  BY <1>1 DEF Phase, Over, Seen
<1> QED
  BY <1>2, <1>3 DEF Contract!Interrupt, Met, Started, Ended, Seen

\* A pretask that exits with 0 is the next one the contract lets run; one that
\* fails is not seen.
LEMMA PretaskExitsIsAllowed ==
    ASSUME IInv, pc # "exited", NEW i \in Pretasks, PretaskExits(i)
    PROVE  Contract!RunPretask(i) \/ UNCHANGED ContractView
<1>1. PICK s \in Settled : pretask' = [pretask EXCEPT ![i] = s]
  BY DEF PretaskExits
<1>2. pretask[i] = "running" /\ UNCHANGED <<pc, conn, bundle, client, task, handles, result>>
  BY DEF PretaskExits, thread, jobs
<1>3. UNCHANGED <<Met, Started, Ended, Seen>>
  BY <1>2 DEF Met, ConnectionMet, ResourceMet, AgentsMet, LastLoaded, Started, Ended, Seen, Over
<1>4. Phase = "pretasks" /\ Phase' = "pretasks"
  BY <1>2 DEF IInv, PretaskInv, Phase, Over
<1>5. \A j \in Pretasks : (j < i => pretask[j] = "ok") /\ (j > i => pretask[j] # "ok")
  BY <1>2 DEF IInv, PretaskInv
<1>6. CASE s = "ok"
  <2>1. RanPretasks = 1 .. i - 1 /\ RanPretasks' = 1 .. i
    BY <1>1, <1>2, <1>5, <1>6, RunnerAssumption DEF RanPretasks, Pretasks, IInv, TypeOK
  <2> QED
    BY <1>3, <1>4, <2>1 DEF Contract!RunPretask, Met, Started, Ended, Seen
<1>7. CASE s = "failed"
  <2>1. RanPretasks' = RanPretasks
    BY <1>1, <1>2, <1>7 DEF RanPretasks, IInv, TypeOK
  <2> QED
    BY <1>3, <1>4, <2>1 DEF ContractView
<1> QED
  BY <1>6, <1>7 DEF Settled

\* The connection job is awaited only after it was posted, in "prepare".
LEMMA ConnectionSettlesIsAllowed ==
    ASSUME IInv, pc # "exited", ConnectionSettles
    PROVE  Contract!Meet(Prereq("connection", 0)) \/ UNCHANGED ContractView
<1>1. /\ conn = "pending" /\ conn' \in Settled
      /\ UNCHANGED <<pc, pretask, bundle, client, task, handles, result>>
  BY DEF ConnectionSettles, thread, workers
<1>2. UNCHANGED <<RanPretasks, Phase, Started, Ended, Seen, ResourceMet, AgentsMet>>
  BY <1>1 DEF RanPretasks, Phase, Started, Ended, Seen, Over, ResourceMet, AgentsMet, LastLoaded
<1>3. Phase = "prepare"
  BY PhaseWhenLive DEF ConnectionSettles
<1>4. Prereq("connection", 0) \notin Met
  BY <1>1 DEF Met, ConnectionMet, ResourceMet, AgentsMet, Prereq
<1>5. CASE conn' = "ok"
  <2>1. Met' = Met \cup {Prereq("connection", 0)}
    BY <1>1, <1>2, <1>5 DEF Met, ConnectionMet
  <2> QED
    BY <1>2, <1>3, <1>4, <2>1 DEF Contract!Meet, Met, Started, Ended, Seen
<1>6. CASE conn' = "failed"
  BY <1>1, <1>2, <1>6 DEF ContractView, Met, ConnectionMet
<1> QED
  BY <1>1, <1>5, <1>6 DEF Settled

\* A bundle that settles can only add the resource to what is met.
LEMMA BundleSettlesIsAllowed ==
    ASSUME IInv, pc # "exited", NEW b \in Bundles, BundleSettles(b)
    PROVE  Contract!Meet(Prereq("resource", 0)) \/ UNCHANGED ContractView
<1>1. UNCHANGED <<pc, pretask, conn, client, task, handles, result>>
  BY DEF BundleSettles, thread, workers
<1>2. UNCHANGED <<RanPretasks, Phase, Started, Ended, Seen, ConnectionMet, AgentsMet>>
  BY <1>1 DEF RanPretasks, Phase, Started, Ended, Seen, Over, ConnectionMet, AgentsMet
<1>3. Phase = "prepare"
  BY PhaseWhenLive DEF BundleSettles
<1>4. ResourceMet # {} => ResourceMet' # {}
  <2>1. \A x \in Bundles : bundle[x] = "ok" => bundle'[x] = "ok"
    BY SettledStays DEF IInv
  <2> QED
    BY <1>1, <2>1, RunnerAssumption DEF ResourceMet, LastLoaded, Bundles
<1>5. ResourceMet \in {{}, {Prereq("resource", 0)}} /\ ResourceMet' \in {{}, {Prereq("resource",
    0)}}
  BY DEF ResourceMet
<1>6. CASE ResourceMet' = ResourceMet
  BY <1>2, <1>6 DEF ContractView, Met
<1>7. CASE ResourceMet' # ResourceMet
  <2>1. ResourceMet = {} /\ ResourceMet' = {Prereq("resource", 0)}
    BY <1>4, <1>5, <1>7
  <2>2. Met' = Met \cup {Prereq("resource", 0)}
    BY <1>2, <2>1 DEF Met
  <2>3. Prereq("resource", 0) \notin Met
    BY <2>1 DEF Met, ConnectionMet, AgentsMet, Prereq
  <2> QED
    BY <1>2, <1>3, <2>2, <2>3 DEF Contract!Meet, Met, Started, Ended, Seen
<1> QED
  BY <1>6, <1>7

\* An agent process that ends is none of the contract's business.
LEMMA AgentExitsIsInvisible ==
    ASSUME NEW a \in Agents, AgentExits(a)
    PROVE  UNCHANGED ContractView
BY DEF AgentExits, thread, jobs, ContractView, RanPretasks, Phase, Over, Met, ConnectionMet,
       ResourceMet, AgentsMet, LastLoaded, Started, Ended, Seen

\* Nothing the contract sees changes when nothing changes.
LEMMA StutterIsInvisible == UNCHANGED vars => UNCHANGED ContractView
BY DEF vars, ContractView, RanPretasks, Phase, Over, Met, ConnectionMet,
       ResourceMet, AgentsMet, LastLoaded, Started, Ended, Seen

\* A step of Runner from and to states of the invariant is a step of the
\* contract, or one the contract does not see.
LEMMA StepsAreAllowed ==
    IInv /\ IInv' /\ [Next]_vars => [Contract!Next]_(Contract!vars)
<1> SUFFICES ASSUME IInv, IInv', [Next]_vars
    PROVE  Contract!Next \/ UNCHANGED Contract!vars
  OBVIOUS
<1>1. CASE PretaskStep
  BY <1>1, PretaskStepIsAllowed, ViewStutters DEF Contract!Next
<1>2. CASE CreateHandles \/ PostPrimary \/ PostAttach
  BY <1>2, SetupStepIsAllowed, ViewStutters DEF Contract!Next, AllMet
<1>3. CASE CreateClient \/ ConnectAgent \/ DisconnectAgents
  BY <1>3, AgentStepIsAllowed, ViewStutters DEF Contract!Next, AllMet
<1>4. CASE PostTask
  BY <1>4, TaskStepIsAllowed DEF Contract!Next, Contract!StartTask, Tasks
<1>5. CASE DestroyHandles
  BY <1>5, DestroyIsAllowed DEF Contract!Next
<1>6. CASE Interrupt
  BY <1>6, InterruptIsAllowed DEF Contract!Next
<1>7. CASE ControllerFails \/ AwaitPrimary \/ TakeHash \/ AwaitAttach \/ Bind \/ AwaitConnection
           \/ SpawnAgent \/ AgentsDone \/ TasksPosted \/ AwaitTasks
           \/ KillAgent \/ ReapAgent \/ ChildrenGone
  BY <1>7, WalkIsInvisible, ViewStutters
<1>8. CASE Outside
  <2>1. ASSUME NEW i \in Pretasks, PretaskExits(i) PROVE Contract!Next \/ UNCHANGED Contract!vars
    BY <1>8, <2>1, PretaskExitsIsAllowed, ViewStutters DEF Outside, Contract!Next, Pretasks
  <2>2. CASE ConnectionSettles
    BY <1>8, <2>2, ConnectionSettlesIsAllowed, ViewStutters DEF Outside, Contract!Next
  <2>3. ASSUME NEW b \in Bundles, BundleSettles(b) PROVE Contract!Next \/ UNCHANGED Contract!vars
    BY <1>8, <2>3, BundleSettlesIsAllowed, ViewStutters DEF Outside, Contract!Next
  <2>4. ASSUME NEW t \in Tasks, TaskSettles(t) PROVE Contract!Next \/ UNCHANGED Contract!vars
    BY <1>8, <2>4, TaskSettlesIsAllowed DEF Outside, Contract!Next, Tasks
  <2>5. ASSUME NEW a \in Agents, AgentExits(a) PROVE Contract!Next \/ UNCHANGED Contract!vars
    BY <2>5, AgentExitsIsInvisible, ViewStutters
  <2> QED
    BY <1>8, <2>1, <2>2, <2>3, <2>4, <2>5 DEF Outside
<1>9. CASE UNCHANGED vars
  BY <1>9, StutterIsInvisible, ViewStutters
<1> QED
  BY <1>1, <1>2, <1>3, <1>4, <1>5, <1>6, <1>7, <1>8, <1>9
     DEF Next, RunStep, SetupStep, AgentStep, TaskStep, LeaveStep

\* Runner starts where the contract does.
LEMMA StartIsAllowed == Init => Contract!Init
<1> SUFFICES ASSUME Init PROVE Contract!Init
  OBVIOUS
<1>1. RanPretasks = {} /\ Phase = "pretasks" /\ Started = {} /\ Ended = {} /\ Seen = "none"
  BY DEF Init, RanPretasks, Phase, Over, Started, Ended, Seen, Settled
<1>2. Met = {}
  BY DEF Init, Met, ConnectionMet, ResourceMet, AgentsMet
<1> QED
  BY <1>1, <1>2 DEF Contract!Init, Met, Started, Ended, Seen

\* Every run of Runner is a run the contract allows: pretasks first and in
\* order, tasks only behind every prerequisite, false only with no task
\* started, true only with all of them ended (Runner.cpp:473-681).
THEOREM Refinement == Spec => KeepsContract
<1>1. Init => Contract!Init
  BY StartIsAllowed
<1>2. IInv /\ IInv' /\ [Next]_vars => [Contract!Next]_(Contract!vars)
  BY StepsAreAllowed
<1> QED
  BY <1>1, <1>2, Invariance, PTL DEF Spec, KeepsContract, Contract!Spec
=============================================================================
