------------------------------- MODULE Runner -------------------------------
(***************************************************************************)
(* Runner::run (Impl/Runner.cpp): one execution of a RuntimeParam.  The    *)
(* calling thread walks through run; beside it work the pretask processes, *)
(* the connection and bundle jobs of MaaFramework, the tasker's job queue  *)
(* and one child process per agent.  Those are external: the source only   *)
(* posts a job and waits for its id, or spawns a process and waits for it, *)
(* so each of them may end, well or badly, at any time after it began.     *)
(* Bundles and tasks are queues: the code waits for the last id only.      *)
(***************************************************************************)
EXTENDS Integers

CONSTANTS PretaskCount,  \* param.pretask.size()
          PrimaryCount,  \* min(param.primary_resource_count, resource_path.size())
          AttachCount,   \* the attach_resource_path entries behind them
          AgentCount,    \* param.agent.size()
          TaskCount      \* param.task.size()

ASSUME RunnerAssumption ==
    /\ PretaskCount \in Nat
    /\ PrimaryCount \in Nat
    /\ AttachCount \in Nat
    /\ AgentCount \in Nat
    /\ TaskCount \in Nat

Pretasks == 1 .. PretaskCount
Primary  == 1 .. PrimaryCount
Attach   == PrimaryCount + 1 .. PrimaryCount + AttachCount
Bundles  == 1 .. PrimaryCount + AttachCount
Agents   == 1 .. AgentCount
Tasks    == 1 .. TaskCount

NotTaken == {0}     \* hashOf before get_hash: no bundle has this index

VARIABLES
    pc,        \* where the calling thread is inside run
    at,        \* the element its current loop is at
    pretask,   \* pretask processes: "unstarted", "running", "ok", "failed"
    conn,      \* the connection job: "unposted", "pending", "ok", "failed"
    bundle,    \* the bundle jobs, in posting order
    hashOf,    \* the bundles loaded when get_hash was called
    client,    \* MaaAgentClients: "none", "created", "connected", "closed"
    child,     \* agent processes: "none", "alive", "signalled", "exited", "reaped"
    task,      \* the tasker's jobs
    handles,   \* controller, tasker and resource: "none", "live", "destroyed"
    result     \* what run returns: "none" while it runs

vars == <<pc, at, pretask, conn, bundle, hashOf, client, child, task, handles, result>>

jobs    == <<conn, bundle, task>>
workers == <<pretask, client, child>>

Settled == {"ok", "failed"}

TypeOK ==
    /\ pc \in {"pretask", "pretaskWait", "controller", "primary", "primaryWait", "hash",
               "attach", "attachWait", "bind", "connWait", "agent", "spawn", "connect",
               "post", "taskWait", "disconnect", "unwind", "reap", "destroy", "returned", "exited"}
    /\ at \in Nat
    /\ pretask \in [Pretasks -> {"unstarted", "running", "ok", "failed"}]
    /\ conn \in {"unposted", "pending", "ok", "failed"}
    /\ bundle \in [Bundles -> {"unposted", "pending", "ok", "failed"}]
    /\ hashOf \in (SUBSET Bundles) \cup {NotTaken}
    /\ client \in [Agents -> {"none", "created", "connected", "closed"}]
    /\ child \in [Agents -> {"none", "alive", "signalled", "exited", "reaped"}]
    /\ task \in [Tasks -> {"unposted", "pending", "ok", "failed"}]
    /\ handles \in {"none", "live", "destroyed"}
    /\ result \in {"none", "true", "false", "interrupted"}

Init ==
    /\ pc = "pretask"
    /\ at = 1
    /\ pretask = [i \in Pretasks |-> "unstarted"]
    /\ conn = "unposted"
    /\ bundle = [b \in Bundles |-> "unposted"]
    /\ hashOf = NotTaken
    /\ client = [a \in Agents |-> "none"]
    /\ child = [a \in Agents |-> "none"]
    /\ task = [t \in Tasks |-> "unposted"]
    /\ handles = "none"
    /\ result = "none"

Goto(label) == pc' = label /\ UNCHANGED <<at, result>>

Loop(label, index) == pc' = label /\ at' = index /\ UNCHANGED result

\* "return value": the locals of run are destroyed before the caller goes on.
Return(value) == pc' = "unwind" /\ at' = 1 /\ result' = value

-----------------------------------------------------------------------------
(* Pretasks: run_pretasks and run_pretask_process.                          *)

\* pipe, fork, chdir or exec may fail, or the process starts.
StartPretask ==
    /\ pc = "pretask"
    /\ at \in Pretasks
    /\ \/ /\ pretask' = [pretask EXCEPT ![at] = "running"]
          /\ Goto("pretaskWait")
       \/ /\ pretask' = [pretask EXCEPT ![at] = "failed"]
          /\ Return("false")
    /\ UNCHANGED <<jobs, hashOf, client, child, handles>>

\* waitpid: only a normal exit with status 0 lets the loop go on.
ReapPretask ==
    /\ pc = "pretaskWait"
    /\ pretask[at] \in Settled
    /\ IF pretask[at] = "ok" THEN Loop("pretask", at + 1) ELSE Return("false")
    /\ UNCHANGED <<jobs, workers, hashOf, handles>>

PretasksDone ==
    /\ pc = "pretask"
    /\ at \notin Pretasks
    /\ Goto("controller")
    /\ UNCHANGED <<jobs, workers, hashOf, handles>>

-----------------------------------------------------------------------------
(* Controller, resource and tasker.                                         *)

\* A type this platform lacks, a failed reconfig_linux or a null handle.
ControllerFails ==
    /\ pc = "controller"
    /\ Return("false")
    /\ UNCHANGED <<jobs, workers, hashOf, handles>>

\* Creates the three handles, sets the display option, posts the connection.
CreateHandles ==
    /\ pc = "controller"
    /\ handles' = "live"
    /\ conn' = "pending"
    /\ Goto("primary")
    /\ UNCHANGED <<bundle, task, workers, hashOf>>

\* post_resources: every bundle is posted, the id of the last one is kept.
PostBundles(group) == bundle' = [b \in Bundles |-> IF b \in group THEN "pending" ELSE bundle[b]]

\* Slip: the attached bundles are posted together with the primary ones.
PostPrimary_WithAttached ==
    /\ pc = "primary"
    /\ PostBundles(Bundles)
    /\ Goto(IF PrimaryCount = 0 THEN "hash" ELSE "primaryWait")
    /\ UNCHANGED <<conn, task, workers, hashOf, handles>>

PostPrimary ==
    /\ pc = "primary"
    /\ PostBundles(Primary)
    /\ Goto(IF PrimaryCount = 0 THEN "hash" ELSE "primaryWait")
    /\ UNCHANGED <<conn, task, workers, hashOf, handles>>

\* Slip: the status of the primary bundles is not looked at.
AwaitPrimary_StatusDropped ==
    /\ pc = "primaryWait"
    /\ bundle[PrimaryCount] \in Settled
    /\ Goto("hash")
    /\ UNCHANGED <<jobs, workers, hashOf, handles>>

AwaitPrimary ==
    /\ pc = "primaryWait"
    /\ bundle[PrimaryCount] \in Settled
    /\ IF bundle[PrimaryCount] = "failed" THEN Return("false") ELSE Goto("hash")
    /\ UNCHANGED <<jobs, workers, hashOf, handles>>

\* resource.hash, when given, is compared here; a mismatch is only logged.
TakeHash ==
    /\ pc = "hash"
    /\ hashOf' \in {NotTaken, {b \in Bundles : bundle[b] = "ok"}}
    /\ Goto("attach")
    /\ UNCHANGED <<jobs, workers, handles>>

PostAttach ==
    /\ pc = "attach"
    /\ PostBundles(Attach)
    /\ Goto(IF AttachCount = 0 THEN "bind" ELSE "attachWait")
    /\ UNCHANGED <<conn, task, workers, hashOf, handles>>

AwaitAttach ==
    /\ pc = "attachWait"
    /\ bundle[PrimaryCount + AttachCount] \in Settled
    /\ IF bundle[PrimaryCount + AttachCount] = "failed" THEN Return("false") ELSE Goto("bind")
    /\ UNCHANGED <<jobs, workers, hashOf, handles>>

\* Binds controller and resource to the tasker.
Bind ==
    /\ pc = "bind"
    /\ Goto("connWait")
    /\ UNCHANGED <<jobs, workers, hashOf, handles>>

\* Slip: a connection that failed is treated like one that succeeded.
AwaitConnection_StatusDropped ==
    /\ pc = "connWait"
    /\ conn \in Settled
    /\ Loop("agent", 1)
    /\ UNCHANGED <<jobs, workers, hashOf, handles>>

\* The wait for rid that follows cannot change anything: its job is settled,
\* and without attached bundles rid is 0, which names no job.
AwaitConnection ==
    /\ pc = "connWait"
    /\ conn \in Settled
    /\ IF conn = "failed" THEN Return("false") ELSE Loop("agent", 1)
    /\ UNCHANGED <<jobs, workers, hashOf, handles>>

-----------------------------------------------------------------------------
(* Agents.                                                                  *)

\* Creates the client and binds the resource to it.
CreateClient ==
    /\ pc = "agent"
    /\ at \in Agents
    /\ client' = [client EXCEPT ![at] = "created"]
    /\ Goto("spawn")
    /\ UNCHANGED <<jobs, pretask, child, hashOf, handles>>

\* A failed pipe, fork or exec is seen.  A failed chdir is not: the child
\* leaves with _exit(127) and closes the pipe without writing to it.
SpawnAgent ==
    /\ pc = "spawn"
    /\ \/ /\ \E s \in {"alive", "exited"} : child' = [child EXCEPT ![at] = s]
          /\ Goto("connect")
       \/ Return("false") /\ UNCHANGED child
    /\ UNCHANGED <<jobs, pretask, client, hashOf, handles>>

\* Slip: the child is put under agent_children only once it has connected.
ConnectAgent_OwnedTooLate ==
    /\ pc = "connect"
    /\ \/ /\ child[at] = "alive"
          /\ client' = [client EXCEPT ![at] = "connected"]
          /\ Loop("agent", at + 1)
       \/ pc' = "destroy" /\ result' = "false" /\ UNCHANGED <<at, client>>
    /\ UNCHANGED <<jobs, pretask, child, hashOf, handles>>

\* MaaAgentClientConnect succeeds only with a child that answers.  The client
\* of a failed attempt and those of earlier agents are not destroyed.
ConnectAgent ==
    /\ pc = "connect"
    /\ \/ /\ child[at] = "alive"
          /\ client' = [client EXCEPT ![at] = "connected"]
          /\ Loop("agent", at + 1)
       \/ Return("false") /\ UNCHANGED client
    /\ UNCHANGED <<jobs, pretask, child, hashOf, handles>>

AgentsDone ==
    /\ pc = "agent"
    /\ at \notin Agents
    /\ Loop("post", 1)
    /\ UNCHANGED <<jobs, workers, hashOf, handles>>

-----------------------------------------------------------------------------
(* Tasks.                                                                   *)

PostTask ==
    /\ pc = "post"
    /\ at \in Tasks
    /\ task' = [task EXCEPT ![at] = "pending"]
    /\ Loop("post", at + 1)
    /\ UNCHANGED <<conn, bundle, workers, hashOf, handles>>

TasksPosted ==
    /\ pc = "post"
    /\ at \notin Tasks
    /\ Goto("taskWait")
    /\ UNCHANGED <<jobs, workers, hashOf, handles>>

\* Slip: tid keeps the id of the first task.
AwaitTasks_FirstOnly ==
    /\ pc = "taskWait"
    /\ TaskCount # 0 => task[1] \in Settled
    /\ Goto("disconnect")
    /\ UNCHANGED <<jobs, workers, hashOf, handles>>

\* wait(tid) for the last task only, and its status is dropped; with no task
\* tid is 0 and the wait returns at once.
AwaitTasks ==
    /\ pc = "taskWait"
    /\ TaskCount # 0 => task[TaskCount] \in Settled
    /\ Goto("disconnect")
    /\ UNCHANGED <<jobs, workers, hashOf, handles>>

\* Slip: the loop stops one client short.
DisconnectAgents_OneShort ==
    /\ pc = "disconnect"
    /\ client' = [a \in 1 .. AgentCount - 1 |-> "closed"]
    /\ Return("true")
    /\ UNCHANGED <<jobs, pretask, child, hashOf, handles>>

DisconnectAgents ==
    /\ pc = "disconnect"
    /\ client' = [a \in Agents |-> "closed"]
    /\ Return("true")
    /\ UNCHANGED <<jobs, pretask, child, hashOf, handles>>

-----------------------------------------------------------------------------
(* Leaving run: agent_children is destroyed before the scope guard runs.     *)

\* Slip: the destructor waits for the process without terminating it.
KillAgent_NoSignal ==
    /\ pc = "unwind"
    /\ at \in Agents
    /\ Goto("reap")
    /\ UNCHANGED <<jobs, workers, hashOf, handles>>

\* ~AgentProcess, first half: SIGTERM (TerminateProcess on Windows).
KillAgent ==
    /\ pc = "unwind"
    /\ at \in Agents
    /\ child' = [child EXCEPT ![at] = IF @ = "alive" THEN "signalled" ELSE @]
    /\ Goto("reap")
    /\ UNCHANGED <<jobs, pretask, client, hashOf, handles>>

\* ~AgentProcess, second half: wait until the process is gone.
ReapAgent ==
    /\ pc = "reap"
    /\ child[at] \in {"exited", "none"}
    /\ child' = [child EXCEPT ![at] = IF @ = "exited" THEN "reaped" ELSE @]
    /\ Loop("unwind", at + 1)
    /\ UNCHANGED <<jobs, pretask, client, hashOf, handles>>

ChildrenGone ==
    /\ pc = "unwind"
    /\ at \notin Agents
    /\ Goto("destroy")
    /\ UNCHANGED <<jobs, workers, hashOf, handles>>

\* OnScopeLeave, registered once the handles exist.
DestroyHandles ==
    /\ pc = "destroy"
    /\ handles' = IF handles = "live" THEN "destroyed" ELSE handles
    /\ Goto("returned")
    /\ UNCHANGED <<jobs, workers, hashOf>>

\* sig_handler calls exit(0): no local of run is destroyed, no child is killed.
Interrupt ==
    /\ pc \notin {"returned", "exited"}
    /\ pc' = "exited"
    /\ result' = "interrupted"
    /\ UNCHANGED <<at, jobs, workers, hashOf, handles>>

PretaskStep == StartPretask \/ ReapPretask \/ PretasksDone

SetupStep ==
    \/ ControllerFails \/ CreateHandles \/ PostPrimary \/ AwaitPrimary \/ TakeHash
    \/ PostAttach \/ AwaitAttach \/ Bind \/ AwaitConnection

AgentStep == CreateClient \/ SpawnAgent \/ ConnectAgent \/ AgentsDone

TaskStep == PostTask \/ TasksPosted \/ AwaitTasks \/ DisconnectAgents

LeaveStep == KillAgent \/ ReapAgent \/ ChildrenGone \/ DestroyHandles

RunStep == PretaskStep \/ SetupStep \/ AgentStep \/ TaskStep \/ LeaveStep

-----------------------------------------------------------------------------
(* The processes and jobs the thread waits for.                             *)

thread == <<pc, at, hashOf, handles, result>>

PretaskExits(i) ==
    /\ pretask[i] = "running"
    /\ \E s \in Settled : pretask' = [pretask EXCEPT ![i] = s]
    /\ UNCHANGED <<thread, jobs, client, child>>

ConnectionSettles ==
    /\ handles = "live"
    /\ conn = "pending"
    /\ conn' \in Settled
    /\ UNCHANGED <<thread, workers, bundle, task>>

\* The resource's queue: a bundle is loaded when those before it are settled.
BundleSettles(b) ==
    /\ handles = "live"
    /\ bundle[b] = "pending"
    /\ \A earlier \in 1 .. b - 1 : bundle[earlier] # "pending"
    /\ \E s \in Settled : bundle' = [bundle EXCEPT ![b] = s]
    /\ UNCHANGED <<thread, workers, conn, task>>

TaskSettles(t) ==
    /\ handles = "live"
    /\ task[t] = "pending"
    /\ \A earlier \in 1 .. t - 1 : task[earlier] # "pending"
    /\ \E s \in Settled : task' = [task EXCEPT ![t] = s]
    /\ UNCHANGED <<thread, workers, conn, bundle>>

\* An agent may leave by itself, and does leave once it is told to.
AgentExits(a) ==
    /\ child[a] \in {"alive", "signalled"}
    /\ child' = [child EXCEPT ![a] = "exited"]
    /\ UNCHANGED <<thread, jobs, pretask, client>>

\* Between exit(0) and the end of the process nothing else moves in the model.
Outside ==
    /\ pc # "exited"
    /\ \/ \E i \in Pretasks : PretaskExits(i)
       \/ ConnectionSettles
       \/ \E b \in Bundles : BundleSettles(b)
       \/ \E t \in Tasks : TaskSettles(t)
       \/ \E a \in Agents : AgentExits(a)

Next == RunStep \/ Outside \/ Interrupt

Spec == Init /\ [][Next]_vars

(***************************************************************************)
(* The thread is scheduled; jobs and pretasks end; a child that is told to *)
(* terminate does.  An agent is not obliged to leave by itself, and the    *)
(* signal need not come.                                                   *)
(***************************************************************************)
Fairness ==
    /\ WF_vars(RunStep)
    /\ WF_vars(ConnectionSettles /\ pc # "exited")
    /\ \A i \in Pretasks : WF_vars(PretaskExits(i) /\ pc # "exited")
    /\ \A b \in Bundles : WF_vars(BundleSettles(b) /\ pc # "exited")
    /\ \A t \in Tasks : WF_vars(TaskSettles(t) /\ pc # "exited")
    /\ \A a \in Agents : WF_vars(AgentExits(a) /\ child[a] = "signalled" /\ pc # "exited")

FairSpec == Spec /\ Fairness

-----------------------------------------------------------------------------
(* Properties.                                                              *)

LastLoaded(first, count) == count > 0 => bundle[first + count] = "ok"

\* No task is posted before the pretasks have all exited with 0, the connection
\* is up, the last primary and the last attached bundle are loaded and every
\* agent is connected; run posts several jobs at once and waits for them in an
\* order of its own (Runner.cpp:473-671).
StartGate ==
    (\E t \in Tasks : task[t] # "unposted") =>
        /\ \A i \in Pretasks : pretask[i] = "ok"
        /\ conn = "ok"
        /\ LastLoaded(0, PrimaryCount) /\ LastLoaded(PrimaryCount, AttachCount)
        /\ \A a \in Agents : client[a] \in {"connected", "closed"}

\* The hash of the resource is that of resource.path alone: when it is read, no
\* attached bundle is loaded and no primary one is still on its way, although
\* bundles load on another thread (Runner.cpp:589-609).
HashOfPrimary ==
    hashOf # NotTaken =>
        /\ hashOf = {b \in Primary : bundle[b] = "ok"}
        /\ \A b \in Primary : bundle[b] \in Settled

\* Whatever made run return, no agent process is left, and none was alive when
\* the resource its client is bound to was destroyed (Runner.cpp:238-247,
\* 548-552, 626-652).  Only exit(0) in a signal handler leaves agents behind.
NoAgentOutlivesRun ==
    handles = "destroyed" \/ pc = "returned" =>
        \A a \in Agents : child[a] \in {"none", "reaped"}

\* true means that the queue is empty: waiting for the last id covers all tasks,
\* and every client is closed (Runner.cpp:668-680).  It does not mean that a
\* task succeeded.
SuccessIsComplete ==
    result = "true" =>
        /\ \A t \in Tasks : task[t] \in Settled
        /\ \A a \in Agents : client[a] = "closed"

\* run ends by itself if jobs, pretasks and signalled children do: no wait of
\* the walk is for something that nobody will do (Runner.cpp:473-681).
RunEnds == <>(pc \in {"returned", "exited"})

(***************************************************************************)
(* The contract: which of its variables stands for what.                   *)
(***************************************************************************)
Over == pc \in {"returned", "exited"}

RanPretasks == {i \in Pretasks : pretask[i] = "ok"}

Prereq(kind, a) == <<kind, a>>

ConnectionMet == IF conn = "ok" THEN {Prereq("connection", 0)} ELSE {}

ResourceMet ==
    IF /\ handles # "none"
       /\ LastLoaded(0, PrimaryCount) /\ LastLoaded(PrimaryCount, AttachCount)
    THEN {Prereq("resource", 0)} ELSE {}

AgentsMet == {Prereq("agent", a) : a \in {b \in Agents : client[b] \in {"connected", "closed"}}}

Phase ==
    CASE Over -> "over"
      [] ~Over /\ (RanPretasks # Pretasks \/ pc \in {"pretask", "pretaskWait"}) -> "pretasks"
      [] OTHER -> "prepare"

Contract == INSTANCE RunContract WITH
    Prereqs <- {Prereq("connection", 0), Prereq("resource", 0)} \cup {Prereq("agent", a) : a \in Agents},
    ran     <- RanPretasks,
    phase   <- Phase,
    met     <- ConnectionMet \cup ResourceMet \cup AgentsMet,
    started <- {t \in Tasks : task[t] # "unposted"},
    ended   <- {t \in Tasks : task[t] \in Settled},
    result  <- IF Over THEN result ELSE "none"

\* Every step of run, of its jobs and of its children is a step of the contract
\* or none: the waits in the middle of run add up to the promise of RunContract.
KeepsContract == Contract!Spec
=============================================================================
