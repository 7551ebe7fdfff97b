--------------------------- MODULE YarnAppMaster ---------------------------
(* The YARN application master of the tracker (ApplicationMaster.java): its
   task lists, the callbacks of the resource manager (RM) and of the node
   manager (NM), and the main thread that submits the tasks and polls until
   none is left. Every callback is synchronized on the master, so each one is
   a single step; the RM, the NM and the containers are external. *)
EXTENDS Integers, Sequences, FiniteSets, Functions, SequencesExt

CONSTANTS numWorker, numServer,    \* DMLC_NUM_WORKER, DMLC_NUM_SERVER
          maxNumAttempt,           \* DMLC_MAX_ATTEMPT
          Nodes,                   \* hosts of the cluster
          Containers,              \* bound: containers that exist at one time
          BatchMax,                \* bound: containers reported in one callback
          MaxErrors,               \* bound: RM errors and shutdown requests
          LaunchFails,             \* TRUE if launchTask and launchDummyTask may throw
          None

numTasks == numWorker + numServer
Tasks == 1 .. numTasks
Roles == {"worker", "server"}
taskRole(t) == IF t <= numWorker THEN "worker" ELSE "server"

VARIABLES
    phase,           \* run(): "register", "polling", "report", "ended"
    success,
    startAbort, pendingTasks, runningTasks, blackList,
    finishedTasks, killedTasks,                 \* how often a task is listed
    attemptCounter, container, abortRequested,  \* fields of TaskRecord
    table, owed,     \* requests the RM client holds; containers the RM owes
    node, grant,     \* host of a container, role whose request it answers
    live, starting,  \* not reported completed; outcome of the start unknown
    stopped,         \* stopContainerAsync was called
    errors,
    assigned, launches,     \* history: task put in a container; starts per task
    dropped                 \* history: tasks whose launch threw

master == <<startAbort, pendingTasks, runningTasks, blackList, finishedTasks,
            killedTasks, attemptCounter, container, abortRequested>>
cluster == <<node, grant, live, starting, stopped, assigned>>
vars == <<phase, success, master, table, owed, cluster, errors, launches, dropped>>

-----------------------------------------------------------------------------
InRun(run, t) == Cardinality({c \in DOMAIN run : run[c] = t})
InSeq(s, t) == Cardinality({i \in DOMAIN s : s[i] = t})
Total(count) == FoldFunction(+, 0, count)

\* addContainerRequest and removeContainerRequest change the table; the next
\* heartbeat tells the RM the new number of containers wanted for that role.
Request(change) ==
    /\ table' = [r \in Roles |-> table[r] + change[r]]
    /\ owed' = [r \in Roles |-> IF change[r] = 0 THEN owed[r] ELSE table'[r]]

OfRole(s, r) == Len(SelectSeq(s, LAMBDA t : taskRole(t) = r))

submitTasks(tasks) ==
    /\ pendingTasks' = pendingTasks \o tasks
    /\ Request([r \in Roles |-> OfRole(tasks, r)])

\* abortJob when run is what is left of runningTasks; the tasks in failing are
\* in the hands of handleFailure, which adds them to killedTasks itself and has
\* stopped their containers. Those in gone have ended.
KilledMutant(run, failing) ==
    [t \in Tasks |-> killedTasks[t] + InSeq(pendingTasks, t)
                         + (IF abortRequested[t] THEN 0 ELSE InRun(run, t))]

Killed(run, failing) ==
    [t \in Tasks |-> killedTasks[t] + InSeq(pendingTasks, t) + InSeq(failing, t)
                         + (IF abortRequested[t] THEN 0 ELSE InRun(run, t))]

StopFailed(lost) == lost

StopAll(run) == {c \in DOMAIN run : ~abortRequested[run[c]]}

abortJob(run, failing, failed, gone) ==
    /\ startAbort' = TRUE
    /\ killedTasks' = Killed(run, failing)
    /\ abortRequested' = [t \in Tasks |-> abortRequested[t] \/ InRun(run, t) > 0]
    /\ stopped' = (stopped \cup StopAll(run) \cup StopFailed(failed)) \ gone
    /\ pendingTasks' = <<>> /\ runningTasks' = <<>>
    /\ Request([r \in Roles |-> -OfRole(pendingTasks, r)])

Exhausted(t) == attemptCounter[t] + 1 >= maxNumAttempt

\* The failed containers that handleFailure gets to: abortJob empties
\* runningTasks, so the ones after the first exhausted task are not found.
UpToAbort(run, failed) ==
    LET known == SelectSeq(failed, LAMBDA c : c \in DOMAIN run)
        over == {i \in DOMAIN known : Exhausted(run[known[i]])}
    IN  IF over = {} THEN known
        ELSE SubSeq(known, 1, CHOOSE i \in over : \A j \in over : i <= j)

LeftRunning(run, lost) == Restrict(run, DOMAIN run \ lost)

\* What is left of the containers when those in gone have ended and nothing
\* more is reported of them.
Release(gone) ==
    /\ node' = [c \in Containers |-> IF c \in gone THEN None ELSE node[c]]
    /\ grant' = [c \in Containers |-> IF c \in gone THEN None ELSE grant[c]]
    /\ assigned' = [c \in Containers |-> IF c \in gone THEN None ELSE assigned[c]]

handleFailure(run, failed, gone) ==
    LET handled == UpToAbort(run, failed)
        lost == Range(handled)
        tasks == [i \in DOMAIN handled |-> run[handled[i]]]
        left == LeftRunning(run, lost)
    IN  /\ attemptCounter' = [t \in Tasks |-> attemptCounter[t] + InSeq(tasks, t)]
        /\ blackList' = blackList \cup {node[c] : c \in lost}
        /\ container' = [t \in Tasks |-> IF t \in Range(tasks) THEN None ELSE container[t]]
        /\ IF \E i \in DOMAIN tasks : Exhausted(tasks[i])
           THEN abortJob(left, tasks, lost, gone)
           ELSE /\ runningTasks' = left
                /\ stopped' = (stopped \cup StopFailed(lost)) \ gone
                /\ UNCHANGED <<startAbort, abortRequested>>
                /\ IF startAbort
                   THEN /\ killedTasks' = [t \in Tasks |-> killedTasks[t] + InSeq(tasks, t)]
                        /\ UNCHANGED <<pendingTasks, table, owed>>
                   ELSE submitTasks(tasks) /\ UNCHANGED killedTasks

-----------------------------------------------------------------------------
(* Callbacks of the resource manager. *)

FreeContainers == Containers \ (live \cup starting)

Batches(S) == {b \in SeqOf(S, BatchMax) : b /= <<>> /\ IsInjective(b)}

\* The containers of batch b that get a task: those not on a blacklisted host,
\* as many as there are pending tasks. All others run the dummy task.
Takers(b, hosts) ==
    IF startAbort THEN <<>>
    ELSE LET usable == SelectSeq(b, LAMBDA c : hosts[c] \notin blackList)
             n == Len(usable) IN
         SubSeq(usable, 1, IF n <= Len(pendingTasks) THEN n ELSE Len(pendingTasks))

\* The order in which the containers are launched: those that are left when no
\* task is pending come last.
LaunchOrder(b, hosts) ==
    LET InLoop(c) == c \in Range(Takers(b, hosts)) \/ hosts[c] \in blackList
    IN  IF startAbort THEN b
        ELSE SelectSeq(b, InLoop) \o SelectSeq(b, LAMBDA c : ~InLoop(c))

\* The k-th launch throws, if there are as many: a task that was polled for it is
\* in no list any more, and the containers after it are never started.
onContainersAllocated(b, hosts, roles, k) ==
    LET takers == Takers(b, hosts)
        order == LaunchOrder(b, hosts)
        launched == {order[i] : i \in {j \in DOMAIN order : j < k}}
        new == Range(takers) \cap launched
        polled == SelectSeq(takers, LAMBDA c : c \in new \/ (k <= Len(order) /\ c = order[k]))
        task == [c \in Range(polled) |-> pendingTasks[CHOOSE i \in DOMAIN polled : polled[i] = c]]
    IN  /\ runningTasks' = [c \in DOMAIN runningTasks \cup new |->
                               IF c \in new THEN task[c] ELSE runningTasks[c]]
        /\ pendingTasks' = SubSeq(pendingTasks, Len(polled) + 1, Len(pendingTasks))
        /\ container' = [t \in Tasks |->
               IF t \in Range(task) THEN CHOOSE c \in DOMAIN task : task[c] = t ELSE container[t]]
        /\ dropped' = dropped \cup {task[c] : c \in Range(polled) \ new}
        /\ launches' = [t \in Tasks |-> launches[t] + InRun(Restrict(task, new), t)]
        /\ assigned' = [c \in Containers |-> IF c \in new THEN task[c]
                                             ELSE assigned[c]]
        /\ owed' = [r \in Roles |-> owed[r] - Cardinality({c \in Range(b) : roles[c] = r})]
        /\ node' = [c \in Containers |-> IF c \in Range(b) THEN hosts[c] ELSE node[c]]
        /\ grant' = [c \in Containers |-> IF c \in Range(b) THEN roles[c] ELSE grant[c]]
        /\ live' = live \cup Range(b)
        /\ starting' = starting \cup launched
        /\ UNCHANGED <<phase, success, stopped, startAbort, blackList, finishedTasks, killedTasks,
                       attemptCounter, abortRequested, table, errors>>

Allocate ==
    /\ phase /= "ended"
    /\ \E b \in Batches(FreeContainers) : \E hosts \in [Range(b) -> Nodes] :
       \E roles \in [Range(b) -> Roles] :
       \E k \in IF LaunchFails THEN 1 .. Len(b) + 1 ELSE {Len(b) + 1} :
           /\ \A r \in Roles : Cardinality({c \in Range(b) : roles[c] = r}) <= owed[r]
           /\ onContainersAllocated(b, hosts, roles, k)

onContainersCompleted(b, exit) ==
    LET known == {i \in DOMAIN b : b[i] \in DOMAIN runningTasks}
        memory == {i \in known : exit[i] = "memory"}
        last == IF memory = {} THEN Len(b) + 1
                ELSE CHOOSE i \in memory : \A j \in memory : i <= j
        won == {b[i] : i \in {j \in known : j < last /\ exit[j] = "success"}}
        run == LeftRunning(runningTasks, won)
        gone == Range(b) \ starting
        failed == SelectSeq(b, LAMBDA c : \E i \in known : b[i] = c /\ exit[i] = "failure")
    IN  /\ finishedTasks' = [t \in Tasks |-> finishedTasks[t]
               + InRun(Restrict(runningTasks, won), t)]
        /\ IF memory = {} THEN handleFailure(run, failed, gone)
           ELSE /\ abortJob(run, <<>>, {}, gone)
                /\ UNCHANGED <<attemptCounter, blackList, container>>
        /\ live' = live \ Range(b)
        /\ Release(gone)
        /\ UNCHANGED <<phase, success, starting, errors, launches, dropped>>

\* The status of a container that has no task is not looked at.
Complete(S) ==
    /\ phase /= "ended"
    /\ \E b \in Batches(live) :
        /\ S \cap Range(b) /= {}
        /\ \E exit \in [DOMAIN b -> {"success", "failure", "memory"}] :
               /\ \A i \in DOMAIN b : b[i] \in DOMAIN runningTasks \/ exit[i] = "success"
               /\ onContainersCompleted(b, exit)

\* onError and onShutdownRequest. The heartbeat thread runs from the
\* registration on.
onError ==
    /\ phase /= "ended" /\ errors < MaxErrors
    /\ errors' = errors + 1
    /\ abortJob(runningTasks, <<>>, {}, {})
    /\ UNCHANGED <<phase, success, blackList, finishedTasks, attemptCounter, container,
                   node, grant, live, starting, assigned, launches, dropped>>

-----------------------------------------------------------------------------
(* Callbacks of the node manager. onGetContainerStatusError does what
   onStartContainerError does, but the master never asks for a status. *)

onContainerStarted(c) ==
    /\ phase /= "ended" /\ c \in starting
    /\ starting' = starting \ {c}
    /\ Release({c} \ live)
    /\ stopped' = stopped \ ({c} \ live)
    /\ UNCHANGED <<phase, success, master, table, owed, live, errors, launches, dropped>>

onStartContainerError(c) ==
    /\ phase /= "ended" /\ c \in starting
    /\ starting' = starting \ {c}
    /\ handleFailure(runningTasks, <<c>>, {c} \ live)
    /\ Release({c} \ live)
    /\ UNCHANGED <<phase, success, finishedTasks, live, errors, launches, dropped>>

-----------------------------------------------------------------------------
(* The main thread: run(). *)

Init ==
    /\ phase = "register" /\ success = FALSE
    /\ startAbort = FALSE /\ pendingTasks = <<>> /\ runningTasks = <<>>
    /\ blackList = {}
    /\ finishedTasks = [t \in Tasks |-> 0] /\ killedTasks = [t \in Tasks |-> 0]
    /\ attemptCounter = [t \in Tasks |-> 0]
    /\ container = [t \in Tasks |-> None]
    /\ abortRequested = [t \in Tasks |-> FALSE]
    /\ table = [r \in Roles |-> 0] /\ owed = [r \in Roles |-> 0]
    /\ node = [c \in Containers |-> None] /\ grant = [c \in Containers |-> None]
    /\ live = {} /\ starting = {} /\ stopped = {}
    /\ errors = 0
    /\ assigned = [c \in Containers |-> None]
    /\ launches = [t \in Tasks |-> 0] /\ dropped = {}

RunSubmit ==
    /\ phase = "register"
    /\ phase' = "polling"
    /\ submitTasks([i \in 1 .. numTasks |-> i])
    /\ UNCHANGED <<success, startAbort, runningTasks, blackList, finishedTasks, killedTasks,
                   attemptCounter, container, abortRequested, cluster, errors, launches, dropped>>

doneAllJobsFinished == Total(finishedTasks) = numTasks

doneAllJobs == Len(pendingTasks) = 0 /\ DOMAIN runningTasks = {}

RunLoopEnd ==
    /\ phase = "polling" /\ doneAllJobs
    /\ phase' = "report"
    /\ UNCHANGED <<success, master, table, owed, cluster, errors, launches, dropped>>

\* Reads the lists without the lock and unregisters.
RunReport ==
    /\ phase = "report"
    /\ phase' = "ended"
    /\ success' = (Total(finishedTasks) = numTasks)
    /\ UNCHANGED <<master, table, owed, cluster, errors, launches, dropped>>

\* Thread.sleep and once more; and the process that has unregistered.
RunPoll == ((phase = "polling" /\ ~doneAllJobs) \/ phase = "ended") /\ UNCHANGED vars

Next ==
    \/ RunSubmit \/ RunLoopEnd \/ RunReport \/ RunPoll
    \/ Allocate \/ Complete(Containers) \/ onError
    \/ \E c \in Containers : onContainerStarted(c) \/ onStartContainerError(c)

Spec == Init /\ [][Next]_vars

\* The master polls; the RM hands out what it owes and reports every container
\* that ended, the NM the outcome of every start.
LiveSpec ==
    /\ Spec
    /\ WF_vars(RunSubmit \/ RunLoopEnd \/ RunReport) /\ WF_vars(Allocate)
    /\ \A c \in Containers :
           WF_vars(Complete({c})) /\ WF_vars(onContainerStarted(c) \/ onStartContainerError(c))

-----------------------------------------------------------------------------
TypeOK ==
    /\ phase \in {"register", "polling", "report", "ended"}
    /\ success \in BOOLEAN /\ startAbort \in BOOLEAN
    /\ pendingTasks \in Seq(Tasks)
    /\ DOMAIN runningTasks \subseteq Containers /\ Range(runningTasks) \subseteq Tasks
    /\ blackList \subseteq Nodes
    /\ finishedTasks \in [Tasks -> Nat] /\ killedTasks \in [Tasks -> Nat]
    /\ attemptCounter \in [Tasks -> 0 .. maxNumAttempt]
    /\ container \in [Tasks -> Containers \cup {None}]
    /\ abortRequested \in [Tasks -> BOOLEAN]
    /\ table \in [Roles -> Nat] /\ owed \in [Roles -> Nat]
    /\ node \in [Containers -> Nodes \cup {None}] /\ grant \in [Containers -> Roles \cup {None}]
    /\ live \subseteq Containers /\ starting \subseteq Containers
    /\ stopped \subseteq Containers /\ errors \in 0 .. MaxErrors
    /\ assigned \in [Containers -> Tasks \cup {None}] /\ launches \in [Tasks -> Nat]
    /\ dropped \subseteq Tasks

\* The lists of the master partition the tasks: no callback, in whatever order
\* and batch, loses a task or has it in two lists or twice in one, but the one
\* whose launch throws. The assertion of run(), killed + finished = numTasks,
\* rests on it.
EachTaskOnce ==
    phase /= "register" =>
        \A t \in Tasks : InSeq(pendingTasks, t) + InRun(runningTasks, t)
                             + finishedTasks[t] + killedTasks[t]
                             = IF t \in dropped THEN 0 ELSE 1

\* The assertion of run() after the polling loop, which fails only over tasks
\* whose launch has thrown, and what the status it reports means: success
\* exactly when every task has finished.
RunAssertion ==
    phase = "ended" =>
        /\ Total(killedTasks) + Total(finishedTasks) = numTasks - Cardinality(dropped)
        /\ success <=> \A t \in Tasks : finishedTasks[t] = 1

\* abortJob and handleFailure dereference the container of a running task:
\* it is the one the task is listed under.
ContainerOfRunning ==
    \A c \in DOMAIN runningTasks : container[runningTasks[c]] = c

\* A task is never started more often than maxNumAttempt, whichever of its
\* failures come as a start error, as an exit status or as both.
AttemptsBounded == \A t \in Tasks : launches[t] <= maxNumAttempt

\* A task never has two containers at work at one time: the earlier one has
\* ended or was told to stop before the task is put in another.
OneContainerPerTask ==
    \A c, d \in live \ stopped :
        assigned[c] /= None /\ assigned[c] = assigned[d] => c = d

\* Every container at work for a task is known to the master, or was told to
\* stop: aborting the job leaves nothing behind.
NoOrphanContainer ==
    \A c \in live : assigned[c] /= None => c \in DOMAIN runningTasks \cup stopped

\* What every step keeps: no container of a host on which a task has failed gets
\* another task.
BlacklistRespected ==
    \A c \in DOMAIN runningTasks' \ DOMAIN runningTasks : node'[c] \notin blackList

\* Every task waiting in pendingTasks has a container on its way: the RM still
\* owes as many as there are pending tasks.
PendingIsRequested ==
    phase = "polling" /\ ~startAbort => Len(pendingTasks) <= Total(owed)

\* A task runs in a container of the memory and cores asked for its role.
RoleResources ==
    \A c \in DOMAIN runningTasks : grant[c] = taskRole(runningTasks[c])

\* An abort ends the job.
AbortEndsJob == startAbort ~> phase = "ended"
=============================================================================
