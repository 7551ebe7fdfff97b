------------------------------ MODULE MCTracker ------------------------------
(* Instances of the tracker of rabit (RabitTracker, its workers linked as
   get_link_map says), of the topology itself and of the YARN application master
   (YarnAppMaster) for TLC.  Each behaviour is about one of them, on. *)
EXTENDS Integers, FiniteSets

CONSTANTS Components, MaxSlaves, None

VARIABLES
    on,   \* the component that this behaviour is about
    tpc, backlog, started, shutdown, wait_conn, job_map, pending, todo_nodes, batch, cur, rank,
    badset, conset, nerr, inc, wst, rk, toaccept, links, crashes, rabit_errors, prints,
    uncounted,
    phase, success, startAbort, pendingTasks, runningTasks, blackList, finishedTasks,
    killedTasks, attemptCounter, container, abortRequested, table, owed, node, grant, live,
    starting, stopped, yarn_errors, assigned, launches, dropped,
    slaves, swap, map   \* an input of get_link_map with its result

RabitVars == <<tpc, backlog, started, shutdown, wait_conn, job_map, pending, todo_nodes, batch,
    cur, rank, badset, conset, nerr, inc, wst, rk, toaccept, links, crashes, rabit_errors,
    prints, uncounted>>
YarnVars == <<phase, success, startAbort, pendingTasks, runningTasks, blackList, finishedTasks,
    killedTasks, attemptCounter, container, abortRequested, table, owed, node, grant, live,
    starting, stopped, yarn_errors, assigned, launches, dropped>>
LinkVars == <<slaves, swap, map>>
vars == <<on, RabitVars, YarnVars, LinkVars>>

\* Three workers and four, linked as get_link_map says; the hosts are not in the
\* order of the workers.
Links3 == [r \in 0 .. 2 |-> (0 .. 2) \ {r}]
Links4 == [r \in 0 .. 3 |-> (0 .. 3) \ {r, (r + 2) % 4}]
Workers3 == {"w1", "w2", "w3"}
Workers4 == {"w1", "w2", "w3", "w4"}
Hosts3 == [w1 |-> 2, w2 |-> 2, w3 |-> 1]
Hosts4 == [w1 |-> 2, w2 |-> 2, w3 |-> 1, w4 |-> 1]

Rabit == INSTANCE RabitTracker WITH Workers <- Workers3, nslave <- 3, nnset <- Links3, Unnamed <- {"w3"},
    host <- Hosts3, MaxCrashes <- 2, MaxErrors <- 0, MaxPrints <- 1, errors <- rabit_errors
Calm == INSTANCE RabitTracker WITH Workers <- Workers4, nslave <- 4, nnset <- Links4, Unnamed <- {"w1"},
    host <- Hosts4, MaxCrashes <- 0, MaxErrors <- 0, MaxPrints <- 0, errors <- rabit_errors
Yarn == INSTANCE YarnAppMaster WITH numWorker <- 1, numServer <- 1, maxNumAttempt <- 2,
    Nodes <- {"n1", "n2"}, Containers <- {"c1", "c2"}, BatchMax <- 2, MaxErrors <- 0, LaunchFails <- FALSE,
    errors <- yarn_errors
Small == INSTANCE YarnAppMaster WITH numWorker <- 1, numServer <- 1, maxNumAttempt <- 2,
    Nodes <- {"n1"}, Containers <- {"c1", "c2"}, BatchMax <- 2, MaxErrors <- 1, LaunchFails <- TRUE,
    errors <- yarn_errors

ASSUME LinksAssumption ==
    /\ \A r \in 0 .. 2 : Links3[r] = Rabit!Peers(Rabit!get_link_map(3, {}), r)
    /\ \A r \in 0 .. 3 : Links4[r] = Rabit!Peers(Rabit!get_link_map(4, {}), r)

Init ==
    /\ on \in Components
    /\ CASE on = "rabit" -> Rabit!Init
         [] on = "rabit_live" -> Calm!Init
         [] OTHER -> tpc = 0 /\ backlog = 0 /\ started = 0 /\ shutdown = 0 /\ wait_conn = 0
             /\ job_map = 0 /\ pending = 0 /\ todo_nodes = 0 /\ batch = 0 /\ cur = 0
             /\ rank = 0 /\ badset = 0 /\ conset = 0 /\ nerr = 0 /\ inc = 0
             /\ wst = 0 /\ rk = 0 /\ toaccept = 0 /\ links = 0 /\ crashes = 0
             /\ rabit_errors = 0 /\ prints = 0 /\ uncounted = 0
    /\ CASE on = "yarn" -> Yarn!Init
         [] on = "yarn_live" -> Small!Init
         [] OTHER -> phase = 0 /\ success = 0 /\ startAbort = 0 /\ pendingTasks = 0
             /\ runningTasks = 0 /\ blackList = 0 /\ finishedTasks = 0
             /\ killedTasks = 0 /\ attemptCounter = 0 /\ container = 0
             /\ abortRequested = 0 /\ table = 0 /\ owed = 0 /\ node = 0 /\ grant = 0
             /\ live = 0 /\ starting = 0 /\ stopped = 0 /\ yarn_errors = 0
             /\ assigned = 0 /\ launches = 0 /\ dropped = 0
    /\ IF on = "link_map"
       THEN slaves \in 1 .. MaxSlaves /\ swap \in SUBSET {r \in Rabit!Nodes(slaves) : 2 * r + 2 < slaves} /\ map = <<>>
       ELSE slaves = 0 /\ swap = 0 /\ map = 0

Next ==
    /\ UNCHANGED on
    /\ CASE on = "rabit" -> Rabit!Next
         [] on = "rabit_live" -> Calm!Next
         [] OTHER -> UNCHANGED RabitVars
    /\ CASE on = "yarn" -> Yarn!Next
         [] on = "yarn_live" -> Small!Next
         [] OTHER -> UNCHANGED YarnVars
    /\ IF on = "link_map" THEN map = <<>> /\ map' = Rabit!get_link_map(slaves, swap) /\ UNCHANGED <<slaves, swap>>
       ELSE UNCHANGED LinkVars

\* The tracker thread runs, and so does every worker.  The master polls; the RM
\* hands out what it owes and reports every container that ended, the NM the
\* outcome of every start.
Fairness ==
    /\ WF_RabitVars(on = "rabit_live" /\ Calm!Tracker)
    /\ \A w \in Workers4 : WF_RabitVars(on = "rabit_live" /\ Calm!Worker(w))
    /\ WF_YarnVars(on = "yarn_live" /\ (Small!RunSubmit \/ Small!RunLoopEnd \/ Small!RunReport))
    /\ WF_YarnVars(on = "yarn_live" /\ Small!Allocate)
    /\ \A c \in {"c1", "c2"} :
           /\ WF_YarnVars(on = "yarn_live" /\ Small!Complete({c}))
           /\ WF_YarnVars(on = "yarn_live" /\ (Small!onContainerStarted(c) \/ Small!onStartContainerError(c)))

Spec == Init /\ [][Next]_vars /\ Fairness

-----------------------------------------------------------------------------
\* The tracker: no two workers ever have the same rank, crashed and restarted
\* ones included; every link is one that get_link_map asks for; wait_conn counts
\* exactly the connections that its workers wait for; no worker waits for a peer
\* that will never connect to it; and without crashes no assertion fails.
RanksAndLinks ==
    /\ on = "rabit" => Rabit!TypeOK /\ Rabit!RanksUnique /\ Rabit!AcceptsAgree
           /\ Rabit!NoStrandedAccept /\ Rabit!LinksArePeers
    /\ on = "rabit_live" => Calm!TypeOK /\ Calm!RanksUnique /\ Calm!LinksArePeers
           /\ Calm!AssertionsHold

\* The nodes within d links of the nodes in S.
Within(S, d) ==
    LET near[k \in 0 .. d] ==
            IF k = 0 THEN S ELSE near[k - 1] \cup UNION {map.tree[x] : x \in near[k - 1]}
    IN  near[d]

\* get_link_map: the links of the tree go both ways, lead from everyone to the
\* one root and are no more than that needs; the ring is the ranks in order, its
\* neighbours at most four tree links apart; and a link that one end is told of
\* is told to the other (assign_rank counts on it), whatever the order of the
\* children in Python's sets.
TreeAndRing ==
    (on = "link_map" /\ map /= <<>>) =>
        /\ DOMAIN map.tree = Rabit!Nodes(slaves) /\ Within({0}, slaves) = Rabit!Nodes(slaves)
        /\ \A r \in Rabit!Nodes(slaves) :
              /\ \A x \in map.tree[r] : r \in map.tree[x]
              /\ map.parent[r] = -1 <=> r = 0
              /\ r > 0 => map.parent[r] \in map.tree[r]
              /\ map.ring[r] = <<(r + slaves - 1) % slaves, (r + 1) % slaves>>
              /\ map.ring[r][2] \in Within({r}, 4)
              /\ \A x \in Rabit!Nodes(slaves) : x \in Rabit!Peers(map, r) <=> r \in Rabit!Peers(map, x)
        /\ Cardinality({p \in Rabit!Nodes(slaves) \X Rabit!Nodes(slaves) : p[2] \in map.tree[p[1]]}) = 2 * (slaves - 1)

\* The application master: no order or batch of callbacks loses a task or has it
\* in two lists, the assertion of run() among that; no task is started more
\* often than maxNumAttempt, has two containers at work, runs in one that
\* aborting the job would leave behind, or is put on a blacklisted host.
TasksAccounted ==
    /\ [](on = "yarn" =>
             /\ Yarn!TypeOK /\ Yarn!EachTaskOnce /\ Yarn!RunAssertion /\ Yarn!ContainerOfRunning
             /\ Yarn!AttemptsBounded /\ Yarn!OneContainerPerTask /\ Yarn!NoOrphanContainer)
    /\ [](on = "yarn_live" =>
             /\ Small!TypeOK /\ Small!EachTaskOnce /\ Small!RunAssertion /\ Small!ContainerOfRunning
             /\ Small!AttemptsBounded /\ Small!OneContainerPerTask /\ Small!NoOrphanContainer)
    /\ [][(on = "yarn" \/ on = "yarn_live") => Yarn!BlacklistRespected]_YarnVars

\* The job of the tracker ends: all ranks assigned, all links made, all ends
\* reported; so does that of the master once every task has been given a
\* container, and also when it is aborted then.
JobEnds ==
    /\ on = "rabit_live" ~> (on = "rabit_live" /\ tpc = "finished")
    /\ <>[](on = "yarn_live" /\ pendingTasks = <<>> /\ phase /= "register")
           => <>(on = "yarn_live" /\ phase = "ended")
    /\ (on = "yarn_live" /\ startAbort /\ phase = "polling" /\ pendingTasks = <<>>)
           ~> (on = "yarn_live" /\ phase = "ended")
=============================================================================
