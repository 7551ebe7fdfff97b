---------------------------- MODULE RabitTracker ----------------------------
(* The rabit tracker (tracker.py): accept_slaves takes one connection after
   the other, hands out ranks and brokers the links between the workers
   (assign_rank). The workers are external: a worker connects, is given its
   rank, connects to the peers the tracker names, waits for the others to
   connect to it, may crash and be started again, and reports its end. *)
EXTENDS Integers, Sequences, FiniteSets, Functions

CONSTANTS Workers,
          Unnamed,      \* those that give the job id "NULL"
          nslave,       \* as given to accept_slaves or by the first world_size,
                        \* which the others repeat or leave open
          nnset,        \* rank -> the ranks it is linked with (get_link_map)
          host,         \* worker -> host, for the sort of pending
          MaxCrashes,   \* bound: crashes of workers
          MaxErrors,    \* bound: connections between live workers that fail
          MaxPrints,    \* bound: messages to be logged
          None

Ranks == 0 .. nslave - 1

VARIABLES
    tpc,            \* tracker: "accept", "good", "connect", "nerr", "finished",
                    \* "spin" (recvall of a closed socket), "raised"
    backlog,        \* connections not yet accepted
    started,        \* tree_map is not None
    shutdown, wait_conn, job_map, pending, todo_nodes,
    batch,          \* what is left of the loop over pending
    cur, rank, badset, conset, nerr,  \* the worker in assign_rank
    inc, wst,       \* worker: incarnation; "down", "tracker", "job", "done"
    rk, toaccept,   \* its rank, the connections it still waits for
    links,          \* pairs of linked workers
    crashes, errors, prints,
    uncounted       \* history: ranks connected to in a round that was repeated

bounds == <<crashes, errors, prints>>
accepting == <<started, shutdown, job_map, pending, todo_nodes>>
assigning == <<batch, cur, rank, badset, conset, nerr>>
workers == <<inc, wst, rk, toaccept, links>>
vars == <<tpc, backlog, accepting, wait_conn, assigning, workers, bounds, uncounted>>

-----------------------------------------------------------------------------
(* The topology handed to the workers (get_link_map): a binary tree, a ring laid
   over it, and the renumbering that makes the ring follow the ranks.  num is
   the number of workers.  The order in which Python visits a set of two children
   is arbitrary: swap holds the ranks whose larger child is visited first. *)
Nodes(num) == 0 .. num - 1

get_neighbor(r, num) ==
    {(r + 1) \div 2 - 1 : i \in IF r > 0 THEN {0} ELSE {}}
        \cup {k \in {2 * r + 1, 2 * r + 2} : k < num}

get_tree(num) ==
    [tree |-> [r \in Nodes(num) |-> get_neighbor(r, num)],
     parent |-> [r \in Nodes(num) |-> (r + 1) \div 2 - 1]]

reverse(vlst) == [i \in DOMAIN vlst |-> vlst[Len(vlst) + 1 - i]]

\* The list of the last child is turned round, so that it ends at the child.
JoinLists(r, lists) ==
    CASE Len(lists) = 0 -> <<r>>
      [] Len(lists) = 1 -> <<r>> \o reverse(lists[1])
      [] Len(lists) = 2 -> <<r>> \o lists[1] \o reverse(lists[2])

find_share_ring(t, swap) ==
    LET ring[r \in DOMAIN t.tree] ==
            LET cset == t.tree[r] \ {t.parent[r]}
                order == CHOOSE s \in [1 .. Cardinality(cset) -> cset] :
                            \A i, j \in DOMAIN s : i < j =>
                                IF r \in swap THEN s[i] > s[j] ELSE s[i] < s[j]
            IN  JoinLists(r, [i \in DOMAIN order |-> ring[order[i]]])
    IN  ring[0]

get_ring(t, swap) ==
    LET rlst == find_share_ring(t, swap)
        n == Len(rlst)
        At(i) == rlst[(i % n) + 1]
    IN  [r \in Range(rlst) |->
            LET i == CHOOSE j \in 0 .. n - 1 : At(j) = r IN <<At(i + n - 1), At(i + 1)>>]

\* Numbers the nodes against the ring.
RenumberMutant(ring, num) ==
    LET k[i \in Nodes(num)] == IF i = 0 THEN 0 ELSE ring[k[i - 1]][1]
    IN  [r \in Range(k) |-> CHOOSE i \in Nodes(num) : k[i] = r]

\* rmap: the new rank of a node is its distance from node 0 along the ring.
Renumber(ring, num) ==
    LET k[i \in Nodes(num)] == IF i = 0 THEN 0 ELSE ring[k[i - 1]][2]
    IN  [r \in Range(k) |-> CHOOSE i \in Nodes(num) : k[i] = r]

get_link_map(num, swap) ==
    LET t == get_tree(num)
        ring == get_ring(t, swap)
        rmap == Renumber(ring, num)
        old == [i \in Range(rmap) |-> CHOOSE r \in DOMAIN rmap : rmap[r] = i]
    IN  [tree |-> [i \in DOMAIN old |-> {rmap[x] : x \in t.tree[old[i]]}],
         parent |-> [i \in DOMAIN old |->
                        IF old[i] = 0 THEN -1 ELSE rmap[t.parent[old[i]]]],
         ring |-> [i \in DOMAIN old |-> <<rmap[ring[old[i]][1]], rmap[ring[old[i]][2]]>>]]

\* The set of ranks a worker has to be linked with (assign_rank: nnset).
Peers(m, r) == m.tree[r] \cup ({m.ring[r][1], m.ring[r][2]} \ {-1, r})

-----------------------------------------------------------------------------
Closed(s) == inc[s.w] /= s.inc

\* The worker behind an entry of wait_conn still listens on its port.
Listens(s) == ~Closed(s) /\ wst[s.w] = "job"

Linked(w) == {v \in Workers : {v, w} \in links}
RanksOf(W) == {rk[v] : v \in W}

\* SlaveEntry.decide_rank; the job id of a worker is its name, or "NULL".
decide_rank(s) ==
    IF s.rank >= 0 THEN s.rank
    ELSE IF s.w \notin Unnamed /\ s.w \in DOMAIN job_map THEN job_map[s.w] ELSE -1

\* job_map when worker w is given rank r.
Named(w, r) ==
    IF w \in Unnamed THEN job_map
    ELSE [v \in DOMAIN job_map \cup {w} |-> IF v = w THEN r ELSE job_map[v]]

\* pending.sort(key = host), which is stable.
ByHost(p) ==
    LET Before(i, j) == \/ host[p[i].w] < host[p[j].w]
                        \/ host[p[i].w] = host[p[j].w] /\ i < j
        Place(i) == Cardinality({j \in DOMAIN p : Before(j, i)}) + 1
    IN  [k \in DOMAIN p |-> p[CHOOSE i \in DOMAIN p : Place(i) = k]]

\* assign_rank up to the first recvint: the worker learns its rank. A worker
\* that has gone leaves the tracker in recvall or with an exception.
BeginAssign(s, r) ==
    /\ cur' = s /\ rank' = r
    /\ IF Closed(s)
       THEN tpc' \in {"spin", "raised"} /\ UNCHANGED rk
       ELSE tpc' = "good" /\ rk' = [rk EXCEPT ![s.w] = r]

\* The next of the loop over pending, or back to accept.
BeginBatchMutant(p) ==
    /\ batch' = Tail(p)
    /\ todo_nodes' = todo_nodes
    /\ job_map' = Named(p[1].w, todo_nodes[1])
    /\ BeginAssign(p[1], todo_nodes[1])

BeginBatch(p) ==
    /\ batch' = Tail(p)
    /\ todo_nodes' = Tail(todo_nodes)
    /\ job_map' = Named(p[1].w, todo_nodes[1])
    /\ BeginAssign(p[1], todo_nodes[1])

-----------------------------------------------------------------------------
(* accept_slaves: one round of the loop. *)

AcceptClosed(s) ==
    /\ tpc' \in {"spin", "raised"}
    /\ UNCHANGED <<accepting, assigning, rk>>

AcceptShutdown(s) ==
    /\ IF s.rank < 0 \/ s.rank \in shutdown \/ s.rank \in DOMAIN wait_conn
       THEN tpc' = "raised" /\ UNCHANGED shutdown
       ELSE tpc' = tpc /\ shutdown' = shutdown \cup {s.rank}
    /\ UNCHANGED <<started, job_map, pending, todo_nodes, assigning, rk>>

\* A worker that has a rank, or whose job id has, is given it at once; the others
\* when there are as many as ranks.
GiveRank(s) ==
    LET todo == IF started THEN todo_nodes ELSE [i \in 1 .. nslave |-> i - 1]
        r == decide_rank(s)
        p == Append(pending, s)
    IN  /\ started' = TRUE /\ UNCHANGED shutdown
        /\ CASE r /= -1 -> /\ BeginAssign(s, r)
                           /\ todo_nodes' = todo
                           /\ UNCHANGED <<job_map, pending, batch, badset, conset, nerr>>
             [] r = -1 /\ todo = <<>> ->
                           /\ tpc' = "raised"
                           /\ UNCHANGED <<todo_nodes, job_map, pending, assigning, rk>>
             [] r = -1 /\ todo /= <<>> /\ Len(p) /= Len(todo) ->
                           /\ pending' = p /\ todo_nodes' = todo /\ tpc' = tpc
                           /\ UNCHANGED <<job_map, assigning, rk>>
             [] r = -1 /\ todo /= <<>> /\ Len(p) = Len(todo) ->
                           /\ pending' = ByHost(p)
                           /\ tpc' = "good"
                           /\ batch' = pending' /\ todo_nodes' = todo
                           /\ cur' = None
                           /\ UNCHANGED <<job_map, rank, badset, conset, nerr, rk>>

\* The assertions on the command: the first one is "start", and makes the link
\* map, and one that recovers has a rank.
Misplaced(s) == s.cmd = "recover" /\ (~started \/ s.rank < 0)

\* "start" or "recover".
AcceptStart(s) ==
    IF Misplaced(s) THEN tpc' = "raised" /\ UNCHANGED <<accepting, assigning, rk>>
    ELSE GiveRank(s)

Accept ==
    /\ tpc = "accept" /\ Cardinality(shutdown) /= nslave /\ backlog /= <<>>
    /\ backlog' = Tail(backlog)
    /\ LET s == Head(backlog) IN
           CASE Closed(s) -> AcceptClosed(s)
             [] ~Closed(s) /\ s.cmd = "print" -> UNCHANGED <<tpc, accepting, assigning, rk>>
             [] ~Closed(s) /\ s.cmd = "shutdown" -> AcceptShutdown(s)
             [] ~Closed(s) /\ s.cmd \in {"start", "recover"} -> AcceptStart(s)
    /\ UNCHANGED <<wait_conn, inc, wst, toaccept, links, bounds, uncounted>>

\* for s in pending: the next rank of todo_nodes.
BatchNext ==
    /\ tpc = "good" /\ cur = None
    /\ BeginBatch(batch)
    /\ UNCHANGED <<backlog, started, shutdown, pending, wait_conn, badset, conset, nerr,
                   inc, wst, toaccept, links, bounds, uncounted>>

TrackerEnds ==
    /\ tpc = "accept" /\ Cardinality(shutdown) = nslave
    /\ tpc' = "finished"
    /\ UNCHANGED <<backlog, accepting, wait_conn, assigning, workers, bounds, uncounted>>

-----------------------------------------------------------------------------
(* assign_rank: one round of its loop, and what follows it. *)

ConnectTo(bad) == bad \cap DOMAIN wait_conn

\* The set of peers the worker still has a good link with, which is one of those
\* it was told of, and the answer.
Negotiate ==
    /\ tpc = "good" /\ cur /= None /\ ~Closed(cur)
    /\ LET goodset == RanksOf(Linked(cur.w)) IN
       IF goodset \subseteq nnset[rank]
       THEN /\ badset' = nnset[rank] \ goodset
            /\ conset' = ConnectTo(badset')
            /\ tpc' = "connect"
       ELSE tpc' = "raised" /\ UNCHANGED <<badset, conset>>
    /\ UNCHANGED <<backlog, accepting, wait_conn, batch, cur, rank, nerr, workers,
                   bounds, uncounted>>

\* The worker connects to the peers named, and tells how many attempts failed.
PeersConnect ==
    /\ tpc = "connect" /\ ~Closed(cur)
    /\ \E failing \in SUBSET conset :
           LET gone == {r \in conset : ~Listens(wait_conn[r])}
               peers == {wait_conn[r].w : r \in conset \ failing}
           IN  /\ gone \subseteq failing
               /\ errors + Cardinality(failing \ gone) <= MaxErrors
               /\ errors' = errors + Cardinality(failing \ gone)
               /\ links' = links \cup {{cur.w, v} : v \in peers}
               /\ nerr' = Cardinality(failing)
               /\ uncounted' = uncounted \cup (IF failing = {} THEN {} ELSE conset \ failing)
               /\ toaccept' = [v \in Workers |->
                      IF v \in peers THEN toaccept[v] - 1
                      ELSE IF v = cur.w THEN Cardinality(badset) - Cardinality(conset)
                      ELSE toaccept[v]]
               /\ wst' = IF failing = {} THEN [wst EXCEPT ![cur.w] = "job"] ELSE wst
    /\ tpc' = "nerr"
    /\ UNCHANGED <<backlog, accepting, wait_conn, batch, cur, rank, badset, conset, inc,
                   rk, crashes, prints>>

\* Forgets to count down the entries of the peers connected to.
CountDownMutant == wait_conn

CountDown ==
    LET n(r) == wait_conn[r].wait_accept - (IF r \in conset THEN 1 ELSE 0)
    IN  [r \in {x \in DOMAIN wait_conn : n(x) /= 0 \/ x \notin conset} |->
            [wait_conn[r] EXCEPT !.wait_accept = n(r)]]

\* nerr = 0: the port follows, the entries of the peers are counted down and
\* this one is added if others have yet to connect to it.
Assigned ==
    LET n == Cardinality(badset) - Cardinality(conset)
        left == CountDown
        entry == [w |-> cur.w, inc |-> cur.inc, wait_accept |-> n]
    IN  /\ wait_conn' = IF n > 0
                        THEN [r \in DOMAIN left \cup {rank} |->
                                 IF r = rank THEN entry ELSE left[r]]
                        ELSE left
        /\ cur' = None
        /\ tpc' = IF batch = <<>> THEN "accept" ELSE "good"

\* The count and the port are already in the socket when the worker is gone.
ReadErrors ==
    /\ tpc = "nerr"
    /\ \/ /\ nerr /= 0
          /\ tpc' = "good"
          /\ UNCHANGED <<wait_conn, cur, uncounted>>
       \/ /\ nerr = 0
          /\ Assigned
          /\ uncounted' = uncounted \ {rank}
    /\ UNCHANGED <<backlog, accepting, batch, rank, badset, conset, nerr, workers, bounds>>

\* The worker in hand is gone: recvall never returns, or recv raises.
WorkerGone ==
    /\ tpc \in {"good", "connect"} /\ cur /= None /\ Closed(cur)
    /\ tpc' \in {"spin", "raised"}
    /\ UNCHANGED <<backlog, accepting, wait_conn, assigning, workers, bounds, uncounted>>

\* recvall, for ever; the thread that has ended.
TrackerStays == tpc \in {"spin", "raised", "finished"} /\ UNCHANGED vars

-----------------------------------------------------------------------------
(* The workers. *)

Call(w, cmd, r) == backlog' = Append(backlog, [w |-> w, inc |-> inc[w], cmd |-> cmd, rank |-> r])

Start(w) ==
    /\ wst[w] = "down"
    /\ Call(w, "start", -1)
    /\ wst' = [wst EXCEPT ![w] = "tracker"]
    /\ UNCHANGED <<tpc, accepting, wait_conn, assigning, inc, rk, toaccept, links, bounds,
                   uncounted>>

\* A worker that has lost a link asks for it again under its rank.
Recover(w) ==
    /\ wst[w] = "job" /\ toaccept[w] = 0
    /\ nnset[rk[w]] /= RanksOf(Linked(w))
    /\ Call(w, "recover", rk[w])
    /\ wst' = [wst EXCEPT ![w] = "tracker"]
    /\ UNCHANGED <<tpc, accepting, wait_conn, assigning, inc, rk, toaccept, links, bounds,
                   uncounted>>

\* The job of the worker is done: it is linked with all its peers.
Shutdown(w) ==
    /\ wst[w] = "job" /\ toaccept[w] = 0
    /\ nnset[rk[w]] = RanksOf(Linked(w))
    /\ Call(w, "shutdown", rk[w])
    /\ wst' = [wst EXCEPT ![w] = "done"]
    /\ UNCHANGED <<tpc, accepting, wait_conn, assigning, inc, rk, toaccept, links, bounds,
                   uncounted>>

\* A message for the tracker to log.
LogMessage(w) ==
    /\ wst[w] = "job" /\ prints < MaxPrints
    /\ prints' = prints + 1
    /\ Call(w, "print", rk[w])
    /\ UNCHANGED <<tpc, accepting, wait_conn, assigning, workers, crashes, errors, uncounted>>

\* A crash while the job runs; none once a worker has reported its end, which
\* it does when all have reached it.
Crash(w) ==
    /\ crashes < MaxCrashes /\ wst[w] \in {"tracker", "job"}
    /\ \A v \in Workers : wst[v] /= "done"
    /\ crashes' = crashes + 1
    /\ inc' = [inc EXCEPT ![w] = @ + 1]
    /\ wst' = [wst EXCEPT ![w] = "down"]
    /\ rk' = [rk EXCEPT ![w] = -1]
    /\ toaccept' = [toaccept EXCEPT ![w] = 0]
    /\ links' = {l \in links : w \notin l}
    /\ UNCHANGED <<tpc, backlog, accepting, wait_conn, assigning, errors, prints, uncounted>>

-----------------------------------------------------------------------------
Init ==
    /\ tpc = "accept" /\ backlog = <<>> /\ started = FALSE
    /\ shutdown = {} /\ wait_conn = <<>> /\ job_map = <<>> /\ pending = <<>>
    /\ todo_nodes = <<>>
    /\ batch = <<>> /\ cur = None /\ rank = -1 /\ badset = {} /\ conset = {} /\ nerr = 0
    /\ inc = [w \in Workers |-> 0] /\ wst = [w \in Workers |-> "down"]
    /\ rk = [w \in Workers |-> -1] /\ toaccept = [w \in Workers |-> 0]
    /\ links = {} /\ crashes = 0 /\ errors = 0 /\ prints = 0 /\ uncounted = {}

Tracker ==
    Accept \/ BatchNext \/ TrackerEnds \/ Negotiate \/ PeersConnect \/ ReadErrors \/ WorkerGone

Worker(w) == Start(w) \/ Recover(w) \/ Shutdown(w)

Next ==
    \/ Tracker \/ TrackerStays
    \/ \E w \in Workers : Worker(w) \/ LogMessage(w) \/ Crash(w)

Spec == Init /\ [][Next]_vars

\* The tracker thread runs, and so does every worker: a crashed one is started
\* again. Crashes and failing connections need not happen.
LiveSpec == Spec /\ WF_vars(Tracker) /\ \A w \in Workers : WF_vars(Worker(w))

-----------------------------------------------------------------------------
TypeOK ==
    /\ tpc \in {"accept", "good", "connect", "nerr", "finished", "spin", "raised"}
    /\ started \in BOOLEAN /\ shutdown \subseteq Ranks
    /\ DOMAIN wait_conn \subseteq Ranks
    /\ \A r \in DOMAIN wait_conn : wait_conn[r].wait_accept \in 1 .. nslave
    /\ DOMAIN job_map \subseteq Workers /\ Range(job_map) \subseteq Ranks
    /\ rank \in Ranks \cup {-1} /\ badset \subseteq Ranks /\ conset \subseteq badset
    /\ nerr \in 0 .. nslave /\ inc \in [Workers -> 0 .. MaxCrashes]
    /\ wst \in [Workers -> {"down", "tracker", "job", "done"}]
    /\ rk \in [Workers -> Ranks \cup {-1}] /\ toaccept \in [Workers -> 0 .. nslave]
    /\ links \subseteq SUBSET Workers

\* No two workers ever have the same rank, crashed and restarted ones
\* included: pending may hold a worker twice, and job_map must bring a worker
\* back to the rank its peers know it by.
RanksUnique ==
    \A w, v \in Workers : w /= v /\ rk[w] >= 0 => rk[w] /= rk[v]

\* wait_conn and the workers agree: the entry of a live worker counts exactly
\* the connections that the worker waits for, unless one of them was made in a
\* round that assign_rank repeated.
AcceptsAgree ==
    tpc /= "nerr" => \A r \in DOMAIN wait_conn \ uncounted :
        Listens(wait_conn[r]) => wait_conn[r].wait_accept = toaccept[wait_conn[r].w]

\* No worker waits for a peer that will never connect to it: one of its peers
\* is still on its way to the tracker, or has yet to find its link lost.
NoStrandedAccept ==
    tpc \notin {"spin", "raised"} =>
        \A w \in Workers : wst[w] = "job" /\ toaccept[w] > 0 =>
            \E v \in Workers : /\ {v, w} \notin links
                               /\ \/ wst[v] \in {"down", "tracker"}
                                  \/ wst[v] = "job" /\ toaccept[v] = 0

\* Whoever has a link has it with a peer of the link map, under the rank it has
\* now, through all crashes and restarts: so the assertion of assign_rank on the
\* good links holds, and nobody keeps a link that it was not told to make.
LinksArePeers ==
    \A v, w \in Workers : {v, w} \in links => rk[v] \in Ranks /\ rk[w] \in nnset[rk[v]]

\* Without crashes the tracker raises nothing: the assertions of accept_slaves
\* and of assign_rank hold for workers that follow the protocol.
AssertionsHold == crashes = 0 /\ errors = 0 => tpc \notin {"spin", "raised"}

\* wait_conn is the "set of nodes that is waiting for connections".
WaitConnWaits ==
    \A r \in DOMAIN wait_conn :
        tpc /= "nerr" /\ Listens(wait_conn[r]) => toaccept[wait_conn[r].w] > 0

\* The job ends: all ranks assigned, all links made, all ends reported.
JobEnds == <>(tpc = "finished")
=============================================================================
