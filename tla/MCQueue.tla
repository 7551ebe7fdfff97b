------------------------------- MODULE MCQueue -------------------------------
(* Instances for TLC of what waits, and must not wait for ever: the search for a
   thread's producer and for an item in ConcurrentQueue (ImplicitProducerHash,
   ConsumerTokens), BlockingConcurrentQueue, and the threads of thread_group.h
   (ThreadGroup, BlockingQueueThread).  Each behaviour is about one of them, on. *)
EXTENDS Integers, FiniteSets

CONSTANTS Components

VARIABLES
    on,   \* the component that this behaviour is about
    tables, hashCount, resizing, inactive, live, got, hash_pc, hash_loc,
    list, producerCount, size, tokens_enqueued, globalOffset, token, tokens_pc, tokens_loc,
    items, blocking_enqueued, m_count, m_sema, posts, unsignalled, blocking_pc, call,
    signaled_, asleep, auto_remove_, group_shutdown_requested_, threads_, m_, group_tpc,
    group_pc, cur, working_set, refused, reported,
    queue_, permits, shutdown_in_progress_, worker_shutdown_requested_, worker_pc, next, early,
    worker_tpc, item, done

HashVars == <<tables, hashCount, resizing, inactive, live, got, hash_pc, hash_loc>>
WalkVars == <<list, producerCount, size, tokens_enqueued, globalOffset, token, tokens_pc,
    tokens_loc>>
BlockingVars == <<items, blocking_enqueued, m_count, m_sema, posts, unsignalled, blocking_pc,
    call>>
GroupVars == <<signaled_, asleep, auto_remove_, group_shutdown_requested_, threads_, m_,
    group_tpc, group_pc, cur, working_set, refused, reported>>
WorkerVars == <<queue_, permits, shutdown_in_progress_, worker_shutdown_requested_, worker_pc,
    next, early, worker_tpc, item, done>>
vars == <<on, HashVars, WalkVars, BlockingVars, GroupVars, WorkerVars>>

Hash == INSTANCE ImplicitProducerHash WITH Threads <- {0, 2, 4},
    INITIAL_IMPLICIT_PRODUCER_HASH_SIZE <- 2, THREAD_LOCAL_SUPPORTED <- FALSE, MaxTables <- 3,
    MaxProducers <- 2, MaxLive <- 3, pc <- hash_pc, loc <- hash_loc
Exiting == INSTANCE ImplicitProducerHash WITH Threads <- {0, 4, 1},
    INITIAL_IMPLICIT_PRODUCER_HASH_SIZE <- 4, THREAD_LOCAL_SUPPORTED <- TRUE, MaxTables <- 2,
    MaxProducers <- 3, MaxLive <- 2, pc <- hash_pc, loc <- hash_loc
Walk == INSTANCE ConsumerTokens WITH Consumers <- {0, 1}, QUOTA <- 2, OffsetRange <- 2,
    MaxProducers <- 2, MaxItems <- 1, MaxBulk <- 1, enqueued <- tokens_enqueued,
    pc <- tokens_pc, loc <- tokens_loc
Blocking == INSTANCE BlockingConcurrentQueue WITH Producers <- {"p1", "p2"}, Consumers <- {"c1",
    "c2"}, MaxItems <- 3, MaxBulk <- 2, enqueued <- blocking_enqueued, pc <- blocking_pc
Waking == INSTANCE BlockingConcurrentQueue WITH Producers <- {"p1"}, Consumers <- {"c1", "c2"},
    MaxItems <- 3, MaxBulk <- 2, enqueued <- blocking_enqueued, pc <- blocking_pc
Group == INSTANCE ThreadGroup WITH Threads <- {1, 2}, DuplicateNames <- FALSE,
    SpuriousWakeups <- FALSE, shutdown_requested_ <- group_shutdown_requested_,
    tpc <- group_tpc, pc <- group_pc
Wakeups == INSTANCE ThreadGroup WITH Threads <- {1, 2}, DuplicateNames <- TRUE,
    SpuriousWakeups <- TRUE, shutdown_requested_ <- group_shutdown_requested_, tpc <- group_tpc,
    pc <- group_pc
Worker == INSTANCE BlockingQueueThread WITH Callers <- {1, 2}, Closers <- {1, 2}, MaxItems <- 3,
    MayStop <- FALSE, shutdown_requested_ <- worker_shutdown_requested_, pc <- worker_pc,
    tpc <- worker_tpc

Init ==
    /\ on \in Components
    /\ CASE on = "hash" -> Hash!Init
         [] on = "hash_exit" -> Exiting!Init
         [] OTHER -> tables = 0 /\ hashCount = 0 /\ resizing = 0 /\ inactive = 0 /\ live = 0
             /\ got = 0 /\ hash_pc = 0 /\ hash_loc = 0
    /\ IF on = "tokens_live" THEN Walk!Init ELSE list = 0 /\ producerCount = 0 /\ size = 0
          /\ tokens_enqueued = 0 /\ globalOffset = 0 /\ token = 0 /\ tokens_pc = 0
          /\ tokens_loc = 0
    /\ CASE on = "blocking" -> Blocking!Init
         [] on = "blocking_live" -> Waking!Init
         [] OTHER -> items = 0 /\ blocking_enqueued = 0 /\ m_count = 0 /\ m_sema = 0
             /\ posts = 0 /\ unsignalled = 0 /\ blocking_pc = 0 /\ call = 0
    /\ CASE on = "group" -> Group!Init
         [] on = "wakeups" -> Wakeups!Init
         [] OTHER -> signaled_ = 0 /\ asleep = 0 /\ auto_remove_ = 0
             /\ group_shutdown_requested_ = 0 /\ threads_ = 0 /\ m_ = 0
             /\ group_tpc = 0 /\ group_pc = 0 /\ cur = 0 /\ working_set = 0
             /\ refused = 0 /\ reported = 0
    /\ IF on = "worker" THEN Worker!Init ELSE queue_ = 0 /\ permits = 0
          /\ shutdown_in_progress_ = 0 /\ worker_shutdown_requested_ = 0
          /\ worker_pc = 0 /\ next = 0 /\ early = 0 /\ worker_tpc = 0 /\ item = 0
          /\ done = 0

Next ==
    /\ UNCHANGED on
    /\ CASE on = "hash" -> Hash!Next
         [] on = "hash_exit" -> Exiting!Next
         [] OTHER -> UNCHANGED HashVars
    /\ IF on = "tokens_live" THEN Walk!Next ELSE UNCHANGED WalkVars
    /\ CASE on = "blocking" -> Blocking!Next
         [] on = "blocking_live" -> Waking!Next
         [] OTHER -> UNCHANGED BlockingVars
    /\ CASE on = "group" -> Group!Next
         [] on = "wakeups" -> Wakeups!Next
         [] OTHER -> UNCHANGED GroupVars
    /\ IF on = "worker" THEN Worker!Next ELSE UNCHANGED WorkerVars

\* Whoever is in the middle of a call goes on: a caller of the queue, the owner
\* of a group, a thread that was started.  The inner dequeue of a consumer with
\* a permit succeeds in the end.
Fairness ==
    /\ \A t \in {0, 2, 4} : WF_HashVars(on = "hash" /\ Hash!get_or_add_implicit_producer(t))
    /\ \A c \in {0, 1} :
           WF_WalkVars(/\ on = "tokens_live" /\ tokens_pc[c] /= "idle"
                       /\ Walk!try_dequeue(c) \/ Walk!try_dequeue_plain(c) \/ Walk!Return(c))
    /\ WF_BlockingVars(on = "blocking_live" /\ (Waking!Signal("p1") \/ Waking!Post("p1")))
    /\ \A c \in {"c1", "c2"} :
           /\ WF_BlockingVars(on = "blocking_live" /\ Waking!Waiting(c))
           /\ WF_BlockingVars(on = "blocking_live" /\ \E n \in 1 .. 2 : Waking!Take(c, n))
    /\ WF_GroupVars(on = "group" /\ Group!OwnerStep)
    /\ WF_WorkerVars(on = "worker" /\ Worker!run)
    /\ \A t \in {1, 2} :
           /\ WF_GroupVars(on = "group" /\ Group!ThreadStep(t))
           /\ WF_WorkerVars(on = "worker" /\ Worker!InCall(t))

Spec == Init /\ [][Next]_vars /\ Fairness

-----------------------------------------------------------------------------
\* No two threads that run have the same producer, which only one may use; the
\* search in a table ends at a free slot; and a thread keeps its producer, so
\* that its items stay in order, however the tables grew.
OwnProducer ==
    /\ [](/\ on = "hash" => Hash!TypeOK /\ Hash!NotShared /\ Hash!SlotIsFree
          /\ on = "hash_exit" => Exiting!TypeOK /\ Exiting!NotShared /\ Exiting!SlotIsFree)
    /\ [][/\ on = "hash" => Hash!SameProducer
          /\ on = "hash_exit" => Exiting!SameProducer]_HashVars

\* A consumer with permits finds as many items; the posts of the kernel
\* semaphore are those that its sleepers are owed; and with nobody in a call the
\* count is the number of items, whichever timeouts raced with signals.
PermitsAreItems ==
    /\ on = "blocking" => /\ Blocking!TypeOK /\ Blocking!PermitsAreItems
                         /\ Blocking!PostsMatch /\ Blocking!CountIsItems
    /\ on = "blocking_live" => /\ Waking!TypeOK /\ Waking!PermitsAreItems
                              /\ Waking!PostsMatch /\ Waking!CountIsItems

\* evEmpty_ tells the truth whenever the group's mutex is free, join_all leaves
\* nobody behind, or only auto-remove threads when its wait may end by itself, and
\* the destructor nobody; a thread that still has to call remove_thread has its
\* group.  A queue thread that quits has passed over only few of the items
\* enqueued before the shutdown; that it passes over none, as the comment at
\* thread_group.h:550 intends, does not hold (BlockingQueueThread!EarlyItemsDone).
GroupOutlives ==
    /\ on = "group" => /\ Group!TypeOK /\ Group!EmptyIsSignaled
                      /\ Group!JoinsAll /\ Group!GroupOutlives
    /\ on = "wakeups" => /\ Wakeups!TypeOK /\ Wakeups!EmptyIsSignaled
                        /\ Wakeups!JoinsJoinable
    /\ on = "worker" => Worker!TypeOK /\ Worker!AllButFewDone

\* A consumer does not sleep on while there are items.
ItemsWake ==
    \A c \in {"c1", "c2"} :
        (on = "blocking_live" /\ blocking_pc[c] = "sleep" /\ items > 0)
            ~> (on = "blocking_live" => blocking_pc[c] /= "sleep" \/ items = 0)

\* Whether the i-th party of a component is in the middle of a call.
Busy(i) ==
    CASE on = "hash" -> hash_pc[2 * i - 2] /= "idle"
      [] on = "tokens_live" -> i < 3 /\ tokens_pc[i - 1] /= "idle"
      [] on = "blocking_live" -> i < 3 /\ blocking_pc[<<"c1", "c2">>[i]] \in {"adjust", "signalled"}
      [] on = "group" -> IF i < 3 THEN group_tpc[i] \notin {"none", "exited"}
                         ELSE group_pc \notin {"idle", "thrown", "gone", "aborted"}
      [] on = "worker" -> i < 3 /\ \/ worker_pc[i] \in {"drain", "quit", "signalQuit"}
                                   \/ worker_pc[i] = "closed" /\ worker_tpc \notin {"quit", "stopped"}
      [] OTHER -> FALSE

\* Calls return: that of a thread that waits for another one to replace a table,
\* the walk of a consumer round the list, that of a consumer that timed out,
\* launch, join_all and the destructor of a group, request_shutdown of a queue
\* thread; and the threads of a group exit.
CallsReturn == \A i \in 1 .. 3 : Busy(i) ~> ~Busy(i)
=============================================================================
