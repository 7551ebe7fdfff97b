------------------------- MODULE BlockingQueueThread -------------------------
(* thread_group.h: a thread that processes the items of a BlockingConcurrentQueue
   and its shutdown. Each caller's items are a queue of their own, among which
   the thread's dequeue chooses; the permits are the semaphore's count, which is
   what size_approx reports. *)
EXTENDS Naturals, Sequences, FiniteSets

CONSTANTS Callers, Closers,   \* those who call request_shutdown, of Callers
          MaxItems,           \* of each caller
          MayStop             \* whether on_item_function may ask for an exit

quit_item == 0

VARIABLES
    queue_, permits,
    shutdown_in_progress_, shutdown_requested_,
    pc, next,                 \* of each caller; its next item
    early,                    \* enqueued when no shutdown had begun
    tpc, item, done           \* of the thread; what it has processed

vars == <<queue_, permits, shutdown_in_progress_, shutdown_requested_, pc, next, early, tpc, item, done>>
flags == <<shutdown_in_progress_, shutdown_requested_>>
thread == <<tpc, item, done>>

Goto(c, from, to) == pc[c] = from /\ pc' = [pc EXCEPT ![c] = to]

\* The flag is tested, then the item goes into the queue, then the permit is given.
enqueue(c) ==
    /\ next[c] <= MaxItems /\ Goto(c, "idle", IF shutdown_in_progress_ THEN "idle" ELSE "put")
    /\ next' = [next EXCEPT ![c] = @ + 1]
    /\ UNCHANGED <<queue_, permits, flags, early, thread>>

Put(c) ==
    /\ \/ Goto(c, "put", "signal") /\ queue_' = [queue_ EXCEPT ![c] = Append(@, next[c] - 1)]
       \/ Goto(c, "quit", "signalQuit") /\ queue_' = [queue_ EXCEPT ![c] = Append(@, quit_item)]
    /\ UNCHANGED <<permits, flags, next, early, thread>>

Signal(c) ==
    /\ \/ /\ Goto(c, "signal", "idle")
          /\ early' = IF shutdown_in_progress_ THEN early ELSE early \cup {<<c, next[c] - 1>>}
       \/ Goto(c, "signalQuit", "closed") /\ UNCHANGED early
    /\ permits' = permits + 1
    /\ UNCHANGED <<queue_, flags, next, thread>>

request_shutdown(c) ==
    /\ c \in Closers /\ Goto(c, "idle", "drain")
    /\ shutdown_in_progress_' = TRUE
    /\ UNCHANGED <<queue_, permits, shutdown_requested_, next, early, thread>>

\* Does not wait.
DrainedMutant == TRUE
\* The loop's condition.
Drained == permits = 0 \/ shutdown_requested_

Drain(c) ==
    /\ Drained /\ Goto(c, "drain", "quit")
    /\ shutdown_requested_' = TRUE
    /\ UNCHANGED <<queue_, permits, shutdown_in_progress_, next, early, thread>>

\* run: the permit, then an item of any caller's queue, then on_item_function.
wait_dequeue ==
    /\ tpc = "wait" /\ permits > 0
    /\ permits' = permits - 1 /\ tpc' = "take"
    /\ UNCHANGED <<queue_, flags, pc, next, early, item, done>>

TakeFrom(c) ==
    /\ tpc = "take" /\ queue_[c] /= <<>>
    /\ queue_' = [queue_ EXCEPT ![c] = Tail(@)]
    /\ item' = <<c, Head(queue_[c])>>
    /\ tpc' = IF Head(queue_[c]) = quit_item THEN "quit" ELSE "on_item"
    /\ UNCHANGED <<permits, flags, pc, next, early, done>>

on_item_function ==
    /\ tpc = "on_item"
    /\ done' = done \cup {item}
    /\ tpc' \in {"wait"} \cup (IF MayStop THEN {"stopped"} ELSE {})
    /\ UNCHANGED <<queue_, permits, flags, pc, next, early, item>>

Init ==
    /\ queue_ = [c \in Callers |-> <<>>] /\ permits = 0
    /\ shutdown_in_progress_ = FALSE /\ shutdown_requested_ = FALSE
    /\ pc = [c \in Callers |-> "idle"] /\ next = [c \in Callers |-> 1] /\ early = {}
    /\ tpc = "wait" /\ item = <<>> /\ done = {}

InCall(c) == Put(c) \/ Signal(c) \/ Drain(c)
run == wait_dequeue \/ (\E c \in Callers : TakeFrom(c)) \/ on_item_function

Next == (\E c \in Callers : enqueue(c) \/ request_shutdown(c) \/ InCall(c)) \/ run

\* The thread runs and the callers finish what they began.
Spec == Init /\ [][Next]_vars /\ WF_vars(run) /\ \A c \in Callers : WF_vars(InCall(c))

-----------------------------------------------------------------------------
TypeOK ==
    /\ permits \in Nat /\ tpc \in {"wait", "take", "on_item", "quit", "stopped"}
    /\ tpc = "take" => \E c \in Callers : queue_[c] /= <<>>

\* An item enqueued before the shutdown began is processed before the thread
\* quits: request_shutdown waits for the queue to empty because the "consumer
\* doesn't necessarily get items in order".
EarlyItemsDone == tpc = "quit" => early \subseteq done

\* What the wait does achieve: of the items enqueued before the shutdown, as many
\* are passed over for a quit_item as there are callers at most, one for the permit
\* the thread already had and one for each item on its way past the flag.
AllButFewDone == tpc = "quit" => Cardinality(early \ done) <= Cardinality(Callers)

\* request_shutdown returns, and the thread quits.
ShutdownReturns ==
    \A c \in Callers : pc[c] = "drain" ~> pc[c] = "closed" /\ tpc \in {"quit", "stopped"}
=============================================================================
