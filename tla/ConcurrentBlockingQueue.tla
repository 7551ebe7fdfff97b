----------------------- MODULE ConcurrentBlockingQueue -----------------------
(***************************************************************************)
(* dmlc::ConcurrentBlockingQueue (include/dmlc/concurrency.h): a FIFO or   *)
(* priority queue that any number of threads push to and pop from.         *)
(*                                                                         *)
(* A region under mutex_ is one action up to its wait; notify_one and      *)
(* notify_all come after the unlock and are steps of their own.  waiting   *)
(* is the set of threads asleep on cv_; a thread in Pop that is not in it  *)
(* re-tests the predicate.                                                 *)
(***************************************************************************)
EXTENDS Integers, Sequences, FiniteSets, Functions

CONSTANTS Threads,
          Items,        \* the elements pushed, each at most once
          Priority,     \* [Items -> Int], the argument of Push
          type          \* "kFIFO" or "kPriority"

ASSUME ConstantsAssumption ==
    /\ IsFiniteSet(Threads) /\ IsFiniteSet(Items)
    /\ Priority \in [Items -> Int]
    /\ type \in {"kFIFO", "kPriority"}

VARIABLES
    exit_now_, nwait_consumer_,
    fifo_queue_,        \* used if type = "kFIFO"
    priority_queue_,    \* used if type = "kPriority": a heap, here a set
    pc,                 \* where each thread is
    waiting,            \* threads asleep on cv_
    pushed,             \* items pushed so far
    pushedBack,         \* those pushed by Push, in order
    popped              \* items popped so far, in order

queueVars == <<fifo_queue_, priority_queue_>>
history   == <<pushed, pushedBack, popped>>
vars == <<exit_now_, nwait_consumer_, queueVars, pc, waiting, history>>

Queued == IF type = "kFIFO" THEN Range(fifo_queue_) ELSE priority_queue_
Size == IF type = "kFIFO" THEN Len(fifo_queue_) ELSE Cardinality(priority_queue_)
NonEmpty == IF type = "kFIFO" THEN fifo_queue_ /= <<>> ELSE priority_queue_ /= {}

Pcs == {"idle", "wait", "notify", "kill"}
Goto(t, l) == pc' = [pc EXCEPT ![t] = l]

\* bool notify = nwait_consumer_ != 0, acted upon after the unlock.
NotifyOrReturnMutant(t) == Goto(t, IF nwait_consumer_ > 1 THEN "notify" ELSE "idle")
NotifyOrReturn(t) == Goto(t, IF nwait_consumer_ /= 0 THEN "notify" ELSE "idle")

\* Both branches of Push and of PushFront, which differ only for a FIFO.
Insert(t, e, fifo) ==
    /\ pc[t] = "idle" /\ e \notin pushed
    /\ IF type = "kFIFO"
       THEN fifo_queue_' = fifo /\ UNCHANGED priority_queue_
       ELSE priority_queue_' = priority_queue_ \cup {e} /\ UNCHANGED fifo_queue_
    /\ pushed' = pushed \cup {e}
    /\ NotifyOrReturn(t)
    /\ UNCHANGED <<exit_now_, nwait_consumer_, waiting, popped>>

PushMutant(t, e) ==
    Insert(t, e, <<e>> \o fifo_queue_) /\ pushedBack' = Append(pushedBack, e)
Push(t, e) ==
    Insert(t, e, Append(fifo_queue_, e)) /\ pushedBack' = Append(pushedBack, e)

PushFront(t, e) ==
    Insert(t, e, <<e>> \o fifo_queue_) /\ UNCHANGED pushedBack

\* cv_.notify_one() wakes one sleeper, if there is one.
NotifyOne(t) ==
    /\ pc[t] = "notify"
    /\ Goto(t, "idle")
    /\ \/ waiting = {} /\ UNCHANGED waiting
       \/ \E w \in waiting : waiting' = waiting \ {w}
    /\ UNCHANGED <<exit_now_, nwait_consumer_, queueVars, history>>

\* front() without pop_front(), back() without pop_back().
TakeOrExitMutant(t) ==
    /\ Goto(t, "idle")
    /\ IF exit_now_ THEN UNCHANGED <<queueVars, popped>>
       ELSE \E e \in Queued :
            /\ type = "kFIFO" => e = Head(fifo_queue_)
            /\ type = "kPriority" =>
                  \A d \in priority_queue_ : Priority[d] <= Priority[e]
            /\ popped' = Append(popped, e)
            /\ UNCHANGED queueVars

\* Past the wait: false if the queue is exiting, whatever is in it.
TakeOrExit(t) ==
    /\ Goto(t, "idle")
    /\ IF exit_now_ THEN UNCHANGED <<queueVars, popped>>
       ELSE \/ /\ type = "kFIFO"
               /\ popped' = Append(popped, Head(fifo_queue_))
               /\ fifo_queue_' = Tail(fifo_queue_)
               /\ UNCHANGED priority_queue_
            \/ /\ type = "kPriority"
               /\ \E e \in priority_queue_ :
                     /\ \A d \in priority_queue_ : Priority[d] <= Priority[e]
                     /\ popped' = Append(popped, e)
                     /\ priority_queue_' = priority_queue_ \ {e}
               /\ UNCHANGED fifo_queue_

\* The predicate of cv_.wait.
PopPredicateMutant == NonEmpty
PopPredicate == NonEmpty \/ exit_now_

PopLock(t) ==
    /\ pc[t] = "idle"
    /\ \/ /\ PopPredicate
          /\ TakeOrExit(t)
          /\ UNCHANGED <<nwait_consumer_, waiting>>
       \/ /\ ~PopPredicate
          /\ nwait_consumer_' = nwait_consumer_ + 1
          /\ waiting' = waiting \cup {t}
          /\ Goto(t, "wait")
          /\ UNCHANGED <<queueVars, popped>>
    /\ UNCHANGED <<exit_now_, pushed, pushedBack>>

PopWake(t) ==
    /\ pc[t] = "wait" /\ t \notin waiting
    /\ \/ /\ PopPredicate
          /\ nwait_consumer_' = nwait_consumer_ - 1
          /\ TakeOrExit(t)
          /\ UNCHANGED waiting
       \/ /\ ~PopPredicate
          /\ waiting' = waiting \cup {t}
          /\ UNCHANGED <<nwait_consumer_, pc, queueVars, popped>>
    /\ UNCHANGED <<exit_now_, pushed, pushedBack>>

SignalForKill(t) ==
    /\ pc[t] = "idle"
    /\ exit_now_' = TRUE
    /\ Goto(t, "kill")
    /\ UNCHANGED <<nwait_consumer_, queueVars, waiting, history>>

\* cv_.notify_all(), the end of SignalForKill.
NotifyAll(t) ==
    /\ pc[t] = "kill"
    /\ Goto(t, "idle")
    /\ waiting' = {}
    /\ UNCHANGED <<exit_now_, nwait_consumer_, queueVars, history>>

\* wait() may return without a notification.
SpuriousWakeup ==
    /\ \E w \in waiting : waiting' = waiting \ {w}
    /\ UNCHANGED <<exit_now_, nwait_consumer_, queueVars, pc, history>>

Init ==
    /\ exit_now_ = FALSE /\ nwait_consumer_ = 0
    /\ fifo_queue_ = <<>> /\ priority_queue_ = {}
    /\ pc = [t \in Threads |-> "idle"] /\ waiting = {}
    /\ pushed = {} /\ pushedBack = <<>> /\ popped = <<>>

\* What a thread does once its call has begun.
Continue(t) == NotifyOne(t) \/ PopWake(t) \/ NotifyAll(t)

Next ==
    \/ \E t \in Threads : \/ \E e \in Items : Push(t, e) \/ PushFront(t, e)
                          \/ PopLock(t) \/ SignalForKill(t) \/ Continue(t)
    \/ SpuriousWakeup

Spec == Init /\ [][Next]_vars

\* A thread that can run does run; nobody is obliged to push, pop or kill.
LiveSpec == Spec /\ \A t \in Threads : WF_vars(Continue(t))

(***************************************************************************)
(* Properties.                                                             *)
(***************************************************************************)
\* Types; nwait_consumer_ counts the threads inside the wait of Pop.
TypeOK ==
    /\ exit_now_ \in BOOLEAN
    /\ nwait_consumer_ = Cardinality({t \in Threads : pc[t] = "wait"})
    /\ fifo_queue_ \in Seq(Items) /\ priority_queue_ \subseteq Items
    /\ pc \in [Threads -> Pcs]
    /\ waiting \subseteq {t \in Threads : pc[t] = "wait"}
    /\ pushed \subseteq Items
    /\ pushedBack \in Seq(Items) /\ popped \in Seq(Items)

\* Pushes that have yet to notify, and threads woken that have yet to look.
Pending == {t \in Threads : pc[t] = "notify"}
Awake == {t \in Threads : pc[t] = "wait" /\ t \notin waiting}

\* No stranded item: while some Pop sleeps, every queued item has a thread
\* about to look at the queue or a push about to wake one.  Push decides under
\* the lock whether to notify, and notifies one thread after it.
NoStrandedItem ==
    (waiting /= {} /\ ~exit_now_)
        => Size <= Cardinality(Pending) + Cardinality(Awake)

\* Nothing is lost or delivered twice: every pushed item is either in the
\* queue or has been popped, once.
ExactlyOnce ==
    /\ pushed = Queued \cup Range(popped) /\ Queued \cap Range(popped) = {}
    /\ IsInjective(popped) /\ IsInjective(fifo_queue_)

Before(s, d, e) == \E i, j \in DOMAIN s : i < j /\ s[i] = d /\ s[j] = e

\* Elements pushed to the back come out in the order in which they went in,
\* whatever was pushed to the front meanwhile: of any two of them, the one that
\* was pushed first is ahead among those popped and those in the queue.
PushOrderKept ==
    type = "kFIFO" =>
        /\ Range(pushedBack) \subseteq Range(popped \o fifo_queue_)
        /\ \A a, b \in DOMAIN pushedBack :
               a < b => Before(popped \o fifo_queue_, pushedBack[a], pushedBack[b])

\* Nobody waits in vain: an item never stays in the queue while a Pop waits for
\* one and, as the comment on SignalForKill says, "all blocking pop call to the
\* queue will return" once it is killed.
WaitersAreServed ==
    /\ (NonEmpty /\ \E t \in Threads : pc[t] = "wait")
           ~> (~NonEmpty \/ \A t \in Threads : pc[t] /= "wait")
    /\ \A t \in Threads : (exit_now_ /\ pc[t] = "wait") ~> pc[t] /= "wait"
==============================================================================
