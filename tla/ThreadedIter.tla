---------------------------- MODULE ThreadedIter ----------------------------
(***************************************************************************)
(* dmlc::ThreadedIter (include/dmlc/threadediter.h): an iterator backed by *)
(* a producer thread that fills cells ahead of its consumers.              *)
(*                                                                         *)
(* Threads.  One producer thread runs the closure of Init; the Consumers   *)
(* call Next and Recycle in parallel; Owner is the consumer that also      *)
(* calls Next(void), BeforeFirst, Destroy and Init.                        *)
(*                                                                         *)
(* Atomicity.  A region under mutex_ is one action up to its wait.  The    *)
(* store to produce_end_ around next(), the ThrowExceptionIfSet tests and  *)
(* the notifications made after unlock() are steps of their own.           *)
(*                                                                         *)
(* Condition variables.  waiting is the set of threads asleep in wait();   *)
(* a thread outside it that is still at its wait re-tests the predicate.   *)
(***************************************************************************)
EXTENDS Integers, Sequences, FiniteSets, Functions

CONSTANTS Consumers,          \* threads that call Next and Recycle
          Owner,              \* the consumer that owns the iterator
          Cells,              \* addresses new DType() may return
          NULL,
          max_capacity_,
          NItems,             \* items next() yields between two resets
          MaxHold,            \* bound: cells a consumer keeps at once
          MaxLeak,            \* bound: cells lost to exceptions
          NextThrows,         \* may next() raise?
          BeforeFirstThrows   \* may beforefirst() raise?

ASSUME ConstantsAssumption ==
    /\ Owner \in Consumers /\ "producer" \notin Consumers
    /\ IsFiniteSet(Consumers) /\ IsFiniteSet(Cells)
    /\ NULL \notin Cells
    /\ max_capacity_ \in Nat \ {0} /\ NItems \in Nat
    /\ MaxHold \in Nat \ {0} /\ MaxLeak \in Nat
    /\ NextThrows \in BOOLEAN /\ BeforeFirstThrows \in BOOLEAN

VARIABLES
    producer_sig_, producer_sig_processed_, produce_end_, producer_thread_,
    nwait_consumer_, nwait_producer_, out_data_, queue_, free_cells_,
    iter_exception_,
    ppc,        \* where the producer thread is
    cell,       \* its local variable
    pc,         \* where each consumer is
    toOut,      \* does the Owner's current Next fill out_data_?
    held,       \* cells each consumer owns
    waiting,    \* threads asleep in a wait()
    pos,        \* position of the producer's source
    alloc,      \* cells allocated and not deleted
    val,        \* the item in each cell of queue_ or in the producer's hand
    last,       \* the item popped last
    ndelivered, \* items popped from queue_ since the source was reset
    mixed       \* has Init restarted a producer over undrained items?

queueVars == <<queue_, free_cells_>>
sigVars   == <<producer_sig_, producer_sig_processed_, produce_end_>>
countVars == <<nwait_consumer_, nwait_producer_>>
cellVars  == <<held, out_data_, alloc>>
dataVars  == <<pos, val, ndelivered, last, mixed>>
prodVars  == <<ppc, cell, producer_thread_>>
callVars  == <<pc, toOut>>
vars == <<queueVars, sigVars, countVars, cellVars, dataVars, prodVars,
          callVars, iter_exception_, waiting>>

Producer == "producer"      \* the producer thread's name in waiting
Stale    == -1              \* content of a cell that holds no current item

ProducerPcs == {"none", "lock", "wait", "next", "push", "notify", "bfnotify",
                "dnotify", "catch", "catch2", "enotify", "exit"}
NextPcs     == {"nbegin", "nlock", "nwait", "nnot", "npost", "nend", "false"}
RecyclePcs  == {"rlock", "rnot", "rpost"}
OwnerPcs    == {"block", "bwait", "bnot", "bpost", "djoin"}

\* Where the cells are.
Hand      == IF cell = NULL THEN {} ELSE {cell}
InOut     == IF out_data_ = NULL THEN {} ELSE {out_data_}
Reachable == Range(queue_) \cup Range(free_cells_) \cup Hand \cup InOut
                 \cup UNION {held[c] : c \in Consumers}
Leaked    == alloc \ Reachable

\* The loops that move every cell of queue_ to free_cells_.
ClearQueueMutant == UNCHANGED queueVars
LeakMutant == queue_' = <<>> /\ UNCHANGED free_cells_
ClearQueue == free_cells_' = free_cells_ \o queue_ /\ queue_' = <<>>

\* if (c != NULL) free_cells_.push(c)
PushFree(c) ==
    free_cells_' = IF c = NULL THEN free_cells_ ELSE Append(free_cells_, c)

\* Whether a caller that made room for the producer has to wake it.
NotifyNeededMutant == nwait_producer_ > 1 /\ ~produce_end_
NotifyNeeded == nwait_producer_ /= 0 /\ ~produce_end_

(***************************************************************************)
(* The producer thread: the closure producer_fun of Init.                  *)
(***************************************************************************)
\* The predicate of producer_cond_.wait.
IgnoresSignalMutant ==
    ~produce_end_ /\ (Len(queue_) < max_capacity_ \/ free_cells_ /= <<>>)
ProducerPredicate ==
    \/ producer_sig_ /= "kProduce"
    \/ /\ ~produce_end_
       /\ Len(queue_) < max_capacity_ \/ free_cells_ /= <<>>

\* front() without pop().
PopFreeCellMutant ==
    /\ producer_sig_ = "kProduce"
    /\ ppc' = "next"
    /\ cell' = IF free_cells_ /= <<>> THEN Head(free_cells_) ELSE NULL
    /\ UNCHANGED <<queueVars, sigVars, dataVars>>

\* Leaving the wait under kProduce: take a free cell, or NULL.
PopFreeCell ==
    /\ producer_sig_ = "kProduce"
    /\ ppc' = "next"
    /\ IF free_cells_ /= <<>>
       THEN cell' = Head(free_cells_) /\ free_cells_' = Tail(free_cells_)
       ELSE cell' = NULL /\ UNCHANGED free_cells_
    /\ UNCHANGED <<queue_, sigVars, dataVars>>

\* Leaving the wait under kBeforeFirst: reset the source, drain queue_.
ResetProducer ==
    /\ producer_sig_ = "kBeforeFirst"
    /\ pos' = 0 /\ ndelivered' = 0 /\ last' = Stale /\ mixed' = FALSE
    /\ val' = [c \in Cells |-> Stale]
    /\ ClearQueue
    /\ produce_end_' = FALSE
    /\ producer_sig_processed_' = TRUE
    /\ producer_sig_' = "kProduce"
    /\ ppc' = "bfnotify" /\ cell' = NULL

\* beforefirst() raises: the lock is released by unwinding.
ResetProducerThrows ==
    /\ BeforeFirstThrows
    /\ producer_sig_ = "kBeforeFirst"
    /\ ppc' = "catch" /\ cell' = NULL
    /\ UNCHANGED <<queueVars, sigVars, dataVars>>

DestroyThread ==
    /\ producer_sig_ = "kDestroy"
    /\ producer_sig_processed_' = TRUE
    /\ produce_end_' = TRUE
    /\ ppc' = "dnotify" /\ cell' = NULL
    /\ UNCHANGED <<queueVars, producer_sig_, dataVars>>

ProducerActs ==
    PopFreeCell \/ ResetProducer \/ ResetProducerThrows \/ DestroyThread

\* Top of the loop: lock, count itself as waiting, test the predicate.
ProducerLock ==
    /\ ppc = "lock"
    /\ \/ /\ ProducerPredicate
          /\ ProducerActs
          /\ UNCHANGED <<nwait_producer_, waiting>>
       \/ /\ ~ProducerPredicate
          /\ nwait_producer_' = nwait_producer_ + 1
          /\ waiting' = waiting \cup {Producer}
          /\ ppc' = "wait"
          /\ UNCHANGED <<queueVars, sigVars, dataVars, cell>>
    /\ UNCHANGED <<nwait_consumer_, cellVars, producer_thread_, callVars,
                   iter_exception_>>

\* Woken: leave the wait if the predicate holds, else sleep again.
ProducerWake ==
    /\ ppc = "wait" /\ Producer \notin waiting
    /\ \/ /\ ProducerPredicate
          /\ nwait_producer_' = nwait_producer_ - 1
          /\ ProducerActs
          /\ UNCHANGED waiting
       \/ /\ ~ProducerPredicate
          /\ waiting' = waiting \cup {Producer}
          /\ UNCHANGED <<queueVars, sigVars, dataVars, ppc, cell,
                         nwait_producer_>>
    /\ UNCHANGED <<nwait_consumer_, cellVars, producer_thread_, callVars,
                   iter_exception_>>

\* produce_end_.store(!next(&cell)), outside the lock.
ProducerNext ==
    /\ ppc = "next"
    /\ \/ /\ pos < NItems
          /\ cell' \in IF cell = NULL THEN Cells \ alloc ELSE {cell}
          /\ alloc' = alloc \cup {cell'}
          /\ val' = [val EXCEPT ![cell'] = pos]
          /\ pos' = pos + 1
          /\ produce_end_' = FALSE
       \/ /\ pos = NItems
          /\ produce_end_' = TRUE
          /\ UNCHANGED <<cell, alloc, val, pos>>
    /\ ppc' = "push"
    /\ UNCHANGED <<queueVars, producer_sig_, producer_sig_processed_, countVars,
                   held, out_data_, ndelivered, last, mixed, producer_thread_,
                   callVars, iter_exception_, waiting>>

\* next() raises: the cell in hand is lost with the stack frame.
ProducerNextThrows ==
    /\ NextThrows
    /\ ppc = "next"
    /\ Cardinality(Leaked) + Cardinality(Hand) <= MaxLeak
    /\ ppc' = "catch" /\ cell' = NULL
    /\ UNCHANGED <<queueVars, sigVars, countVars, cellVars, dataVars,
                   producer_thread_, callVars, iter_exception_, waiting>>

\* Second lock scope: hand the cell over.
ProducerPush ==
    /\ ppc = "push"
    /\ IF ~produce_end_
       THEN queue_' = Append(queue_, cell) /\ UNCHANGED free_cells_
       ELSE PushFree(cell) /\ UNCHANGED queue_
    /\ ppc' = IF nwait_consumer_ /= 0 THEN "notify" ELSE "lock"
    /\ cell' = NULL
    /\ UNCHANGED <<sigVars, countVars, cellVars, dataVars, producer_thread_,
                   callVars, iter_exception_, waiting>>

\* consumer_cond_.notify_all(), always after the lock is released.
ProducerNotify ==
    /\ ppc \in {"notify", "bfnotify", "dnotify", "enotify"}
    /\ waiting' = waiting \ Consumers
    /\ ppc' = IF ppc \in {"dnotify", "enotify"} THEN "exit" ELSE "lock"
    /\ UNCHANGED <<queueVars, sigVars, countVars, cellVars, dataVars, cell,
                   producer_thread_, callVars, iter_exception_>>

\* The handler: record the exception first ...
ProducerCatch ==
    /\ ppc = "catch"
    /\ iter_exception_' = TRUE
    /\ ppc' = "catch2"
    /\ UNCHANGED <<queueVars, sigVars, countVars, cellVars, dataVars, cell,
                   producer_thread_, callVars, waiting>>

\* ... then, under mutex_, end the production and answer a pending request.
ProducerFail ==
    /\ ppc = "catch2"
    /\ \/ /\ producer_sig_ = "kBeforeFirst"
          /\ ClearQueue
          /\ produce_end_' = TRUE
          /\ producer_sig_processed_' = TRUE
          /\ ppc' = "enotify"
       \/ /\ producer_sig_ = "kProduce"
          /\ produce_end_' = TRUE
          /\ ppc' = IF nwait_consumer_ /= 0 THEN "enotify" ELSE "exit"
          /\ UNCHANGED <<queueVars, producer_sig_processed_>>
       \/ /\ producer_sig_ = "kDestroy"
          /\ ppc' = "exit"
          /\ UNCHANGED <<queueVars, produce_end_, producer_sig_processed_>>
    /\ UNCHANGED <<producer_sig_, countVars, cellVars, dataVars, cell,
                   producer_thread_, callVars, iter_exception_, waiting>>

ProducerStep ==
    \/ ProducerLock \/ ProducerWake \/ ProducerNext \/ ProducerNextThrows
    \/ ProducerPush \/ ProducerNotify \/ ProducerCatch \/ ProducerFail

(***************************************************************************)
(* The callers.  They respect the contract of the header: Next and Recycle *)
(* may run in parallel, BeforeFirst never runs against a Next (the CHECK   *)
(* of Next), Destroy and Init run alone, and only an initialised iterator  *)
(* is used.                                                                *)
(***************************************************************************)
Idle(c) == pc[c] = "idle"
OwnerCall(S) == pc[Owner] \in S
Quiet == \A c \in Consumers : Idle(c)

Goto(c, l) == pc' = [pc EXCEPT ![c] = l]
Return(c) == Goto(c, "idle")

\* The tests at the head of Next(DType**).
EnterNextMutant(c) ==
    IF producer_sig_ = "kDestroy" THEN Return(c) ELSE Goto(c, "nlock")
EnterNext(c) ==
    IF producer_sig_ = "kDestroy" \/ iter_exception_ THEN Return(c)
    ELSE Goto(c, "nlock")

\* A call of Next(&dptr), or of Next(void) with nothing to recycle.
NextBegin(c) ==
    /\ Idle(c) /\ producer_sig_ /= "none"
    /\ ~OwnerCall(OwnerPcs)
    /\ \/ Cardinality(held[c]) < MaxHold /\ toOut' = (toOut /\ c /= Owner)
       \/ c = Owner /\ out_data_ = NULL /\ toOut' = TRUE
    /\ EnterNext(c)
    /\ UNCHANGED <<queueVars, sigVars, countVars, cellVars, dataVars, prodVars,
                   iter_exception_, waiting>>

\* Next(void) after its Recycle.
NextContinue(c) ==
    /\ pc[c] = "nbegin"
    /\ EnterNext(c)
    /\ UNCHANGED <<queueVars, sigVars, countVars, cellVars, dataVars, prodVars,
                   iter_exception_, waiting, toOut>>

NextPredicate == queue_ /= <<>> \/ produce_end_

\* Past the wait: pop the front of queue_, or report the end.
TakeOrEnd(c) ==
    \/ /\ queue_ /= <<>>
       /\ IF c = Owner /\ toOut
          THEN out_data_' = Head(queue_) /\ UNCHANGED held
          ELSE /\ held' = [held EXCEPT ![c] = @ \cup {Head(queue_)}]
               /\ UNCHANGED out_data_
       /\ queue_' = Tail(queue_)
       /\ ndelivered' = ndelivered + 1
       /\ last' = val[Head(queue_)]
       /\ val' = [val EXCEPT ![Head(queue_)] = Stale]
       /\ Goto(c, IF NotifyNeeded THEN "nnot" ELSE "npost")
    \/ /\ queue_ = <<>>
       /\ Goto(c, "nend")
       /\ UNCHANGED <<queue_, held, out_data_, ndelivered, last, val>>

\* Lock, test CHECK(producer_sig_ == kProduce), then wait for an item.
NextLock(c) ==
    /\ pc[c] = "nlock"
    /\ \/ /\ producer_sig_ /= "kProduce"
          /\ Return(c)
          /\ UNCHANGED <<queue_, held, out_data_, ndelivered, last, val, nwait_consumer_,
                         waiting>>
       \/ /\ producer_sig_ = "kProduce"
          /\ NextPredicate
          /\ TakeOrEnd(c)
          /\ UNCHANGED <<nwait_consumer_, waiting>>
       \/ /\ producer_sig_ = "kProduce"
          /\ ~NextPredicate
          /\ nwait_consumer_' = nwait_consumer_ + 1
          /\ waiting' = waiting \cup {c}
          /\ Goto(c, "nwait")
          /\ UNCHANGED <<queue_, held, out_data_, ndelivered, last, val>>
    /\ UNCHANGED <<free_cells_, sigVars, nwait_producer_, alloc, pos, mixed,
                   prodVars, toOut, iter_exception_>>

NextWake(c) ==
    /\ pc[c] = "nwait" /\ c \notin waiting
    /\ \/ /\ NextPredicate
          /\ nwait_consumer_' = nwait_consumer_ - 1
          /\ TakeOrEnd(c)
          /\ UNCHANGED waiting
       \/ /\ ~NextPredicate
          /\ waiting' = waiting \cup {c}
          /\ UNCHANGED <<queue_, held, out_data_, ndelivered, last, val, nwait_consumer_,
                         pc>>
    /\ UNCHANGED <<free_cells_, sigVars, nwait_producer_, alloc, pos, mixed,
                   prodVars, toOut, iter_exception_>>

\* producer_cond_.notify_one() once the lock is released.
NotifyProducer(c) ==
    /\ pc[c] \in {"nnot", "rnot", "bnot"}
    /\ waiting' = waiting \ {Producer}
    /\ Goto(c, CASE pc[c] = "nnot" -> "npost" [] pc[c] = "rnot" -> "rpost"
                 [] pc[c] = "bnot" -> "bpost")
    /\ UNCHANGED <<queueVars, sigVars, countVars, cellVars, dataVars, prodVars,
                   toOut, iter_exception_>>

\* The end of a Next without its ThrowExceptionIfSet.
FinishCallMutant(c) ==
    /\ pc[c] \in {"npost", "nend", "rpost", "bpost"}
    /\ IF pc[c] = "nend" THEN Goto(c, "false")
       ELSE IF pc[c] = "rpost" /\ c = Owner /\ toOut /\ ~iter_exception_
       THEN Goto(c, "nbegin")
       ELSE Return(c)
    /\ UNCHANGED <<queueVars, sigVars, countVars, cellVars, dataVars, prodVars,
                   toOut, iter_exception_, waiting>>

\* The final ThrowExceptionIfSet of every call.  "false" is the return of a
\* Next that found no item.
FinishCall(c) ==
    /\ pc[c] \in {"npost", "nend", "rpost", "bpost"}
    /\ IF iter_exception_ THEN Return(c)
       ELSE IF pc[c] = "nend" THEN Goto(c, "false")
       ELSE IF pc[c] = "rpost" /\ c = Owner /\ toOut THEN Goto(c, "nbegin")
       ELSE Return(c)
    /\ UNCHANGED <<queueVars, sigVars, countVars, cellVars, dataVars, prodVars,
                   toOut, iter_exception_, waiting>>

ReturnFalse(c) ==
    /\ pc[c] = "false" /\ Return(c)
    /\ UNCHANGED <<queueVars, sigVars, countVars, cellVars, dataVars, prodVars,
                   toOut, iter_exception_, waiting>>

\* A call of Recycle, or of Next(void), which recycles out_data_ first.
RecycleBegin(c) ==
    /\ Idle(c) /\ producer_sig_ /= "none"
    /\ \/ held[c] /= {} /\ toOut' = (toOut /\ c /= Owner)
       \/ c = Owner /\ out_data_ /= NULL /\ toOut' = TRUE
    /\ ~OwnerCall({"djoin"})
    /\ IF iter_exception_ THEN Return(c)
       ELSE Goto(c, "rlock")
    /\ UNCHANGED <<queueVars, sigVars, countVars, cellVars, dataVars, prodVars,
                   iter_exception_, waiting>>

RecycleLock(c) ==
    /\ pc[c] = "rlock"
    /\ IF c = Owner /\ toOut
       THEN /\ free_cells_' = Append(free_cells_, out_data_)
            /\ out_data_' = NULL /\ UNCHANGED held
       ELSE \E d \in held[c] :
            /\ free_cells_' = Append(free_cells_, d)
            /\ held' = [held EXCEPT ![c] = @ \ {d}] /\ UNCHANGED out_data_
    /\ Goto(c, IF NotifyNeeded THEN "rnot" ELSE "rpost")
    /\ UNCHANGED <<queue_, sigVars, countVars, alloc, dataVars, prodVars, toOut,
                   iter_exception_, waiting>>

BeforeFirstBegin ==
    /\ Idle(Owner) /\ producer_sig_ /= "none"
    /\ \A c \in Consumers : pc[c] \notin NextPcs
    /\ IF iter_exception_ THEN Return(Owner)
       ELSE Goto(Owner, "block")
    /\ UNCHANGED <<queueVars, sigVars, countVars, cellVars, dataVars, prodVars,
                   toOut, iter_exception_, waiting>>

\* Lock: give out_data_ back, post the request, wake the producer, wait.
BeforeFirstLock ==
    /\ pc[Owner] = "block"
    /\ PushFree(out_data_) /\ out_data_' = NULL
    /\ \/ /\ producer_sig_ = "kDestroy"
          /\ Return(Owner)
          /\ UNCHANGED <<producer_sig_, waiting>>
       \/ /\ producer_sig_ /= "kDestroy"
          /\ producer_sig_' = "kBeforeFirst"
          /\ IF producer_sig_processed_
             THEN Return(Owner) /\ UNCHANGED waiting
             ELSE /\ Goto(Owner, "bwait")
                  /\ waiting' = (waiting \cup {Owner})
                                \ IF nwait_producer_ /= 0 THEN {Producer} ELSE {}
    /\ UNCHANGED <<queue_, producer_sig_processed_, produce_end_, countVars,
                   held, alloc, dataVars, prodVars, toOut, iter_exception_>>

BeforeFirstWake ==
    /\ pc[Owner] = "bwait" /\ Owner \notin waiting
    /\ \/ /\ producer_sig_processed_
          /\ producer_sig_processed_' = FALSE
          /\ Goto(Owner, IF NotifyNeeded THEN "bnot" ELSE "bpost")
          /\ UNCHANGED waiting
       \/ /\ ~producer_sig_processed_
          /\ waiting' = waiting \cup {Owner}
          /\ UNCHANGED <<producer_sig_processed_, pc>>
    /\ UNCHANGED <<queueVars, producer_sig_, produce_end_, countVars, cellVars,
                   dataVars, prodVars, toOut, iter_exception_>>

\* Destroy with a live producer_thread_: signal it under the lock, join it.
DestroyBegin ==
    /\ Quiet /\ producer_thread_
    /\ producer_sig_' = "kDestroy"
    /\ waiting' = waiting \ IF nwait_producer_ /= 0 THEN {Producer} ELSE {}
    /\ Goto(Owner, "djoin")
    /\ UNCHANGED <<queueVars, producer_sig_processed_, produce_end_, countVars,
                   cellVars, dataVars, prodVars, toOut, iter_exception_>>

\* The rest of Destroy: join, delete the cells.  A Destroy with no thread to
\* join is only this.
DestroyCleanup ==
    /\ \/ pc[Owner] = "djoin" /\ ppc = "exit"
       \/ Quiet /\ ~producer_thread_
    /\ alloc' = alloc \ (Range(queue_) \cup Range(free_cells_) \cup InOut)
    /\ queue_' = <<>> /\ free_cells_' = <<>> /\ out_data_' = NULL
    /\ producer_thread_' = FALSE /\ ppc' = "none"
    /\ Return(Owner)
    /\ UNCHANGED <<sigVars, countVars, held, dataVars, cell, toOut,
                   iter_exception_, waiting>>

\* Init: the first one, one after Destroy, or one over a producer thread that
\* an exception has ended (as test/unittest_threaditer_exc_handling.cc does).
\* The new producer may continue the old source or start another one.
Init_ ==
    /\ Quiet /\ ppc \in {"none", "exit"}
    /\ producer_sig_' = "kProduce"
    /\ producer_sig_processed_' = FALSE
    /\ produce_end_' = FALSE
    /\ iter_exception_' = FALSE
    /\ producer_thread_' = TRUE /\ ppc' = "lock"
    /\ pos' \in {0, pos}
    /\ ndelivered' = 0 /\ last' = Stale /\ val' = [c \in Cells |-> Stale]
    /\ mixed' = (pos' /= 0 \/ queue_ /= <<>>)
    /\ UNCHANGED <<queueVars, countVars, cellVars, cell, callVars, waiting>>

(***************************************************************************)
(* The specification.                                                      *)
(***************************************************************************)
Init ==
    /\ producer_sig_ = "none" /\ producer_sig_processed_ = FALSE
    /\ produce_end_ = FALSE /\ producer_thread_ = FALSE
    /\ nwait_consumer_ = 0 /\ nwait_producer_ = 0
    /\ out_data_ = NULL /\ queue_ = <<>> /\ free_cells_ = <<>>
    /\ iter_exception_ = FALSE
    /\ ppc = "none" /\ cell = NULL
    /\ pc = [c \in Consumers |-> "idle"] /\ toOut = FALSE
    /\ held = [c \in Consumers |-> {}] /\ waiting = {}
    /\ pos = 0 /\ alloc = {} /\ val = [c \in Cells |-> Stale]
    /\ ndelivered = 0 /\ last = Stale /\ mixed = FALSE

\* What a thread does once a call has begun.
ConsumerStep(c) ==
    \/ NextContinue(c) \/ NextLock(c) \/ NextWake(c) \/ NotifyProducer(c)
    \/ FinishCall(c) \/ ReturnFalse(c) \/ RecycleLock(c)

OwnerStep == BeforeFirstLock \/ BeforeFirstWake
             \/ (pc[Owner] = "djoin" /\ DestroyCleanup)

\* wait() may return without a notification.
SpuriousWakeup ==
    /\ \E t \in waiting : waiting' = waiting \ {t}
    /\ UNCHANGED <<queueVars, sigVars, countVars, cellVars, dataVars, prodVars,
                   callVars, iter_exception_>>

Next ==
    \/ ProducerStep
    \/ \E c \in Consumers : NextBegin(c) \/ RecycleBegin(c) \/ ConsumerStep(c)
    \/ BeforeFirstBegin \/ BeforeFirstLock \/ BeforeFirstWake
    \/ DestroyBegin \/ DestroyCleanup \/ Init_
    \/ SpuriousWakeup

Spec == Init /\ [][Next]_vars

\* The scheduler runs every thread that can run; next() and beforefirst()
\* return or raise; nobody is obliged to make a call.
Fairness ==
    /\ WF_vars(ProducerStep)
    /\ \A c \in Consumers : WF_vars(ConsumerStep(c))
    /\ WF_vars(OwnerStep)

LiveSpec == Spec /\ Fairness

(***************************************************************************)
(* Properties.                                                             *)
(***************************************************************************)
\* Types; the two wait counters count exactly the threads inside a wait().
TypeOK ==
    /\ producer_sig_ \in {"none", "kProduce", "kBeforeFirst", "kDestroy"}
    /\ producer_sig_processed_ \in BOOLEAN /\ produce_end_ \in BOOLEAN
    /\ producer_thread_ \in BOOLEAN /\ iter_exception_ \in BOOLEAN
    /\ nwait_producer_ = IF ppc = "wait" THEN 1 ELSE 0
    /\ nwait_consumer_ = Cardinality({c \in Consumers : pc[c] = "nwait"})
    /\ out_data_ \in Cells \cup {NULL} /\ cell \in Cells \cup {NULL}
    /\ queue_ \in Seq(Cells) /\ free_cells_ \in Seq(Cells)
    /\ ppc \in ProducerPcs
    /\ pc \in [Consumers -> {"idle"} \cup NextPcs \cup RecyclePcs \cup OwnerPcs]
    /\ toOut \in BOOLEAN
    /\ held \in [Consumers -> SUBSET Cells]
    /\ waiting \subseteq Consumers \cup {Producer}
    /\ pos \in 0..NItems /\ ndelivered \in Nat
    /\ alloc \subseteq Cells
    /\ val \in [Cells -> {Stale} \cup 0..NItems] /\ last \in {Stale} \cup 0..NItems
    /\ mixed \in BOOLEAN

\* A cell has one owner: it is in queue_ once, or in free_cells_ once, or in
\* the producer's hand, or in out_data_, or with one consumer, and it has not
\* been deleted.  So next() never overwrites a cell a consumer reads and
\* nothing is deleted twice.
CellOwnership ==
    /\ IsInjective(queue_) /\ IsInjective(free_cells_)
    /\ Range(queue_) \cap Range(free_cells_) = {}
    /\ (Range(queue_) \cup Range(free_cells_)) \cap (Hand \cup InOut) = {}
    /\ Hand \cap InOut = {}
    /\ \A c \in Consumers :
          /\ held[c] \cap (Range(queue_) \cup Range(free_cells_)) = {}
          /\ held[c] \cap (Hand \cup InOut) = {}
          /\ \A d \in Consumers \ {c} : held[c] \cap held[d] = {}
    /\ Reachable \subseteq alloc

\* The items in queue_ are the next ones of the current pass, in order, with
\* none missing, doubled or left over from before a BeforeFirst.
InOrder ==
    (~mixed /\ ~iter_exception_ /\ producer_sig_ \notin {"none", "kDestroy"}) =>
        /\ \A i \in 1..Len(queue_) : val[queue_[i]] = ndelivered + i - 1
        /\ IF ppc = "push" /\ ~produce_end_
           THEN /\ pos = ndelivered + Len(queue_) + 1
                /\ val[cell] = pos - 1
           ELSE pos = ndelivered + Len(queue_)

\* Seen from its callers ThreadedIter is a DataIter, whatever the threads do.
Promise == INSTANCE DataIter WITH
    taken <- ndelivered,
    valid <- ~mixed /\ ~iter_exception_
                /\ producer_sig_ \notin {"none", "kDestroy"}
ImplementsDataIter == Promise!Spec

\* The assertions of the code hold: CHECK(producer_sig_ == kProduce) in Next,
\* CHECK(!producer_sig_processed_) in BeforeFirst and the DCHECK that next()
\* returned a cell.
ChecksHold ==
    /\ \A c \in Consumers : pc[c] = "nlock" => producer_sig_ = "kProduce"
    /\ (pc[Owner] = "block" /\ producer_sig_ /= "kDestroy")
          => ~producer_sig_processed_
    /\ ppc = "push" => (cell /= NULL \/ produce_end_)

\* No lost wake-up: a thread asleep although what it waits for has happened
\* is about to be notified by a thread that is past its critical section.
NoLostWakeup ==
    /\ (Producer \in waiting /\ ProducerPredicate)
          => \E c \in Consumers : pc[c] \in {"nnot", "rnot", "bnot"}
    /\ \A c \in Consumers :
          (c \in waiting /\ pc[c] = "nwait" /\ NextPredicate)
             => \/ ppc \in {"notify", "bfnotify", "dnotify", "enotify"}
                \/ ppc = "push" /\ produce_end_
    /\ (Owner \in waiting /\ pc[Owner] = "bwait" /\ producer_sig_processed_)
          => ppc \in {"bfnotify", "dnotify", "enotify"}

\* Only an exception out of next() loses a cell: all else that is allocated is
\* recycled, handed to a caller or deleted.
LeakOnlyOnThrow ==
    [][Leaked' \subseteq Leaked \/ (ppc = "next" /\ ppc' = "catch")]_vars

\* Next returns false only at the end of the data: an exception in the
\* producer is never mistaken for the end, and no item is left behind.
NoSilentTruncation ==
    \A c \in Consumers : (pc[c] = "false" /\ ~mixed) => ndelivered = NItems

\* BeforeFirst returns: its request is always answered.
BeforeFirstReturns == pc[Owner] \in {"block", "bwait", "bnot", "bpost"}
                          ~> pc[Owner] = "idle"

\* Every call of Next, Recycle, Destroy and, while next() does not throw (see
\* BeforeFirstReturns), of BeforeFirst returns.
CallsReturn ==
    /\ \A c \in Consumers :
           pc[c] \in NextPcs \cup RecyclePcs \cup {"djoin"} ~> pc[c] = "idle"
    /\ ~NextThrows => BeforeFirstReturns

\* "maximum capacity of the queue", as the header documents max_capacity_.
QueueCapacity == Len(queue_) <= max_capacity_

\* "Shouldn't throw exception in destructor": the DCHECK of the handler.
NoThrowDuringDestroy == ppc = "catch" => producer_sig_ /= "kDestroy"
=============================================================================
