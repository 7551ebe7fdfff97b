---------------------------- MODULE ProducerBase ----------------------------
(* ConcurrentQueue::ProducerBase (concurrentqueue.h): the counters of one
   producer's queue, and how a consumer claims items of it. The dequeue and
   dequeue_bulk of both kinds of producer begin with these steps; dequeue does
   what dequeue_bulk does with one item and is modelled as such. Every access to
   an atomic that another thread may change is a step; the memory is interleaved.
   An item is its number in the order of enqueueing; index_t has IndexRange
   values and wraps. *)
EXTENDS Integers, Sequences, FiniteSets

CONSTANTS Consumers,
          BLOCK_SIZE, IndexRange,      \* powers of two above 1; IndexRange as 2^64
          MAX_SUBQUEUE_SIZE,           \* IndexRange: no limit
          MaxItems, MaxBulk            \* bounds on what is enqueued

VARIABLES
    tailIndex, headIndex, dequeueOptimisticCount, dequeueOvercommit,
    sent, claimed,                   \* items enqueued and claimed so far
    pc, loc                          \* place and locals of the consumers

nullptr == 0
Slots == 0 .. BLOCK_SIZE - 1
Index == 0 .. IndexRange - 1
counters == <<dequeueOptimisticCount, dequeueOvercommit, headIndex>>
consumers == <<pc, loc, claimed, counters>>
baseVars == <<tailIndex, sent, consumers>>

Plus(a, b) == (a + b) % IndexRange
Minus(a, b) == (a - b) % IndexRange
circular_less_than(a, b) == Minus(a, b) > IndexRange \div 2
Base(i) == i - (i % BLOCK_SIZE)
Least(a, b) == IF a < b THEN a ELSE b

\* Whether a block that begins at index cur is too much.
Full(cur) ==
    \/ ~circular_less_than(headIndex, Plus(cur, BLOCK_SIZE))
    \/ /\ MAX_SUBQUEUE_SIZE /= IndexRange
       /\ MAX_SUBQUEUE_SIZE = 0 \/ MAX_SUBQUEUE_SIZE - BLOCK_SIZE < Minus(cur, headIndex)

-----------------------------------------------------------------------------
(* dequeue, dequeue_bulk: up to headIndex *)

Blank == [max |-> 0, tail |-> 0, over |-> 0, desired |-> 0, my |-> 0, index |-> 0, end |-> 0,
          header |-> 0, front |-> 0, slot |-> 0, item |-> 0]
Goto(c, l, changes) == pc' = [pc EXCEPT ![c] = l] /\ loc' = [loc EXCEPT ![c] = changes]

LoadTail(c, max) ==
    /\ pc[c] = "idle"
    /\ Goto(c, "over", [Blank EXCEPT !.max = max, !.tail = tailIndex])
    /\ UNCHANGED <<tailIndex, sent, claimed, counters>>

LoadOvercommit(c) ==
    /\ pc[c] = "over"
    /\ Goto(c, "count", [loc[c] EXCEPT !.over = dequeueOvercommit])
    /\ UNCHANGED <<tailIndex, sent, claimed, counters>>

LoadCount(c) ==
    LET l == loc[c]
        n == Minus(l.tail, Minus(dequeueOptimisticCount, l.over))
    IN  /\ pc[c] = "count"
        /\ IF circular_less_than(0, n)
           THEN Goto(c, "add", [l EXCEPT !.tail = 0, !.desired = Least(n, l.max)])
           ELSE Goto(c, "idle", Blank)
        /\ UNCHANGED <<tailIndex, sent, claimed, counters>>

AddCount(c) ==
    /\ pc[c] = "add"
    /\ dequeueOptimisticCount' = Plus(dequeueOptimisticCount, loc[c].desired)
    /\ Goto(c, "recheck", [loc[c] EXCEPT !.my = dequeueOptimisticCount])
    /\ UNCHANGED <<tailIndex, sent, claimed, headIndex, dequeueOvercommit>>

Actual(c) == Minus(tailIndex, Minus(loc[c].my, loc[c].over))

\* What is not there goes back through dequeueOvercommit.
Recheck(c) ==
    LET n == IF circular_less_than(0, Actual(c)) THEN Least(Actual(c), loc[c].desired) ELSE 0
    IN  /\ pc[c] = "recheck"
        /\ Goto(c, IF n < loc[c].desired THEN "giveback" ELSE "claim",
                [loc[c] EXCEPT !.my = n, !.over = 0])
        /\ UNCHANGED <<tailIndex, sent, claimed, counters>>

GiveBack(c) ==
    /\ pc[c] = "giveback"
    /\ dequeueOvercommit' = Plus(dequeueOvercommit, loc[c].desired - loc[c].my)
    /\ IF loc[c].my > 0 THEN Goto(c, "claim", loc[c]) ELSE Goto(c, "idle", Blank)
    /\ UNCHANGED <<tailIndex, sent, claimed, headIndex, dequeueOptimisticCount>>

Claim(c) ==
    /\ pc[c] = "claim"
    /\ headIndex' = Plus(headIndex, loc[c].my)
    /\ claimed' = claimed + loc[c].my
    /\ Goto(c, "header", [Blank EXCEPT !.index = headIndex, !.end = headIndex', !.item = claimed + 1])
    /\ UNCHANGED <<tailIndex, sent, dequeueOvercommit, dequeueOptimisticCount>>

\* The items of the operation that are in this block.
InBlock(c) ==
    LET l == loc[c]
        upto == Plus(Base(l.index), BLOCK_SIZE)
        end == IF circular_less_than(l.end, upto) THEN l.end ELSE upto
    IN  Minus(end, l.index)

Taken(c) == {(loc[c].index + i) % BLOCK_SIZE : i \in 0 .. InBlock(c) - 1}

Attempt(c) ==
    \/ \E max \in 1 .. MaxBulk : LoadTail(c, max)
    \/ LoadOvercommit(c) \/ LoadCount(c) \/ AddCount(c) \/ Recheck(c) \/ GiveBack(c) \/ Claim(c)

BaseInit ==
    /\ tailIndex = 0 /\ headIndex = 0 /\ dequeueOptimisticCount = 0 /\ dequeueOvercommit = 0
    /\ sent = 0 /\ claimed = 0
    /\ pc = [c \in Consumers |-> "idle"] /\ loc = [c \in Consumers |-> Blank]

-----------------------------------------------------------------------------
BaseTypeOK ==
    /\ {tailIndex, headIndex, dequeueOptimisticCount, dequeueOvercommit} \subseteq Index
    /\ sent \in 0 .. MaxItems /\ claimed \in 0 .. sent
    /\ DOMAIN pc = Consumers /\ DOMAIN loc = Consumers

\* With no dequeue under way the optimistic count less what was given back is
\* the head: an item in the queue will be seen by the next dequeue.
CountsSettle ==
    (\A c \in Consumers : pc[c] = "idle") =>
        Minus(dequeueOptimisticCount, dequeueOvercommit) = headIndex
=============================================================================
