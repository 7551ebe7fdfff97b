--------------------------- MODULE ConsumerTokens ---------------------------
(* ConcurrentQueue's dequeues (concurrentqueue.h): how a consumer, with or
   without a token, chooses among the producers' queues. A producer is its
   number in the order of the list, whose tail is the newest; its queue is the
   number of its items. A dequeue from one queue is a step (modules
   ExplicitProducer and ImplicitProducer), which may come back with less than
   there is while other consumers are at it. *)
EXTENDS Integers, FiniteSets

CONSTANTS Consumers,           \* their initialOffset: 0, 1, ...
          QUOTA,               \* EXPLICIT_CONSUMER_CONSUMPTION_QUOTA_BEFORE_ROTATE
          OffsetRange,         \* the offsets are modulo this, as 2^32
          MaxProducers, MaxItems, MaxBulk

nullptr == 0

VARIABLES
    list,             \* the producers are 1 .. list; list is the tail
    producerCount,    \* raised before the producer is in the list
    size, enqueued,
    globalOffset,     \* globalExplicitConsumerOffset
    token,            \* of each consumer
    pc, loc

vars == <<list, producerCount, size, enqueued, globalOffset, token, pc, loc>>
queue == <<list, producerCount, size, enqueued, globalOffset>>

next_prod(p) == p - 1

Blank == [max |-> 0, bulk |-> FALSE, tail |-> nullptr, ptr |-> nullptr, best |-> nullptr,
          bestSize |-> 0, count |-> 0, listed |-> 0, tried |-> {}]
Goto(c, l, to) == pc' = [pc EXCEPT ![c] = l] /\ loc' = [loc EXCEPT ![c] = to]

\* What a dequeue of up to max items from p may give.
Given(c, p, max) ==
    LET n == IF size[p] < max THEN size[p] ELSE max
    IN  IF \E d \in Consumers \ {c} : pc[d] /= "idle" THEN 0 .. n ELSE {n}

Take(p, n) == size' = [size EXCEPT ![p] = @ - n]

\* The consumer has its items, or goes home without.
Done(c, l) == Goto(c, IF l.count > 0 THEN "idle" ELSE "failed", IF l.count > 0 THEN Blank ELSE l)

-----------------------------------------------------------------------------
(* add_producer, enqueue *)

CountProducer ==
    /\ producerCount = list /\ list < MaxProducers
    /\ producerCount' = producerCount + 1
    /\ UNCHANGED <<list, size, enqueued, globalOffset, token, pc, loc>>

ListProducer ==
    /\ producerCount > list
    /\ list' = list + 1
    /\ UNCHANGED <<producerCount, size, enqueued, globalOffset, token, pc, loc>>

Enqueue(p) ==
    /\ p <= list /\ enqueued < MaxItems
    /\ size' = [size EXCEPT ![p] = @ + 1]
    /\ enqueued' = enqueued + 1
    /\ UNCHANGED <<list, producerCount, globalOffset, token, pc, loc>>

-----------------------------------------------------------------------------
(* try_dequeue(token, item), try_dequeue_bulk(token, items, max) *)

Call(c, max, bulk) ==
    LET t == token[c]
        l == [Blank EXCEPT !.max = max, !.bulk = bulk, !.listed = list]
    IN  /\ pc[c] = "idle"
        /\ Goto(c, IF t.desired = nullptr \/ t.lastKnown /= globalOffset THEN "tail" ELSE "current", l)
        /\ UNCHANGED <<queue, token>>

\* update_current_producer_after_rotation: the tail, then the count, then the offset.
LoadTail(c) ==
    /\ pc[c] = "tail"
    /\ IF token[c].desired = nullptr /\ list = nullptr THEN Done(c, loc[c])
       ELSE Goto(c, "count", [loc[c] EXCEPT !.tail = list])
    /\ UNCHANGED <<queue, token>>

LoadCount(c) ==
    /\ pc[c] = "count"
    /\ Goto(c, "rotate", [loc[c] EXCEPT !.bestSize = producerCount])
    /\ UNCHANGED <<queue, token>>
\* n producers on from p, from the end of the list to its tail.
Onwards(p, n, tail) ==
    LET f[i \in 0 .. n] == IF i = 0 THEN p
                           ELSE IF next_prod(f[i - 1]) = nullptr THEN tail ELSE next_prod(f[i - 1])
    IN  f[n]

Desired(t, tail, count, offset) ==
    LET first == IF t.desired /= nullptr THEN t.desired
                 ELSE Onwards(tail, count - 1 - (t.initialOffset % count), tail)
        delta == (offset - t.lastKnown) % OffsetRange
    IN  Onwards(first, delta % count, tail)

Rotate(c) ==
    LET d == Desired(token[c], loc[c].tail, loc[c].bestSize, globalOffset) IN
    /\ pc[c] = "rotate"
    /\ token' = [token EXCEPT ![c].desired = d, ![c].current = d, ![c].lastKnown = globalOffset,
                              ![c].consumed = 0,
                              ![c].first = IF token[c].desired = nullptr THEN loc[c].tail ELSE @]
    /\ Goto(c, "current", [loc[c] EXCEPT !.tail = nullptr, !.bestSize = 0])
    /\ UNCHANGED queue

\* A single dequeue raises the offset when the quota is reached exactly; a bulk one
\* that got all it asked for, when it is reached or passed.
Due(bulk, consumed) == IF bulk THEN consumed >= QUOTA ELSE consumed = QUOTA

Current(c) ==
    LET l == loc[c]
        p == token[c].current
    IN  /\ pc[c] = "current"
        /\ \E n \in Given(c, p, l.max) :
              LET consumed == token[c].consumed + n
                  all == n = l.max
              IN  /\ Take(p, n)
                  /\ token' = [token EXCEPT ![c].consumed = consumed]
                  /\ globalOffset' = IF all /\ Due(l.bulk, consumed)
                                     THEN (globalOffset + 1) % OffsetRange ELSE globalOffset
                  /\ IF all THEN Goto(c, "idle", Blank)
                     ELSE Goto(c, "list", [l EXCEPT !.max = @ - n, !.count = n, !.tried = {p}])
        /\ UNCHANGED <<list, producerCount, enqueued>>

LoadList(c) ==
    LET from == next_prod(token[c].current) IN
    /\ pc[c] = "list"
    /\ Goto(c, "walk", [loc[c] EXCEPT !.tail = list, !.ptr = IF from = nullptr THEN list ELSE from])
    /\ UNCHANGED <<queue, token>>

\* Round to the current producer, which is the last one that had items.
Walk(c) ==
    LET l == loc[c] IN
    /\ pc[c] = "walk"
    /\ IF l.ptr = token[c].current
       THEN Done(c, l) /\ UNCHANGED <<size, token>>
       ELSE \E n \in Given(c, l.ptr, l.max) :
              /\ Take(l.ptr, n)
              /\ token' = IF n = 0 THEN token
                          ELSE [token EXCEPT ![c].current = l.ptr, ![c].consumed = n]
              /\ IF n = l.max THEN Goto(c, "idle", Blank)
                 ELSE Goto(c, "walk", [l EXCEPT !.max = @ - n, !.count = @ + n,
                                                !.tried = @ \cup {l.ptr},
                                                !.ptr = Onwards(@, 1, l.tail)])
    /\ UNCHANGED <<list, producerCount, enqueued, globalOffset>>

-----------------------------------------------------------------------------
(* try_dequeue(item), try_dequeue_non_interleaved, try_dequeue_bulk(items, max) *)

CallPlain(c, max, scored) ==
    /\ pc[c] = "idle"
    /\ Goto(c, IF scored THEN "score" ELSE "each",
            [Blank EXCEPT !.max = max, !.listed = list, !.ptr = list])
    /\ UNCHANGED <<queue, token>>

\* Looks for the longest of up to three queues that are not empty.
Score(c) ==
    LET l == loc[c]
        n == IF l.ptr = nullptr THEN 0 ELSE size[l.ptr]
    IN  /\ pc[c] = "score"
        /\ IF l.ptr = nullptr \/ l.count = 3
           THEN IF l.count = 0 THEN Done(c, l)
                ELSE Goto(c, "best", [l EXCEPT !.count = 0, !.bestSize = 0, !.ptr = nullptr])
           ELSE Goto(c, "score", [l EXCEPT !.ptr = next_prod(@),
                    !.count = IF n > 0 THEN @ + 1 ELSE @,
                    !.best = IF n > l.bestSize THEN l.ptr ELSE @,
                    !.bestSize = IF n > @ THEN n ELSE @,
                    !.tried = IF n = 0 THEN @ \cup {l.ptr} ELSE @])
        /\ UNCHANGED <<queue, token>>

Best(c) ==
    LET l == loc[c] IN
    /\ pc[c] = "best"
    /\ \E n \in Given(c, l.best, 1) :
          /\ Take(l.best, n)
          /\ IF n = 1 THEN Goto(c, "idle", Blank)
             ELSE Goto(c, "each", [l EXCEPT !.ptr = list, !.tried = @ \cup {l.best}])
    /\ UNCHANGED <<list, producerCount, enqueued, globalOffset, token>>

\* The best one is not skipped, but the one after it.
SkipMutant(l) == next_prod(l.ptr) = l.best

Skip(l) == l.ptr = l.best

\* Each producer of the list, but the one already tried.
Each(c) ==
    LET l == loc[c] IN
    /\ pc[c] = "each"
    /\ IF l.ptr = nullptr THEN Done(c, l) /\ UNCHANGED size
       ELSE IF Skip(l) THEN Goto(c, "each", [l EXCEPT !.ptr = next_prod(@)]) /\ UNCHANGED size
       ELSE \E n \in Given(c, l.ptr, l.max) :
              /\ Take(l.ptr, n)
              /\ IF n = l.max THEN Goto(c, "idle", Blank)
                 ELSE Goto(c, "each", [l EXCEPT !.ptr = next_prod(@), !.max = @ - n, !.count = @ + n,
                                                !.tried = @ \cup {l.ptr}])
    /\ UNCHANGED <<list, producerCount, enqueued, globalOffset, token>>

Return(c) ==
    /\ pc[c] = "failed"
    /\ Goto(c, "idle", Blank)
    /\ UNCHANGED <<queue, token>>

-----------------------------------------------------------------------------
Init ==
    /\ list = 0 /\ producerCount = 0 /\ enqueued = 0 /\ globalOffset = 0
    /\ size = [p \in 1 .. MaxProducers |-> 0]
    /\ token = [c \in Consumers |-> [initialOffset |-> c, lastKnown |-> OffsetRange - 1,
                                     consumed |-> 0, current |-> nullptr, desired |-> nullptr,
                                     first |-> 0]]
    /\ pc = [c \in Consumers |-> "idle"] /\ loc = [c \in Consumers |-> Blank]

try_dequeue(c) ==
    Call(c, 1, FALSE) \/ (\E max \in 1 .. MaxBulk : Call(c, max, TRUE))
        \/ LoadTail(c) \/ LoadCount(c) \/ Rotate(c) \/ Current(c) \/ LoadList(c) \/ Walk(c)

try_dequeue_plain(c) ==
    CallPlain(c, 1, TRUE) \/ (\E max \in 1 .. MaxBulk : CallPlain(c, max, FALSE))
        \/ Score(c) \/ Best(c) \/ Each(c)

Next ==
    \/ CountProducer \/ ListProducer \/ \E p \in 1 .. MaxProducers : Enqueue(p)
    \/ \E c \in Consumers : try_dequeue(c) \/ try_dequeue_plain(c) \/ Return(c)

Spec == Init /\ [][Next]_vars

-----------------------------------------------------------------------------
TypeOK ==
    /\ size \in [1 .. MaxProducers -> 0 .. MaxItems] /\ list \in 0 .. producerCount
    /\ globalOffset \in 0 .. OffsetRange - 1
    /\ \A c \in Consumers : token[c].current \in 0 .. list /\ token[c].desired \in 0 .. list
    /\ \A c \in Consumers : pc[c] \in {"current", "list", "walk"} => token[c].current /= nullptr

\* A dequeue of any kind comes back empty-handed only after every producer that
\* was in the list when it was called has appeared empty to it at some time
\* during the call, while producers come and items move.
FailsAfterAll ==
    \A c \in Consumers : pc[c] = "failed" => 1 .. loc[c].listed \subseteq loc[c].tried

\* "Every 256 items from one producer, make everyone rotate": a token that has
\* consumed its quota from the producer it is at sees that the global offset has
\* changed, and moves on at the next dequeue.
RotatesAtQuota ==
    \A c \in Consumers :
        pc[c] = "idle" /\ token[c].consumed >= QUOTA => token[c].lastKnown /= globalOffset

\* Tokens keep apart: as long as no producer is added, two tokens that have seen
\* the same rotations are designated different producers, whenever each of them
\* took notice of the rotations.
Apart ==
    \A c, d \in Consumers :
        LET s == token[c]
            t == token[d]
        IN  /\ list > 0 /\ s.initialOffset % list /= t.initialOffset % list
            /\ s.lastKnown = t.lastKnown
            /\ producerCount = list /\ s.first = list /\ t.first = list
            => s.desired /= t.desired
=============================================================================
