------------------------ MODULE ImplicitProducerHash ------------------------
(* ConcurrentQueue::get_or_add_implicit_producer (concurrentqueue.h): each thread
   that enqueues without a token finds its producer in a chain of hash tables
   that grows and never shrinks, or adds one. With
   MOODYCAMEL_CPP11_THREAD_LOCAL_SUPPORTED (off by default) a thread that exits
   leaves its slots and its producer to be used again. Every access to an atomic
   is a step, and the memory is interleaved. Thread ids hash to themselves. *)
EXTENDS Integers, Sequences, FiniteSets

CONSTANTS Threads,             \* thread ids, a set of naturals
          INITIAL_IMPLICIT_PRODUCER_HASH_SIZE,
          THREAD_LOCAL_SUPPORTED,
          MaxTables,           \* tables malloc gives
          MaxProducers,        \* producers create gives
          MaxLive              \* threads that run at the same time

invalid_thread_id == -1
invalid_thread_id2 == -2
nullptr == 0

VARIABLES
    tables,       \* [capacity, key, value]; the main one last, prev before it
    hashCount,    \* implicitProducerHashCount
    resizing,     \* implicitProducerHashResizeInProgress
    inactive,     \* per producer, in the order of the list from its end
    live,         \* the threads that run
    got,          \* what each of them was given
    pc, loc       \* where it is and its locals

shared == <<tables, hashCount, resizing, inactive>>
vars == <<shared, live, got, pc, loc>>

Blank == [main |-> 0, hash |-> 0, index |-> 0, count |-> 0, value |-> nullptr, then |-> "idle"]
Goto(t, l, to) == pc' = [pc EXCEPT ![t] = l] /\ loc' = [loc EXCEPT ![t] = to]
Return(t, value) ==
    /\ pc' = [pc EXCEPT ![t] = "idle"] /\ loc' = [loc EXCEPT ![t] = Blank]
    /\ got' = [got EXCEPT ![t] = IF value = nullptr THEN @ ELSE value]

Empty(n) == [capacity |-> n, key |-> [i \in 0 .. n - 1 |-> invalid_thread_id],
             value |-> [i \in 0 .. n - 1 |-> nullptr]]

-----------------------------------------------------------------------------
Call(t) ==
    /\ pc[t] = "idle" /\ t \in live
    /\ Goto(t, "find", [Blank EXCEPT !.main = Len(tables), !.hash = Len(tables), !.index = t])
    /\ UNCHANGED <<shared, live, got>>

\* Looks in the main table only.
FindMutant(t) ==
    LET l == loc[t]
        h == tables[l.hash]
        i == l.index % h.capacity
    IN  /\ pc[t] = "find"
        /\ CASE h.key[i] = t -> Return(t, h.value[i])
             [] h.key[i] = invalid_thread_id ->
                    Goto(t, "count", [l EXCEPT !.index = t]) /\ UNCHANGED got
             [] OTHER -> Goto(t, "find", [l EXCEPT !.index = i + 1]) /\ UNCHANGED got
        /\ UNCHANGED <<shared, live>>

\* A probe for the id: found, or not in this table, or the next slot.
Find(t) ==
    LET l == loc[t]
        h == tables[l.hash]
        i == l.index % h.capacity
    IN  /\ pc[t] = "find"
        /\ CASE h.key[i] = t /\ l.hash = l.main -> Return(t, h.value[i])
             [] h.key[i] = t /\ l.hash /= l.main ->
                    /\ Goto(t, "place", [l EXCEPT !.index = t, !.value = h.value[i]])
                    /\ UNCHANGED got
             [] h.key[i] = invalid_thread_id ->
                    /\ Goto(t, IF l.hash > 1 THEN "find" ELSE "count",
                            [l EXCEPT !.hash = @ - 1, !.index = t])
                    /\ UNCHANGED got
             [] OTHER -> Goto(t, "find", [l EXCEPT !.index = i + 1]) /\ UNCHANGED got
        /\ UNCHANGED <<shared, live>>

Count(t) ==
    /\ pc[t] = "count"
    /\ hashCount' = hashCount + 1
    /\ Goto(t, "grow", [loc[t] EXCEPT !.count = hashCount + 1, !.hash = 0])
    /\ UNCHANGED <<tables, resizing, inactive, live, got>>

Half(n) == tables[n].capacity \div 2

\* test_and_set, if the table is half full.
Grow(t) ==
    LET l == loc[t] IN
    /\ pc[t] = "grow"
    /\ IF l.count >= Half(l.main) /\ ~resizing
       THEN resizing' = TRUE /\ Goto(t, "resize", l)
       ELSE UNCHANGED resizing /\ Goto(t, "fits", l)
    /\ UNCHANGED <<tables, hashCount, inactive, live, got>>

NewCapacity(count, n) ==
    CHOOSE m \in {n * 2 ^ k : k \in 1 .. count + 1} :
        /\ count < m \div 2
        /\ \A k \in 1 .. count + 1 : count < (n * 2 ^ k) \div 2 => m <= n * 2 ^ k

\* The lock is kept when there is no memory.
ResizeMutant(t) ==
    LET l == loc[t] IN
    /\ pc[t] = "resize"
    /\ IF l.count < Half(Len(tables))
       THEN /\ Goto(t, "fits", [l EXCEPT !.main = Len(tables)])
            /\ resizing' = FALSE /\ UNCHANGED <<hashCount, got>>
       ELSE hashCount' = hashCount - 1 /\ Return(t, nullptr) /\ UNCHANGED resizing
    /\ UNCHANGED <<tables, inactive, live>>

\* With the resize lock: reload the table, and replace it if it is still too small.
Resize(t) ==
    LET l == loc[t] IN
    /\ pc[t] = "resize"
    /\ resizing' = FALSE
    /\ \/ /\ l.count < Half(Len(tables))
          /\ Goto(t, "fits", [l EXCEPT !.main = Len(tables)])
          /\ UNCHANGED <<tables, hashCount, got>>
       \/ /\ l.count >= Half(Len(tables)) /\ Len(tables) < MaxTables
          /\ tables' = Append(tables, Empty(NewCapacity(l.count, tables[Len(tables)].capacity)))
          /\ Goto(t, "fits", [l EXCEPT !.main = Len(tables')])
          /\ UNCHANGED <<hashCount, got>>
       \/ /\ l.count >= Half(Len(tables)) /\ Len(tables) = MaxTables
          /\ hashCount' = hashCount - 1
          /\ Return(t, nullptr)
          /\ UNCHANGED tables
    /\ UNCHANGED <<inactive, live>>

Room(count, n) == count < Half(n) + tables[n].capacity \div 4

\* Below three quarters the old table will do; else wait for the new one.
Fits(t) ==
    LET l == loc[t] IN
    /\ pc[t] = "fits"
    /\ IF Room(l.count, l.main)
       THEN Goto(t, "recycle", [l EXCEPT !.index = Len(inactive)])
       ELSE Goto(t, "grow", [l EXCEPT !.main = Len(tables)])
    /\ UNCHANGED <<shared, live, got>>

\* recycle_or_create_producer: down the list, then a new one at its end.
Recycle(t) ==
    LET l == loc[t] IN
    /\ pc[t] = "recycle"
    /\ IF l.index > 0
       THEN IF inactive[l.index]
            THEN /\ inactive' = [inactive EXCEPT ![l.index] = FALSE]
                 /\ Goto(t, "uncount", [l EXCEPT !.value = l.index, !.then = "place"])
            ELSE Goto(t, "recycle", [l EXCEPT !.index = @ - 1]) /\ UNCHANGED inactive
       ELSE IF Len(inactive) < MaxProducers
            THEN /\ inactive' = Append(inactive, FALSE)
                 /\ Goto(t, "place", [l EXCEPT !.value = Len(inactive'), !.index = t])
            ELSE Goto(t, "uncount", [l EXCEPT !.then = "idle"]) /\ UNCHANGED inactive
    /\ UNCHANGED <<tables, hashCount, resizing, live, got>>

\* A producer used again, or no memory for one.
Uncount(t) ==
    /\ pc[t] = "uncount"
    /\ hashCount' = hashCount - 1
    /\ IF loc[t].then = "idle" THEN Return(t, nullptr)
       ELSE Goto(t, "place", [loc[t] EXCEPT !.index = t]) /\ UNCHANGED got
    /\ UNCHANGED <<tables, resizing, inactive, live>>

Free(key) == key = invalid_thread_id \/ (THREAD_LOCAL_SUPPORTED /\ key = invalid_thread_id2)

\* A probe for a slot of the main table; compare_exchange, then the value, which
\* only this thread reads.
Place(t) ==
    LET l == loc[t]
        i == l.index % tables[l.main].capacity
    IN  /\ pc[t] = "place"
        /\ IF Free(tables[l.main].key[i])
           THEN /\ tables' = [tables EXCEPT ![l.main].key[i] = t, ![l.main].value[i] = l.value]
                /\ Return(t, l.value)
           ELSE Goto(t, "place", [l EXCEPT !.index = i + 1]) /\ UNCHANGED <<tables, got>>
        /\ UNCHANGED <<hashCount, resizing, inactive, live>>

-----------------------------------------------------------------------------
(* implicit_producer_thread_exited *)

Exit(t) ==
    /\ THREAD_LOCAL_SUPPORTED /\ pc[t] = "idle" /\ t \in live /\ got[t] /= nullptr
    /\ Goto(t, "leave", [Blank EXCEPT !.hash = Len(tables), !.index = t])
    /\ UNCHANGED <<shared, live, got>>

\* A probe for the id, in every table.
Leave(t) ==
    LET l == loc[t]
        i == l.index % tables[l.hash].capacity
        found == tables[l.hash].key[i] = t
        done == found \/ tables[l.hash].key[i] = invalid_thread_id
    IN  /\ pc[t] = "leave"
        /\ tables' = IF found THEN [tables EXCEPT ![l.hash].key[i] = invalid_thread_id2] ELSE tables
        /\ IF ~done THEN Goto(t, "leave", [l EXCEPT !.index = i + 1])
           ELSE Goto(t, IF l.hash > 1 THEN "leave" ELSE "deactivate",
                     [l EXCEPT !.hash = @ - 1, !.index = t])
        /\ UNCHANGED <<hashCount, resizing, inactive, live, got>>

Deactivate(t) ==
    /\ pc[t] = "deactivate"
    /\ inactive' = [inactive EXCEPT ![got[t]] = TRUE]
    /\ got' = [got EXCEPT ![t] = nullptr]
    /\ live' = live \ {t}
    /\ Goto(t, "idle", Blank)
    /\ UNCHANGED <<tables, hashCount, resizing>>

\* A thread with this id starts.
Start(t) ==
    /\ t \notin live /\ Cardinality(live) < MaxLive
    /\ live' = live \cup {t}
    /\ UNCHANGED <<shared, got, pc, loc>>

-----------------------------------------------------------------------------
Init ==
    /\ tables = <<Empty(INITIAL_IMPLICIT_PRODUCER_HASH_SIZE)>>
    /\ hashCount = 0 /\ resizing = FALSE /\ inactive = <<>> /\ live = {}
    /\ got = [t \in Threads |-> nullptr]
    /\ pc = [t \in Threads |-> "idle"] /\ loc = [t \in Threads |-> Blank]

get_or_add_implicit_producer(t) ==
    \/ Find(t) \/ Count(t) \/ Grow(t) \/ Resize(t) \/ Fits(t) \/ Recycle(t) \/ Uncount(t) \/ Place(t)

implicit_producer_thread_exited(t) == Leave(t) \/ Deactivate(t)

Next == \E t \in Threads :
    \/ Start(t) \/ Call(t) \/ get_or_add_implicit_producer(t)
    \/ Exit(t) \/ implicit_producer_thread_exited(t)

Spec == Init /\ [][Next]_vars

-----------------------------------------------------------------------------
TypeOK ==
    /\ hashCount \in 0 .. 2 * Cardinality(Threads) /\ resizing \in BOOLEAN
    /\ inactive \in Seq(BOOLEAN) /\ Len(inactive) <= MaxProducers
    /\ got \in [Threads -> 0 .. MaxProducers] /\ live \subseteq Threads
    /\ \A n \in DOMAIN tables : tables[n].value \in [0 .. tables[n].capacity - 1 -> 0 .. MaxProducers]

\* No two threads that run are given the same producer, which only one thread may
\* use at a time, however the tables grew and whichever slots and producers were
\* used again.
NotShared ==
    \A t, u \in live : t /= u /\ got[t] /= nullptr => got[t] /= got[u]

\* What every step keeps: a thread is given the same producer at every call; it finds its id in the main
\* table or in an older one, and so its items stay in order.
SameProducer ==
    \A t \in Threads : got[t] /= nullptr /\ t \in live' => got'[t] = got[t]

\* In every table at least one slot is empty: the search for an id that is not
\* there ends ("Not an infinite loop because at least one slot is free in the
\* hash table").
SlotIsFree ==
    \A n \in DOMAIN tables : \E i \in DOMAIN tables[n].key : tables[n].key[i] = invalid_thread_id
=============================================================================
