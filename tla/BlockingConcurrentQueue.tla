----------------------- MODULE BlockingConcurrentQueue -----------------------
(* blockingconcurrentqueue.h: a ConcurrentQueue of which only the number of
   items is kept, and the LightweightSemaphore that counts them: m_count, which
   is below zero by the number of consumers that must be woken, and the kernel
   semaphore they sleep on. A load and the compare_exchange that succeeds after
   it are one step; the spinning before fetch_sub is a choice to go on. *)
EXTENDS Integers, FiniteSets

CONSTANTS Producers, Consumers, MaxItems, MaxBulk

VARIABLES
    items,        \* in the inner queue
    enqueued,
    m_count, m_sema,
    posts,        \* of each producer: sem_post calls still to make
    unsignalled,  \* of each producer: items enqueued and not yet signalled
    pc,           \* of each consumer
    call          \* of each consumer: kind, max, the permits got, the items to take

vars == <<items, enqueued, m_count, m_sema, posts, unsignalled, pc, call>>
sema == <<m_count, m_sema>>
producers == <<enqueued, posts, unsignalled>>

Kinds == {"try", "wait", "timed"}
Blank == [kind |-> "try", max |-> 0, got |-> 0]
SmallerOf(a, b) == IF a < b THEN a ELSE b
Goto(c, l, to) == pc' = [pc EXCEPT ![c] = l] /\ call' = [call EXCEPT ![c] = to]

-----------------------------------------------------------------------------
(* enqueue, enqueue_bulk, try_enqueue, try_enqueue_bulk; signal *)

Enqueue(p, n) ==
    /\ posts[p] = 0 /\ unsignalled[p] = 0 /\ enqueued + n <= MaxItems
    /\ items' = items + n
    /\ enqueued' = enqueued + n
    /\ unsignalled' = [unsignalled EXCEPT ![p] = n]
    /\ UNCHANGED <<sema, posts, pc, call>>

\* Releases only one of the sleepers.
OneMutant(count, n) == IF count < 0 THEN 1 ELSE 0

ToRelease(count, n) == IF count < 0 THEN SmallerOf(-count, n) ELSE 0

Signal(p) ==
    /\ unsignalled[p] > 0
    /\ m_count' = m_count + unsignalled[p]
    /\ posts' = [posts EXCEPT ![p] = ToRelease(m_count, unsignalled[p])]
    /\ unsignalled' = [unsignalled EXCEPT ![p] = 0]
    /\ UNCHANGED <<items, enqueued, m_sema, pc, call>>

Post(p) ==
    /\ posts[p] > 0
    /\ m_sema' = m_sema + 1
    /\ posts' = [posts EXCEPT ![p] = @ - 1]
    /\ UNCHANGED <<items, enqueued, m_count, unsignalled, pc, call>>

-----------------------------------------------------------------------------
(* try_dequeue, wait_dequeue, wait_dequeue_timed and their bulk forms *)

Call(c, kind, max) ==
    /\ pc[c] = "idle"
    /\ Goto(c, "tryWait", [Blank EXCEPT !.kind = kind, !.max = max])
    /\ UNCHANGED <<items, sema, producers>>

\* tryWait, tryWaitMany: what there is, up to max.
TryWait(c) ==
    LET n == SmallerOf(m_count, call[c].max) IN
    /\ pc[c] = "tryWait"
    /\ IF n > 0
       THEN m_count' = m_count - n /\ Goto(c, "take", [call[c] EXCEPT !.got = @ + n])
       ELSE /\ UNCHANGED m_count
            /\ IF call[c].got > 0 THEN Goto(c, "take", call[c])
               ELSE IF call[c].kind = "try" THEN Goto(c, "idle", Blank)
               ELSE Goto(c, "spin", call[c])
    /\ UNCHANGED <<items, m_sema, producers>>

\* waitWithPartialSpinning, waitManyWithPartialSpinning: succeeds while spinning.
Spin(c) ==
    LET n == SmallerOf(m_count, call[c].max) IN
    /\ pc[c] = "spin" /\ n > 0
    /\ m_count' = m_count - n
    /\ Goto(c, "take", [call[c] EXCEPT !.got = n])
    /\ UNCHANGED <<items, m_sema, producers>>

\* One permit; tryWaitMany for the others.
GotOne(c) ==
    Goto(c, IF call[c].max > 1 THEN "tryWait" ELSE "take",
         [call[c] EXCEPT !.got = 1, !.max = @ - 1])

FetchSub(c) ==
    /\ pc[c] = "spin"
    /\ m_count' = m_count - 1
    /\ IF m_count > 0 THEN GotOne(c) ELSE Goto(c, "sleep", call[c])
    /\ UNCHANGED <<items, m_sema, producers>>

Woken(c) ==
    /\ pc[c] = "sleep" /\ m_sema > 0
    /\ m_sema' = m_sema - 1
    /\ GotOne(c)
    /\ UNCHANGED <<items, m_count, producers>>

TimedOut(c) ==
    /\ pc[c] = "sleep" /\ call[c].kind = "timed"
    /\ Goto(c, "adjust", call[c])
    /\ UNCHANGED <<items, sema, producers>>

\* Gives up without looking whether it was signalled meanwhile.
AdjustMutant(c) ==
    /\ pc[c] = "adjust"
    /\ m_count' = m_count + 1
    /\ Goto(c, "idle", Blank)
    /\ UNCHANGED <<items, m_sema, producers>>

\* Takes itself back from the count if that is below zero.
Adjust(c) ==
    /\ pc[c] = "adjust"
    /\ IF m_count < 0 THEN m_count' = m_count + 1 /\ Goto(c, "idle", Blank)
       ELSE UNCHANGED m_count /\ Goto(c, "signalled", call[c])
    /\ UNCHANGED <<items, m_sema, producers>>

\* It was not: the permit is posted, or will be.
Signalled(c) ==
    /\ pc[c] = "signalled"
    /\ IF m_sema > 0 THEN m_sema' = m_sema - 1 /\ GotOne(c)
       ELSE UNCHANGED m_sema /\ Goto(c, "adjust", call[c])
    /\ UNCHANGED <<items, m_count, producers>>

\* The loop round the inner queue's dequeue, which may give less than there is
\* while others are dequeuing.
Take(c, n) ==
    LET l == call[c] IN
    /\ pc[c] = "take" /\ n <= SmallerOf(items, l.got)
    /\ n < SmallerOf(items, l.got) => \E d \in Consumers \ {c} : pc[d] = "take"
    /\ items' = items - n
    /\ IF n = l.got THEN Goto(c, "idle", Blank)
       ELSE Goto(c, "take", [l EXCEPT !.got = @ - n])
    /\ UNCHANGED <<sema, producers>>

-----------------------------------------------------------------------------
Init ==
    /\ items = 0 /\ enqueued = 0 /\ m_count = 0 /\ m_sema = 0
    /\ posts = [p \in Producers |-> 0] /\ unsignalled = posts
    /\ pc = [c \in Consumers |-> "idle"] /\ call = [c \in Consumers |-> Blank]

enqueue(p) == (\E n \in 1 .. MaxBulk : Enqueue(p, n)) \/ Signal(p) \/ Post(p)

Waiting(c) ==
    TryWait(c) \/ Spin(c) \/ FetchSub(c) \/ Woken(c) \/ Adjust(c) \/ Signalled(c)

dequeue(c) ==
    \/ \E kind \in Kinds, max \in 1 .. MaxBulk : Call(c, kind, max)
    \/ Waiting(c) \/ TimedOut(c) \/ \E n \in 0 .. MaxBulk : Take(c, n)

Next == (\E p \in Producers : enqueue(p)) \/ (\E c \in Consumers : dequeue(c))

Spec == Init /\ [][Next]_vars

-----------------------------------------------------------------------------
TypeOK ==
    /\ items \in 0 .. MaxItems /\ m_sema \in Nat
    /\ m_count \in -Cardinality(Consumers) .. MaxItems
    /\ \A c \in Consumers : call[c].got \in 0 .. MaxBulk /\ call[c].max \in 0 .. MaxBulk

\* The sum of the f[x], counted: each x with each of its f[x].
Total(f, S) == Cardinality(UNION {{x} \X (1 .. f[x]) : x \in S})
Need == [c \in Consumers |-> IF pc[c] \in {"take", "tryWait"} THEN call[c].got ELSE 0]
Waiters == {c \in Consumers : pc[c] \in {"sleep", "adjust", "signalled"}}

\* A consumer that has got its permits, by whichever of the ways, finds as many
\* items: the loop round the inner dequeue never waits for an item nobody has
\* enqueued, whoever timed out and whoever took the last permit.
PermitsAreItems == items >= Total(Need, Consumers)

\* The kernel semaphore has, or is about to get, one post for each consumer that
\* has decremented the count and that the count no longer owes: none is lost,
\* and none is left over to wake a later sleeper for nothing.
PostsMatch ==
    m_sema + Total(posts, Producers)
        = Cardinality(Waiters) + (IF m_count < 0 THEN m_count ELSE 0)

\* No permit is lost by timeouts that race with signals: when nobody is in a
\* call, the count is the number of items.
CountIsItems ==
    (\A c \in Consumers : pc[c] = "idle") /\ Total(unsignalled, Producers) = 0 => m_count = items
=============================================================================
