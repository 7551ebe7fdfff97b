----------------------------- MODULE BlockPool -----------------------------
(* The blocks of ConcurrentQueue (concurrentqueue.h): requisition_block takes
   one from the initial pool, then from the lock-free free list, then from the
   heap; add_block_to_free_list gives it back. FreeList is modelled at the
   grain of its atomic operations, in one interleaved memory: a thread may stop
   between any two of them. An owner is a thread that holds the block, for its
   producer. *)
EXTENDS Integers, FiniteSets

CONSTANTS Threads,            \* callers of the queue
          initialBlockPoolSize, \* blocks of the pool: 1 .. initialBlockPoolSize
          MaxCreated,         \* blocks that malloc gives: bound
          canAlloc            \* allocation mode of requisition_block

nullptr == 0
Blocks == 1 .. initialBlockPoolSize + MaxCreated

\* The top bit of freeListRefs: here the top one of a positive integer of TLC.
SHOULD_BE_ON_FREELIST == 1073741824
REFS_MASK(refs) == refs % SHOULD_BE_ON_FREELIST

VARIABLES
    initialBlockPoolIndex, created,
    freeListHead, freeListRefs, freeListNext,
    owner,                    \* the thread that holds a block, or nullptr
    pc, loc                   \* per thread: place and locals

shared == <<initialBlockPoolIndex, created, freeListHead, freeListRefs, freeListNext, owner>>
vars == <<shared, pc, loc>>

Locals == [head: Blocks \cup {nullptr}, prevHead: Blocks \cup {nullptr},
           node: Blocks \cup {nullptr}, next: Blocks \cup {nullptr},
           refs: Nat, in: {"add", "try_get"}]
Blank == [head |-> nullptr, prevHead |-> nullptr, node |-> nullptr, next |-> nullptr,
          refs |-> 0, in |-> "add"]

Goto(t, l) == pc' = [pc EXCEPT ![t] = l]
Set(t, field, v) == loc' = [loc EXCEPT ![t][field] = v]
Return(t) == pc' = [pc EXCEPT ![t] = "idle"] /\ loc' = [loc EXCEPT ![t] = Blank]
Refs(n, v) == freeListRefs' = [freeListRefs EXCEPT ![n] = v]
pools == <<initialBlockPoolIndex, created>>

-----------------------------------------------------------------------------
(* requisition_block *)

TryPool(t) ==
    /\ pc[t] = "idle"
    /\ Goto(t, IF initialBlockPoolIndex >= initialBlockPoolSize THEN "get" ELSE "pool")
    /\ UNCHANGED <<shared, loc>>

PoolBlock(index) == IF index < initialBlockPoolSize THEN index + 1 ELSE nullptr

TakePool(t) ==
    /\ pc[t] = "pool"
    /\ initialBlockPoolIndex' = initialBlockPoolIndex + 1
    /\ LET b == PoolBlock(initialBlockPoolIndex) IN
           IF b /= nullptr THEN owner' = [owner EXCEPT ![b] = t] /\ Goto(t, "idle")
           ELSE owner' = owner /\ Goto(t, "get")
    /\ UNCHANGED <<created, freeListHead, freeListRefs, freeListNext, loc>>

\* The free list was empty: malloc, or nothing.
Create(t) ==
    /\ pc[t] = "create"
    /\ Goto(t, "idle")
    /\ \/ /\ canAlloc /\ created < MaxCreated
          /\ created' = created + 1
          /\ owner' = [owner EXCEPT ![initialBlockPoolSize + created + 1] = t]
       \/ UNCHANGED <<created, owner>>
    /\ UNCHANGED <<initialBlockPoolIndex, freeListHead, freeListRefs, freeListNext, loc>>

-----------------------------------------------------------------------------
(* FreeList::try_get *)

LoadHead(t) ==
    /\ pc[t] = "get"
    /\ loc' = [loc EXCEPT ![t].head = freeListHead, ![t].in = "try_get"]
    /\ Goto(t, "loop")
    /\ UNCHANGED shared

LoadRefs(t) ==
    /\ pc[t] = "loop"
    /\ IF loc[t].head = nullptr THEN pc' = [pc EXCEPT ![t] = "create"] /\ loc' = [loc EXCEPT ![t] = Blank]
       ELSE LET r == freeListRefs[loc[t].head] IN
            /\ Set(t, "refs", r)
            /\ Goto(t, IF REFS_MASK(r) = 0 THEN "get" ELSE "ref")
    /\ UNCHANGED shared

TakeRef(t) ==
    LET l == loc[t] IN
    /\ pc[t] = "ref"
    /\ Set(t, "refs", 0)
    /\ IF freeListRefs[l.head] = l.refs THEN Refs(l.head, l.refs + 1) /\ Goto(t, "next")
       ELSE Goto(t, "get") /\ UNCHANGED freeListRefs
    /\ UNCHANGED <<pools, freeListHead, freeListNext, owner>>

LoadNext(t) ==
    /\ pc[t] = "next"
    /\ Set(t, "next", freeListNext[loc[t].head])
    /\ Goto(t, "unlink")
    /\ UNCHANGED shared

Unlink(t) ==
    LET l == loc[t] IN
    /\ pc[t] = "unlink"
    /\ IF freeListHead = l.head
       THEN freeListHead' = l.next /\ Goto(t, "got") /\ Set(t, "next", nullptr)
       ELSE /\ loc' = [loc EXCEPT ![t] = [Blank EXCEPT !.prevHead = l.head, !.head = freeListHead,
                                                       !.in = "try_get"]]
            /\ Goto(t, "unref") /\ UNCHANGED freeListHead
    /\ UNCHANGED <<pools, freeListRefs, freeListNext, owner>>

\* Twice: for this thread and for the list.
Got(t) ==
    LET n == loc[t].head IN
    /\ pc[t] = "got"
    /\ Refs(n, freeListRefs[n] - 2)
    /\ owner' = [owner EXCEPT ![n] = t]
    /\ Return(t)
    /\ UNCHANGED <<pools, freeListHead, freeListNext>>

\* Leaves the block to nobody when this was the last reference.
UnrefMutant(t) ==
    LET n == loc[t].prevHead IN
    /\ pc[t] = "unref"
    /\ Refs(n, freeListRefs[n] - 1)
    /\ Goto(t, "loop")
    /\ UNCHANGED <<pools, freeListHead, freeListNext, owner, loc>>

Unref(t) ==
    LET n == loc[t].prevHead IN
    /\ pc[t] = "unref"
    /\ Refs(n, freeListRefs[n] - 1)
    /\ IF freeListRefs[n] = SHOULD_BE_ON_FREELIST + 1
       THEN loc' = [loc EXCEPT ![t].node = n, ![t].prevHead = loc[t].head] /\ Goto(t, "add")
       ELSE Set(t, "prevHead", nullptr) /\ Goto(t, "loop")
    /\ UNCHANGED <<pools, freeListHead, freeListNext, owner>>

-----------------------------------------------------------------------------
(* FreeList::add, and add_knowing_refcount_is_zero. *)

Add(t, n) ==
    /\ pc[t] = "idle" /\ owner[n] = t
    /\ owner' = [owner EXCEPT ![n] = nullptr]
    /\ Refs(n, freeListRefs[n] + SHOULD_BE_ON_FREELIST)
    /\ IF freeListRefs[n] = 0
       THEN loc' = [loc EXCEPT ![t].node = n, ![t].in = "add"] /\ Goto(t, "add")
       ELSE UNCHANGED loc /\ Goto(t, "idle")
    /\ UNCHANGED <<pools, freeListHead, freeListNext>>

\* Called from try_get, prevHead keeps the head that its compare_exchange read.
AddLoad(t) ==
    /\ pc[t] = "add"
    /\ Set(t, "head", freeListHead)
    /\ Goto(t, "setnext")
    /\ UNCHANGED shared

SetNext(t) ==
    /\ pc[t] = "setnext"
    /\ freeListNext' = [freeListNext EXCEPT ![loc[t].node] = loc[t].head]
    /\ Goto(t, "setrefs")
    /\ UNCHANGED <<pools, freeListHead, freeListRefs, owner, loc>>

SetRefs(t) ==
    /\ pc[t] = "setrefs"
    /\ Refs(loc[t].node, 1)
    /\ Goto(t, "link")
    /\ UNCHANGED <<pools, freeListHead, freeListNext, owner, loc>>

\* Back to the caller: try_get goes on with the head it had.
Returns(t) ==
    IF loc[t].in = "add" THEN Return(t)
    ELSE /\ Goto(t, "loop")
         /\ loc' = [loc EXCEPT ![t] = [Blank EXCEPT !.head = loc[t].prevHead, !.in = "try_get"]]

Link(t) ==
    LET l == loc[t] IN
    /\ pc[t] = "link"
    /\ IF freeListHead = l.head
       THEN freeListHead' = l.node /\ Returns(t)
       ELSE Set(t, "head", freeListHead) /\ Goto(t, "again") /\ UNCHANGED freeListHead
    /\ UNCHANGED <<pools, freeListRefs, freeListNext, owner>>

Again(t) ==
    LET n == loc[t].node IN
    /\ pc[t] = "again"
    /\ Refs(n, freeListRefs[n] + SHOULD_BE_ON_FREELIST - 1)
    /\ IF freeListRefs[n] = 1 THEN Goto(t, "setnext") /\ UNCHANGED loc ELSE Returns(t)
    /\ UNCHANGED <<pools, freeListHead, freeListNext, owner>>

-----------------------------------------------------------------------------
Init ==
    /\ initialBlockPoolIndex = 0 /\ created = 0
    /\ freeListHead = nullptr
    /\ freeListRefs = [n \in Blocks |-> 0] /\ freeListNext = [n \in Blocks |-> nullptr]
    /\ owner = [n \in Blocks |-> nullptr]
    /\ pc = [t \in Threads |-> "idle"]
    /\ loc = [t \in Threads |-> Blank]

requisition_block(t) == TryPool(t) \/ TakePool(t) \/ Create(t)
try_get(t) ==
    LoadHead(t) \/ LoadRefs(t) \/ TakeRef(t) \/ LoadNext(t) \/ Unlink(t) \/ Got(t) \/ Unref(t)
add_knowing_refcount_is_zero(t) ==
    AddLoad(t) \/ SetNext(t) \/ SetRefs(t) \/ Link(t) \/ Again(t)

Next ==
    \E t \in Threads :
        \/ requisition_block(t) \/ try_get(t) \/ add_knowing_refcount_is_zero(t)
        \/ \E n \in Blocks : Add(t, n)

Spec == Init /\ [][Next]_vars

-----------------------------------------------------------------------------
TypeOK ==
    /\ initialBlockPoolIndex \in 0 .. initialBlockPoolSize + Cardinality(Threads)
    /\ created \in 0 .. MaxCreated
    /\ freeListHead \in Blocks \cup {nullptr}
    /\ freeListRefs \in [Blocks -> Nat]
    /\ freeListNext \in [Blocks -> Blocks \cup {nullptr}]
    /\ owner \in [Blocks -> Threads \cup {nullptr}]
    /\ DOMAIN pc = Threads /\ loc \in [Threads -> Locals]

\* The blocks on the list that h is the head of: what is in every set that has
\* the head and, with each block, the next one.
Closed(h, next, R) ==
    h \in R \cup {nullptr} /\ \A n \in R : next[n] \in R \cup {nullptr}
Reach(h, next) == {n \in Blocks : \A R \in SUBSET Blocks : Closed(h, next, R) => n \in R}
Listed == Reach(freeListHead, freeListNext)

\* The block a thread is putting on the list, or has just taken off it.
Putting(t) == IF pc[t] \in {"add", "setnext", "setrefs", "link", "again"} THEN {loc[t].node} ELSE {}
Taking(t) == IF pc[t] = "got" THEN {loc[t].head} ELSE {}
Referring(t) == IF pc[t] \in {"next", "unlink"} THEN {loc[t].head}
                ELSE IF pc[t] = "unref" THEN {loc[t].prevHead} ELSE {}
Fresh == {n \in Blocks : IF n <= initialBlockPoolSize THEN n > initialBlockPoolIndex
                         ELSE n > initialBlockPoolSize + created}

Left == {n \in Blocks : freeListRefs[n] > SHOULD_BE_ON_FREELIST
                        /\ \A t \in Threads : n \notin Putting(t)}

Places(n) ==
    {<<"fresh", m>> : m \in {n} \cap Fresh}
        \cup {<<"owned", t>> : t \in {owner[n]} \ {nullptr}}
        \cup {<<"listed", m>> : m \in {n} \cap Listed}
        \cup {<<"put", t>> : t \in {u \in Threads : n \in Putting(u)}}
        \cup {<<"taken", t>> : t \in {u \in Threads : n \in Taking(u)}}
        \cup {<<"left", m>> : m \in {n} \cap Left}

\* A block has one place: never used, with one owner, on the list, on its way
\* to or from it with one thread, or left with its should-be-on-list bit to the
\* threads that still refer to it. No block is handed out twice, none is lost.
OnePlace == \A n \in Blocks : Cardinality(Places(n)) = 1

\* The assertion of try_get: a block just taken off the list is not marked as
\* one that should be on it.
GotNotMarked == \A t \in Threads : \A n \in Taking(t) : freeListRefs[n] < SHOULD_BE_ON_FREELIST

\* A block that a thread refers to keeps a count for each of them and for the
\* list, so that its next pointer cannot change under the thread.
RefsCounted ==
    \A n \in Blocks :
        LET users == Cardinality({t \in Threads : n \in Referring(t)})
            list == IF n \in Listed \cup UNION {Taking(t) : t \in Threads} THEN 1 ELSE 0
            got == Cardinality({t \in Threads : n \in Taking(t)})
            held == IF \E t \in Threads : n \in Putting(t) /\ pc[t] \in {"link", "again"} THEN 1 ELSE 0
        IN  REFS_MASK(freeListRefs[n]) = users + list + got + held
=============================================================================
