--------------------------- MODULE BlockPoolProofs ---------------------------
(* The free list of BlockPool, for any number of blocks and of threads below the
   bit SHOULD_BE_ON_FREELIST. *)
EXTENDS BlockPool, FiniteSetTheorems, TLAPS

\* The threads fit into freeListRefs; nullptr is none of them.
Fitting ==
    /\ IsFiniteSet(Threads) /\ Cardinality(Threads) + 2 < SHOULD_BE_ON_FREELIST
    /\ nullptr \notin Threads
    /\ initialBlockPoolSize \in Nat /\ MaxCreated \in Nat

Ptr == Blocks \cup {nullptr}

---------------------------------------------------------------------------
(* Lists *)

LEMMA ReachLeast ==
    ASSUME NEW h \in Ptr, NEW next \in [Blocks -> Ptr]
    PROVE  /\ Reach(h, next) \subseteq Blocks /\ Closed(h, next, Reach(h, next))
           /\ \A R \in SUBSET Blocks : Closed(h, next, R) => Reach(h, next) \subseteq R
  BY Zenon DEF Reach, Closed, Ptr

\* Only the next pointers of the list matter.
LEMMA ReachKept ==
    ASSUME NEW h \in Ptr, NEW next \in [Blocks -> Ptr], NEW other \in [Blocks -> Ptr],
           \A n \in Reach(h, next) : other[n] = next[n]
    PROVE  Reach(h, other) = Reach(h, next)
<1> DEFINE A == Reach(h, next)
           B == Reach(h, other)
<1>1. /\ A \subseteq Blocks /\ Closed(h, next, A)
      /\ \A R \in SUBSET Blocks : Closed(h, next, R) => A \subseteq R
  BY ReachLeast, Zenon
<1>2. /\ B \subseteq Blocks /\ Closed(h, other, B)
      /\ \A R \in SUBSET Blocks : Closed(h, other, R) => B \subseteq R
  BY ReachLeast, Zenon
<1> HIDE DEF A, B
<1>3. \A n \in A : other[n] = next[n]
  BY Zenon DEF A
<1>4. Closed(h, other, A)
  BY <1>1, <1>3, Zenon DEF Closed
<1>5. B \subseteq A
  BY <1>1, <1>2, <1>4, Zenon
<1>6. Closed(h, next, B)
  BY <1>2, <1>3, <1>5, Zenon DEF Closed
<1>7. A \subseteq B
  BY <1>1, <1>2, <1>6, Zenon
<1> QED BY <1>5, <1>7, Zenon DEF A, B

\* A block whose next is the head, as the new head.
LEMMA ReachPush ==
    ASSUME NEW h \in Ptr, NEW next \in [Blocks -> Ptr], NEW n \in Blocks, next[n] = h
    PROVE  Reach(n, next) = Reach(h, next) \cup {n}
<1> DEFINE A == Reach(h, next)
           B == Reach(n, next)
<1>1. /\ A \subseteq Blocks /\ Closed(h, next, A)
      /\ \A R \in SUBSET Blocks : Closed(h, next, R) => A \subseteq R
  BY ReachLeast, Zenon
<1>2. n \in Ptr
  BY Zenon DEF Ptr
<1>3. /\ B \subseteq Blocks /\ Closed(n, next, B)
      /\ \A R \in SUBSET Blocks : Closed(n, next, R) => B \subseteq R
  BY <1>2, ReachLeast, Zenon
<1> HIDE DEF A, B
<1>4. n /= nullptr
  BY DEF Blocks, nullptr
<1>5. Closed(n, next, A \cup {n})
  BY <1>1, Zenon DEF Closed
<1>6. B \subseteq A \cup {n}
  BY <1>1, <1>3, <1>5, Zenon
<1>7. n \in B /\ Closed(h, next, B)
  BY <1>3, <1>4, Zenon DEF Closed
<1>8. A \subseteq B
  BY <1>1, <1>3, <1>7, Zenon
<1> QED BY <1>6, <1>7, <1>8, Zenon DEF A, B

\* There is no way back along the list.
Ranked(h, next) ==
    \E rank \in [Blocks -> Int] :
        \A n \in Reach(h, next) : next[n] /= nullptr => rank[next[n]] < rank[n]

LEMMA ReachPop ==
    ASSUME NEW h \in Blocks, NEW next \in [Blocks -> Ptr], Ranked(h, next)
    PROVE  Reach(next[h], next) = Reach(h, next) \ {h} /\ Ranked(next[h], next)
<1> DEFINE A == Reach(h, next)
           B == Reach(next[h], next)
<1>1. next[h] \in Ptr
  BY Zenon
<1>2. A = B \cup {h}
  BY <1>1, ReachPush
<1>3. /\ B \subseteq Blocks /\ Closed(next[h], next, B)
      /\ \A R \in SUBSET Blocks : Closed(next[h], next, R) => B \subseteq R
  BY <1>1, ReachLeast, Zenon
<1>4. PICK rank \in [Blocks -> Int] :
          \A n \in A : next[n] /= nullptr => rank[next[n]] < rank[n]
  BY Zenon DEF Ranked
<1>5. Ranked(next[h], next)
  BY <1>2, <1>4, Zenon DEF Ranked
<1> HIDE DEF A, B
<1> DEFINE R == {n \in B : rank[n] < rank[h]}
<1>6. next[h] \in R \cup {nullptr}
  BY <1>2, <1>3, <1>4, Zenon DEF Closed
<1>7. ASSUME NEW n \in R PROVE next[n] \in R \cup {nullptr}
  <2>1. n \in B /\ n \in A /\ rank[n] < rank[h] /\ rank[n] \in Int /\ rank[h] \in Int
    BY <1>2, <1>3, Zenon
  <2>2. CASE next[n] /= nullptr
    <3>1. next[n] \in B /\ rank[next[n]] < rank[n] /\ rank[next[n]] \in Int
      BY <1>3, <1>4, <2>1, <2>2, Zenon DEF Closed
    <3> QED BY <2>1, <3>1
  <2> QED BY <2>2, Zenon
<1>8. B \subseteq R
  BY <1>3, <1>6, <1>7, Zenon DEF Closed
<1>9. h \notin B
  BY <1>8
<1> QED BY <1>2, <1>5, <1>9, Zenon DEF A, B

LEMMA RankPush ==
    ASSUME NEW h \in Ptr, NEW next \in [Blocks -> Ptr], NEW n \in Blocks, next[n] = h,
           n \notin Reach(h, next), Ranked(h, next)
    PROVE  Ranked(n, next)
<1> DEFINE A == Reach(h, next)
<1>1. A \subseteq Blocks /\ Closed(h, next, A)
  BY ReachLeast, Zenon
<1>2. PICK rank \in [Blocks -> Int] :
          \A m \in A : next[m] /= nullptr => rank[next[m]] < rank[m]
  BY Zenon DEF Ranked
<1>3. Reach(n, next) = A \cup {n}
  BY ReachPush
<1> HIDE DEF A
<1> DEFINE above == [rank EXCEPT ![n] = IF h = nullptr THEN 0 ELSE rank[h] + 1]
<1>4. above \in [Blocks -> Int]
  BY DEF Ptr
<1>5. ASSUME NEW m \in A \cup {n}, next[m] /= nullptr PROVE above[next[m]] < above[m]
  <2>1. n \notin A
    BY Zenon DEF A
  <2>2. CASE m \in A
    <3>1. next[m] \in A /\ next[m] /= n /\ m /= n
      BY <1>1, <1>5, <2>1, <2>2, Zenon DEF Closed
    <3> QED BY <1>1, <1>2, <1>5, <2>2, <3>1, Zenon
  <2>3. CASE m = n
    <3>1. next[m] = h /\ h /= nullptr /\ h \in A /\ h /= n
      BY <1>1, <1>5, <2>1, <2>3, Zenon DEF Closed
    <3>2. above[h] = rank[h] /\ above[n] = rank[h] + 1 /\ rank[h] \in Int
      BY <1>1, <3>1, Zenon
    <3> QED BY <2>3, <3>1, <3>2
  <2> QED BY <1>5, <2>2, <2>3, Zenon
<1> HIDE DEF above
<1> QED BY <1>3, <1>4, <1>5, Zenon DEF Ranked

---------------------------------------------------------------------------
(* The inductive invariant *)

Early == {"add", "setnext", "setrefs"}
Late == {"link", "again"}
Pcs == {"idle", "pool", "create", "get", "loop", "ref", "next", "unlink", "got", "unref"}
           \cup Early \cup Late

Types ==
    /\ initialBlockPoolIndex \in Nat /\ created \in Nat /\ created <= MaxCreated
    /\ freeListHead \in Ptr /\ freeListRefs \in [Blocks -> Nat] /\ freeListNext \in [Blocks -> Ptr]
    /\ owner \in [Blocks -> Threads \cup {nullptr}]
    /\ pc \in [Threads -> Pcs] /\ loc \in [Threads -> Locals]

\* What a thread knows at a place l with locals k: the next pointer it has read
\* or written is still the block's.
Knows(l, k) ==
    /\ l \in {"ref", "next", "unlink", "got"} => k.head \in Blocks
    /\ l = "ref" => REFS_MASK(k.refs) /= 0
    /\ l = "unlink" => k.next = freeListNext[k.head]
    /\ l = "unref" => k.prevHead \in Blocks
    /\ l \in Early \cup Late => k.node \in Blocks
    /\ l \in {"setrefs", "link"} => freeListNext[k.node] = k.head
Known == \A t \in Threads : Knows(pc[t], loc[t])

Users(n) == {t \in Threads : n \in Referring(t)}
Putters(n) == {t \in Threads : n \in Putting(t)}
Takers(n) == {t \in Threads : n \in Taking(t)}
Count(n) == Cardinality(Users(n))

\* The places of a block, each with its reference count.
Out(n) == n \notin Fresh /\ owner[n] = nullptr /\ n \notin Listed
Idle(n) ==
    /\ n \in Fresh <=> owner[n] = nullptr
    /\ n \notin Listed /\ Putters(n) = {} /\ Takers(n) = {}
    /\ freeListRefs[n] = Count(n)
OnList(n) ==
    /\ n \notin Fresh /\ owner[n] = nullptr /\ n \in Listed
    /\ Putters(n) = {} /\ Takers(n) = {}
    /\ freeListRefs[n] = Count(n) + 1
Put(n, t) ==
    /\ Out(n) /\ Putters(n) = {t} /\ Takers(n) = {}
    /\ pc[t] \in Early => Users(n) = {} /\ freeListRefs[n] = SHOULD_BE_ON_FREELIST
    /\ pc[t] \in Late => freeListRefs[n] = Count(n) + 1
Taken(n, t) ==
    Out(n) /\ Putters(n) = {} /\ Takers(n) = {t} /\ freeListRefs[n] = Count(n) + 2
LeftOver(n) ==
    /\ Out(n) /\ Putters(n) = {} /\ Takers(n) = {}
    /\ Users(n) /= {} /\ freeListRefs[n] = Count(n) + SHOULD_BE_ON_FREELIST

Block(n) ==
    \/ Idle(n) \/ OnList(n) \/ LeftOver(n)
    \/ \E t \in Threads : Put(n, t) \/ Taken(n, t)
AllBlocks == \A n \in Blocks : Block(n)

Inv == Types /\ Known /\ AllBlocks /\ Ranked(freeListHead, freeListNext)

\* How a step of thread t changes what the threads hold of block n.
Others(t) == \A u \in Threads \ {t} : pc'[u] = pc[u] /\ loc'[u] = loc[u]

LEMMA Sets ==
    ASSUME NEW t \in Threads, Others(t), NEW n \in Blocks
    PROVE  /\ n \in Referring(t)' => Users(n)' = Users(n) \cup {t}
           /\ n \notin Referring(t)' => Users(n)' = Users(n) \ {t}
           /\ n \in Putting(t)' => Putters(n)' = Putters(n) \cup {t}
           /\ n \notin Putting(t)' => Putters(n)' = Putters(n) \ {t}
           /\ n \in Taking(t)' => Takers(n)' = Takers(n) \cup {t}
           /\ n \notin Taking(t)' => Takers(n)' = Takers(n) \ {t}
<1>1. \A u \in Threads \ {t} : Referring(u)' = Referring(u)
  BY Zenon DEF Others, Referring
<1>2. \A u \in Threads \ {t} : Putting(u)' = Putting(u)
  BY Zenon DEF Others, Putting
<1>3. \A u \in Threads \ {t} : Taking(u)' = Taking(u)
  BY Zenon DEF Others, Taking
<1>4. /\ n \in Referring(t)' => Users(n)' = Users(n) \cup {t}
      /\ n \notin Referring(t)' => Users(n)' = Users(n) \ {t}
  BY <1>1 DEF Users
<1>5. /\ n \in Putting(t)' => Putters(n)' = Putters(n) \cup {t}
      /\ n \notin Putting(t)' => Putters(n)' = Putters(n) \ {t}
  BY <1>2 DEF Putters
<1>6. /\ n \in Taking(t)' => Takers(n)' = Takers(n) \cup {t}
      /\ n \notin Taking(t)' => Takers(n)' = Takers(n) \ {t}
  BY <1>3 DEF Takers
<1> QED BY <1>4, <1>5, <1>6, Zenon

\* A block that the step does not concern.
Aside(n, t) ==
    /\ n \in Referring(t)' <=> n \in Referring(t)
    /\ n \in Putting(t)' <=> n \in Putting(t)
    /\ n \in Taking(t)' <=> n \in Taking(t)
    /\ n \in Putting(t) => (pc'[t] \in Early <=> pc[t] \in Early)
    /\ n \in Fresh' <=> n \in Fresh
    /\ n \in Listed' <=> n \in Listed
    /\ owner'[n] = owner[n] /\ freeListRefs'[n] = freeListRefs[n]

LEMMA Frame ==
    ASSUME NEW t \in Threads, Others(t), NEW n \in Blocks, Block(n), Aside(n, t)
    PROVE  Block(n)'
<1>1. Users(n)' = Users(n) /\ Putters(n)' = Putters(n) /\ Takers(n)' = Takers(n)
  <2>1. /\ t \in Users(n) <=> n \in Referring(t)
        /\ t \in Putters(n) <=> n \in Putting(t)
        /\ t \in Takers(n) <=> n \in Taking(t)
    BY Zenon DEF Users, Putters, Takers
  <2>2. /\ n \in Referring(t)' => Users(n)' = Users(n) \cup {t}
        /\ n \notin Referring(t)' => Users(n)' = Users(n) \ {t}
        /\ n \in Putting(t)' => Putters(n)' = Putters(n) \cup {t}
        /\ n \notin Putting(t)' => Putters(n)' = Putters(n) \ {t}
        /\ n \in Taking(t)' => Takers(n)' = Takers(n) \cup {t}
        /\ n \notin Taking(t)' => Takers(n)' = Takers(n) \ {t}
    BY Sets, Zenon
  <2>3. /\ n \in Referring(t)' <=> n \in Referring(t)
        /\ n \in Putting(t)' <=> n \in Putting(t)
        /\ n \in Taking(t)' <=> n \in Taking(t)
    BY Zenon DEF Aside
  <2> QED BY <2>1, <2>2, <2>3, Zenon
<1>2. Count(n)' = Count(n)
  BY <1>1, Zenon DEF Count
<1>3. /\ n \in Fresh' <=> n \in Fresh
      /\ n \in Listed' <=> n \in Listed
      /\ owner'[n] = owner[n] /\ freeListRefs'[n] = freeListRefs[n]
  BY Zenon DEF Aside
<1>4. Out(n)' <=> Out(n)
  BY <1>3, Zenon DEF Out
<1>5. CASE Idle(n)
  BY <1>1, <1>2, <1>3, <1>5, Zenon DEF Block, Idle
<1>6. CASE OnList(n)
  BY <1>1, <1>2, <1>3, <1>6, Zenon DEF Block, OnList
<1>7. CASE LeftOver(n)
  BY <1>1, <1>2, <1>3, <1>4, <1>7, Zenon DEF Block, LeftOver
<1>8. ASSUME NEW u \in Threads, Put(n, u) PROVE Block(n)'
  <2>1. n \in Putting(u)
    BY <1>8, Zenon DEF Put, Putters
  <2>2. pc[u] \in Early \cup Late /\ Early \cap Late = {}
    BY <2>1, Zenon DEF Putting, Early, Late
  <2>3. pc'[u] \in Early \cup Late
    <3>1. n \in Putting(u)'
      BY <1>1, <1>8, Zenon DEF Put, Putters
    <3> QED BY <3>1, Zenon DEF Putting, Early, Late
  <2>4. pc'[u] \in Early <=> pc[u] \in Early
    BY <2>1, Zenon DEF Aside, Others
  <2> QED BY <1>1, <1>2, <1>3, <1>4, <1>8, <2>2, <2>3, <2>4, Zenon DEF Block, Put
<1>9. ASSUME NEW u \in Threads, Taken(n, u) PROVE Block(n)'
  BY <1>1, <1>2, <1>3, <1>4, <1>9, Zenon DEF Block, Taken
<1> QED BY <1>5, <1>6, <1>7, <1>8, <1>9, Zenon DEF Block

---------------------------------------------------------------------------
(* Steps *)

LEMMA Counts ==
    ASSUME Fitting, NEW t \in Threads, NEW n \in Blocks
    PROVE  /\ Count(n) \in Nat /\ Count(n) <= Cardinality(Threads)
           /\ Count(n) = 0 <=> Users(n) = {}
           /\ Users(n)' = Users(n) => Count(n)' = Count(n)
           /\ Users(n)' = Users(n) \cup {t} /\ t \notin Users(n) => Count(n)' = Count(n) + 1
           /\ Users(n)' = Users(n) \ {t} /\ t \in Users(n) => Count(n)' = Count(n) - 1
<1>1. IsFiniteSet(Users(n)) /\ Cardinality(Users(n)) <= Cardinality(Threads)
  <2>1. Users(n) \in SUBSET Threads
    BY Zenon DEF Users
  <2> QED BY <2>1, FS_Subset, Zenon DEF Fitting
<1>2. Cardinality(Users(n)) \in Nat /\ (Cardinality(Users(n)) = 0 <=> Users(n) = {})
  BY <1>1, FS_CardinalityType, FS_EmptySet, Zenon
<1>3. t \notin Users(n) => Cardinality(Users(n) \cup {t}) = Cardinality(Users(n)) + 1
  BY <1>1, FS_AddElement, Zenon
<1>4. t \in Users(n) => Cardinality(Users(n) \ {t}) = Cardinality(Users(n)) - 1
  BY <1>1, FS_RemoveElement, Zenon
<1> QED BY <1>1, <1>2, <1>3, <1>4, Zenon DEF Count

\* Thread t goes to l with locals k.
Moves(t, l, k) ==
    /\ l \in Pcs /\ k \in Locals
    /\ pc' = [pc EXCEPT ![t] = l] /\ loc' = [loc EXCEPT ![t] = k]

LEMMA Moved ==
    ASSUME Types, NEW t \in Threads, NEW l, NEW k, Moves(t, l, k)
    PROVE  /\ Others(t) /\ pc'[t] = l /\ loc'[t] = k
           /\ pc' \in [Threads -> Pcs] /\ loc' \in [Threads -> Locals]
  BY Zenon DEF Types, Moves, Others

LEMMA KnownKept ==
    ASSUME Types, Known, NEW t \in Threads, NEW l, NEW k, Moves(t, l, k),
           freeListNext' = freeListNext, Knows(l, k)
    PROVE  Known'
<1>1. Others(t) /\ pc'[t] = l /\ loc'[t] = k
  BY Moved, Zenon
<1> SUFFICES ASSUME NEW u \in Threads PROVE Knows(pc[u], loc[u])'
  BY Zenon DEF Known
<1>2. Knows(pc'[u], loc'[u])
  BY <1>1, Zenon DEF Others, Known
<1> QED BY <1>2, Zenon DEF Knows

\* A step that leaves the shared state, and what the thread holds, as they are.
LEMMA Quiet ==
    ASSUME Inv, NEW t \in Threads, NEW l, NEW k, Moves(t, l, k), UNCHANGED shared, Knows(l, k),
           Referring(t)' = Referring(t), Putting(t)' = Putting(t), Taking(t)' = Taking(t),
           Putting(t) /= {} => (l \in Early <=> pc[t] \in Early)
    PROVE  Inv'
<1>1. /\ Others(t) /\ pc'[t] = l /\ loc'[t] = k
      /\ pc' \in [Threads -> Pcs] /\ loc' \in [Threads -> Locals]
  BY Moved, Zenon DEF Inv
<1>2. Types'
  BY <1>1, Zenon DEF Inv, Types, shared
<1>3. Known'
  BY KnownKept, Zenon DEF Inv, shared
<1>4. Ranked(freeListHead, freeListNext)'
  BY Zenon DEF Inv, shared, Ranked, Reach, Closed
<1>5. \A n \in Blocks : Aside(n, t)
  BY <1>1, Zenon DEF Aside, shared, Fresh, Listed
<1>6. AllBlocks'
  BY <1>1, <1>5, Frame, Zenon DEF AllBlocks, Inv
<1> QED BY <1>2, <1>3, <1>4, <1>6, Zenon DEF Inv

\* A step that concerns one block.
LEMMA One ==
    ASSUME Inv, NEW t \in Threads, Others(t), NEW n \in Blocks, Block(n)',
           \A m \in Blocks \ {n} : Aside(m, t),
           Types', Known', Ranked(freeListHead, freeListNext)'
    PROVE  Inv'
<1>1. \A m \in Blocks \ {n} : Block(m)'
  BY Frame, Zenon DEF Inv, AllBlocks
<1> QED BY <1>1, Zenon DEF Inv, AllBlocks

\* The places where a thread holds no block.
LEMMA Nothing ==
    ASSUME Types, NEW t \in Threads, NEW l, NEW k, Moves(t, l, k),
           pc[t] \in {"idle", "pool", "create", "get", "loop", "ref"},
           l \in {"idle", "pool", "create", "get", "loop", "ref"}
    PROVE  /\ Referring(t)' = Referring(t) /\ Putting(t)' = Putting(t) /\ Taking(t)' = Taking(t)
           /\ Putting(t) = {}
  BY Moved, Zenon DEF Referring, Putting, Taking

\* A step between two of them.
LEMMA QuietNothing ==
    ASSUME Inv, NEW t \in Threads, NEW l, NEW k, Moves(t, l, k), UNCHANGED shared, Knows(l, k),
           pc[t] \in {"idle", "pool", "create", "get", "loop", "ref"},
           l \in {"idle", "pool", "create", "get", "loop", "ref"}
    PROVE  Inv'
<1>1. /\ Referring(t)' = Referring(t) /\ Putting(t)' = Putting(t) /\ Taking(t)' = Taking(t)
      /\ Putting(t) = {}
  BY Nothing, Zenon DEF Inv
<1> QED BY <1>1, Quiet, Zenon

LEMMA TryPoolStep == ASSUME Inv, NEW t \in Threads, TryPool(t) PROVE Inv'
<1> DEFINE l == IF initialBlockPoolIndex >= initialBlockPoolSize THEN "get" ELSE "pool"
<1>1. Moves(t, l, loc[t])
  BY Zenon DEF Inv, Types, TryPool, Goto, Moves, Pcs
<1>2. l \in {"get", "pool"} /\ pc[t] = "idle" /\ UNCHANGED shared
  BY Zenon DEF TryPool
<1> HIDE DEF l
<1>3. Knows(l, loc[t])
  BY <1>2, Zenon DEF Knows, Early, Late
<1> QED BY <1>1, <1>2, <1>3, QuietNothing, Zenon

LEMMA LoadHeadStep == ASSUME Inv, NEW t \in Threads, LoadHead(t) PROVE Inv'
<1> DEFINE k == [loc[t] EXCEPT !.head = freeListHead, !.in = "try_get"]
<1>1. Moves(t, "loop", k)
  <2>1. k \in Locals
    BY ZenonT(40) DEF Inv, Types, Locals, Ptr
  <2>2. loc' = [loc EXCEPT ![t] = k]
    BY Zenon DEF LoadHead, Inv, Types
  <2> QED BY <2>1, <2>2, Zenon DEF LoadHead, Goto, Moves, Pcs
<1>2. pc[t] = "get" /\ UNCHANGED shared
  BY Zenon DEF LoadHead
<1>3. Knows("loop", k)
  BY Zenon DEF Knows, Early, Late
<1> HIDE DEF k
<1> QED BY <1>1, <1>2, <1>3, QuietNothing, Zenon

LEMMA LoadRefsStep == ASSUME Inv, NEW t \in Threads, LoadRefs(t) PROVE Inv'
<1>1. pc[t] = "loop" /\ UNCHANGED shared
  BY Zenon DEF LoadRefs
<1>2. CASE loc[t].head = nullptr
  <2>1. Blank \in Locals
    BY Zenon DEF Blank, Locals
  <2>2. Moves(t, "create", Blank)
    BY <1>2, <2>1, Zenon DEF LoadRefs, Moves, Pcs
  <2>3. Knows("create", Blank)
    BY Zenon DEF Knows, Early, Late
  <2> QED BY <1>1, <2>2, <2>3, QuietNothing, Zenon
<1>3. CASE loc[t].head /= nullptr
  <2> DEFINE r == freeListRefs[loc[t].head]
             l == IF REFS_MASK(r) = 0 THEN "get" ELSE "ref"
             k == [loc[t] EXCEPT !.refs = r]
  <2>1. loc[t] \in Locals /\ loc[t].head \in Blocks
    BY <1>3, Zenon DEF Inv, Types, Locals
  <2>2. r \in Nat
    BY <2>1, Zenon DEF Inv, Types
  <2>3. loc' = [loc EXCEPT ![t] = k] /\ pc' = [pc EXCEPT ![t] = l]
    BY <1>3, Zenon DEF LoadRefs, Set, Goto, Inv, Types
  <2> HIDE DEF r
  <2>4. k \in Locals /\ k.head \in Blocks /\ k.refs = r
    BY <2>1, <2>2, Zenon DEF Locals
  <2>5. l \in {"get", "ref"} /\ (l = "ref" => REFS_MASK(r) /= 0)
    BY Zenon
  <2> HIDE DEF k, l
  <2>6. Moves(t, l, k)
    BY <2>3, <2>4, <2>5, Zenon DEF Moves, Pcs
  <2>7. Knows(l, k)
    BY <2>4, <2>5, Zenon DEF Knows, Early, Late
  <2> QED BY <1>1, <2>5, <2>6, <2>7, QuietNothing, Zenon
<1> QED BY <1>2, <1>3, Zenon

LEMMA LoadNextStep == ASSUME Inv, NEW t \in Threads, LoadNext(t) PROVE Inv'
<1> DEFINE k == [loc[t] EXCEPT !.next = freeListNext[loc[t].head]]
<1>1. pc[t] = "next" /\ UNCHANGED shared /\ loc[t] \in Locals /\ loc[t].head \in Blocks
  BY Zenon DEF LoadNext, Inv, Types, Known, Knows
<1>2. freeListNext[loc[t].head] \in Ptr
  BY <1>1, Zenon DEF Inv, Types
<1>3. loc' = [loc EXCEPT ![t] = k] /\ pc' = [pc EXCEPT ![t] = "unlink"]
  BY Zenon DEF LoadNext, Set, Goto, Inv, Types
<1>4. k \in Locals /\ k.head = loc[t].head /\ k.next = freeListNext[loc[t].head]
  BY <1>1, <1>2, Zenon DEF Locals, Ptr
<1> HIDE DEF k
<1>5. Moves(t, "unlink", k)
  BY <1>3, <1>4, Zenon DEF Moves, Pcs
<1>6. pc'[t] = "unlink" /\ loc'[t] = k
  BY <1>5, Moved, Zenon DEF Inv
<1>7. Knows("unlink", k)
  BY <1>1, <1>4, Zenon DEF Knows, Early, Late
<1>8. /\ Referring(t)' = Referring(t) /\ Putting(t)' = Putting(t) /\ Taking(t)' = Taking(t)
      /\ Putting(t) = {}
  BY <1>1, <1>4, <1>6, Zenon DEF Referring, Putting, Taking
<1> QED BY <1>1, <1>5, <1>7, <1>8, Quiet, Zenon

LEMMA AddLoadStep == ASSUME Inv, NEW t \in Threads, AddLoad(t) PROVE Inv'
<1> DEFINE k == [loc[t] EXCEPT !.head = freeListHead]
<1>1. /\ pc[t] = "add" /\ UNCHANGED shared /\ loc[t] \in Locals /\ loc[t].node \in Blocks
      /\ freeListHead \in Ptr
  BY Zenon DEF AddLoad, Inv, Types, Known, Knows, Early
<1>2. loc' = [loc EXCEPT ![t] = k] /\ pc' = [pc EXCEPT ![t] = "setnext"]
  BY Zenon DEF AddLoad, Set, Goto, Inv, Types
<1>3. k \in Locals /\ k.node = loc[t].node
  BY <1>1, Zenon DEF Locals, Ptr
<1> HIDE DEF k
<1>4. Moves(t, "setnext", k)
  BY <1>2, <1>3, Zenon DEF Moves, Pcs, Early
<1>5. pc'[t] = "setnext" /\ loc'[t] = k
  BY <1>4, Moved, Zenon DEF Inv
<1>6. Knows("setnext", k)
  BY <1>1, <1>3, Zenon DEF Knows
<1>7. /\ Referring(t)' = Referring(t) /\ Putting(t)' = Putting(t) /\ Taking(t)' = Taking(t)
  BY <1>1, <1>3, <1>5, Zenon DEF Referring, Putting, Taking
<1> QED BY <1>1, <1>4, <1>6, <1>7, Quiet, Zenon DEF Early

---------------------------------------------------------------------------
(* Steps that concern a block *)

LEMMA TopBit ==
    /\ SHOULD_BE_ON_FREELIST \in Nat /\ SHOULD_BE_ON_FREELIST > 2
    /\ REFS_MASK(SHOULD_BE_ON_FREELIST) = 0
    /\ \A c \in Nat : c < SHOULD_BE_ON_FREELIST =>
           REFS_MASK(c) = c /\ REFS_MASK(c + SHOULD_BE_ON_FREELIST) = c
  BY SMT DEF SHOULD_BE_ON_FREELIST, REFS_MASK

LEMMA Elsewhere ==
    ASSUME NEW t \in Threads, NEW n \in Blocks,
           Referring(t) \cup Putting(t) \cup Taking(t) \subseteq {n},
           Referring(t)' \cup Putting(t)' \cup Taking(t)' \subseteq {n},
           \A m \in Blocks \ {n} :
               /\ m \in Fresh' <=> m \in Fresh
               /\ m \in Listed' <=> m \in Listed
               /\ owner'[m] = owner[m] /\ freeListRefs'[m] = freeListRefs[m]
    PROVE  \A m \in Blocks \ {n} : Aside(m, t)
  BY Zenon DEF Aside

\* The free list is where it was when neither its head nor its pointers change.
LEMMA SameList ==
    ASSUME freeListHead' = freeListHead, freeListNext' = freeListNext
    PROVE  /\ Listed' = Listed
           /\ Ranked(freeListHead, freeListNext) => Ranked(freeListHead, freeListNext)'
  BY Zenon DEF Listed, Ranked, Reach, Closed

LEMMA SamePool ==
    ASSUME UNCHANGED pools
    PROVE  Fresh' = Fresh
  BY Zenon DEF Fresh, pools

\* What a step of thread t makes of the threads that hold n.
LEMMA Holders ==
    ASSUME Fitting, NEW t \in Threads, Others(t), NEW n \in Blocks
    PROVE  /\ Count(n) \in Nat /\ Count(n) <= Cardinality(Threads)
           /\ Count(n) = 0 <=> Users(n) = {}
           /\ (n \in Referring(t)' <=> n \in Referring(t)) =>
                  Users(n)' = Users(n) /\ Count(n)' = Count(n)
           /\ n \notin Referring(t) /\ n \in Referring(t)' =>
                  Users(n)' = Users(n) \cup {t} /\ Count(n)' = Count(n) + 1
           /\ n \in Referring(t) /\ n \notin Referring(t)' =>
                  t \in Users(n) /\ Users(n)' = Users(n) \ {t} /\ Count(n)' = Count(n) - 1
           /\ t \in Putters(n) <=> n \in Putting(t)
           /\ (n \in Putting(t)' <=> n \in Putting(t)) => Putters(n)' = Putters(n)
           /\ n \in Putting(t)' => Putters(n)' = Putters(n) \cup {t}
           /\ n \notin Putting(t)' => Putters(n)' = Putters(n) \ {t}
           /\ t \in Takers(n) <=> n \in Taking(t)
           /\ (n \in Taking(t)' <=> n \in Taking(t)) => Takers(n)' = Takers(n)
           /\ n \in Taking(t)' => Takers(n)' = Takers(n) \cup {t}
           /\ n \notin Taking(t)' => Takers(n)' = Takers(n) \ {t}
<1>1. /\ t \in Users(n) <=> n \in Referring(t)
      /\ t \in Putters(n) <=> n \in Putting(t)
      /\ t \in Takers(n) <=> n \in Taking(t)
  BY Zenon DEF Users, Putters, Takers
<1>2. /\ n \in Referring(t)' => Users(n)' = Users(n) \cup {t}
      /\ n \notin Referring(t)' => Users(n)' = Users(n) \ {t}
      /\ n \in Putting(t)' => Putters(n)' = Putters(n) \cup {t}
      /\ n \notin Putting(t)' => Putters(n)' = Putters(n) \ {t}
      /\ n \in Taking(t)' => Takers(n)' = Takers(n) \cup {t}
      /\ n \notin Taking(t)' => Takers(n)' = Takers(n) \ {t}
  BY Sets, Zenon
<1>3. /\ Count(n) \in Nat /\ Count(n) <= Cardinality(Threads)
      /\ Count(n) = 0 <=> Users(n) = {}
      /\ Users(n)' = Users(n) => Count(n)' = Count(n)
      /\ Users(n)' = Users(n) \cup {t} /\ t \notin Users(n) => Count(n)' = Count(n) + 1
      /\ Users(n)' = Users(n) \ {t} /\ t \in Users(n) => Count(n)' = Count(n) - 1
  BY Counts, Zenon
<1>4. (n \in Referring(t)' <=> n \in Referring(t)) => Users(n)' = Users(n)
  BY <1>1, <1>2, Zenon
<1>5. (n \in Putting(t)' <=> n \in Putting(t)) => Putters(n)' = Putters(n)
  BY <1>1, <1>2, Zenon
<1>6. (n \in Taking(t)' <=> n \in Taking(t)) => Takers(n)' = Takers(n)
  BY <1>1, <1>2, Zenon
<1> QED BY <1>1, <1>2, <1>3, <1>4, <1>5, <1>6, Zenon

\* A step of thread t that writes the count, the owner or the place of block n,
\* and no next pointer.
LEMMA Concern ==
    ASSUME Inv, NEW t \in Threads, NEW n \in Blocks,
           NEW l, NEW k, Moves(t, l, k), Knows(l, k),
           initialBlockPoolIndex' \in Nat, created' \in Nat, created' <= MaxCreated,
           NEW r \in Nat, freeListRefs' = [freeListRefs EXCEPT ![n] = r],
           NEW o \in Threads \cup {nullptr}, owner' = [owner EXCEPT ![n] = o],
           freeListNext' = freeListNext, freeListHead' \in Ptr,
           Ranked(freeListHead, freeListNext)',
           \A m \in Blocks \ {n} : (m \in Fresh' <=> m \in Fresh) /\ (m \in Listed' <=> m \in Listed),
           Referring(t) \cup Putting(t) \cup Taking(t) \subseteq {n},
           Referring(t)' \cup Putting(t)' \cup Taking(t)' \subseteq {n},
           Block(n)'
    PROVE  Inv'
<1>1. /\ Others(t) /\ pc' \in [Threads -> Pcs] /\ loc' \in [Threads -> Locals]
  BY Moved, Zenon DEF Inv
<1>2. /\ freeListRefs' \in [Blocks -> Nat] /\ owner' \in [Blocks -> Threads \cup {nullptr}]
      /\ \A m \in Blocks \ {n} : owner'[m] = owner[m] /\ freeListRefs'[m] = freeListRefs[m]
  BY Zenon DEF Inv, Types
<1>3. Types'
  BY <1>1, <1>2, Zenon DEF Inv, Types
<1>4. Known'
  BY KnownKept, Zenon DEF Inv
<1>5. \A m \in Blocks \ {n} : Aside(m, t)
  BY <1>2, Elsewhere, Zenon
<1> QED BY <1>1, <1>3, <1>4, <1>5, One, Zenon

LEMMA TakeRefStep == ASSUME Fitting, Inv, NEW t \in Threads, TakeRef(t) PROVE Inv'
<1> DEFINE k == [loc[t] EXCEPT !.refs = 0]
<1>1. /\ pc[t] = "ref" /\ loc[t] \in Locals /\ loc[t].head \in Blocks /\ REFS_MASK(loc[t].refs) /= 0
      /\ UNCHANGED <<pools, freeListHead, freeListNext, owner>>
      /\ freeListRefs \in [Blocks -> Nat] /\ owner \in [Blocks -> Threads \cup {nullptr}]
  BY Zenon DEF TakeRef, Inv, Types, Known, Knows
<1>2. PICK n \in Blocks : n = loc[t].head
  BY <1>1, Zenon
<1>3. loc' = [loc EXCEPT ![t] = k]
  BY Zenon DEF TakeRef, Set, Inv, Types
<1>4. k \in Locals /\ k.head = n
  BY <1>1, <1>2, Zenon DEF Locals
<1>5. CASE freeListRefs[n] /= loc[t].refs
  <2>1. Moves(t, "get", k) /\ UNCHANGED shared
    BY <1>1, <1>2, <1>3, <1>4, <1>5, Zenon DEF TakeRef, Goto, Moves, Pcs, shared, pools
  <2>2. Knows("get", k)
    BY Zenon DEF Knows, Early, Late
  <2> HIDE DEF k
  <2> QED BY <1>1, <2>1, <2>2, QuietNothing, Zenon
<1>6. CASE freeListRefs[n] = loc[t].refs
  <2>1. /\ Moves(t, "next", k)
        /\ freeListRefs' = [freeListRefs EXCEPT ![n] = freeListRefs[n] + 1]
    BY <1>1, <1>2, <1>3, <1>4, <1>6, Zenon DEF TakeRef, Refs, Goto, Moves, Pcs
  <2>2. Knows("next", k)
    BY <1>1, <1>4, Zenon DEF Knows, Early, Late
  <2> HIDE DEF k
  <2>3. Others(t) /\ pc'[t] = "next" /\ loc'[t] = k
    BY <2>1, Moved, Zenon DEF Inv
  <2>4. /\ freeListRefs[n] \in Nat /\ freeListRefs[n] + 1 \in Nat
        /\ freeListRefs'[n] = freeListRefs[n] + 1
        /\ owner[n] \in Threads \cup {nullptr} /\ owner' = [owner EXCEPT ![n] = owner[n]]
    BY <1>1, <2>1
  <2>5. /\ Referring(t) = {} /\ Putting(t) = {} /\ Taking(t) = {}
        /\ Referring(t)' = {n} /\ Putting(t)' = {} /\ Taking(t)' = {}
    BY <1>1, <1>4, <2>3, Zenon DEF Referring, Putting, Taking
  <2>6. /\ Listed' = Listed /\ Fresh' = Fresh /\ Ranked(freeListHead, freeListNext)'
    BY <1>1, SameList, SamePool, Zenon DEF Inv
  <2>7. Block(n)'
    <3>1. /\ Users(n)' = Users(n) \cup {t} /\ Count(n) \in Nat /\ Count(n)' = Count(n) + 1
          /\ Putters(n)' = Putters(n) /\ Takers(n)' = Takers(n) /\ t \notin Putters(n)
      BY <2>3, <2>5, Holders, Zenon
    <3>2. owner'[n] = owner[n]
      BY <1>1, Zenon
    <3>3. Out(n)' <=> Out(n)
      BY <2>6, <3>2, Zenon DEF Out
    <3>4. Block(n)
      BY Zenon DEF Inv, AllBlocks
    <3>5. CASE Idle(n)
      BY <2>4, <2>6, <3>1, <3>2, <3>5, Zenon DEF Idle, Block
    <3>6. CASE OnList(n)
      BY <2>4, <2>6, <3>1, <3>2, <3>6, Zenon DEF OnList, Block
    <3>7. CASE LeftOver(n)
      <4>1. Users(n)' /= {} /\ Out(n)' /\ Putters(n)' = {} /\ Takers(n)' = {}
        BY <3>1, <3>3, <3>7, Zenon DEF LeftOver
      <4>2. freeListRefs'[n] = Count(n)' + SHOULD_BE_ON_FREELIST
        BY <2>4, <3>1, <3>7, TopBit DEF LeftOver
      <4> QED BY <4>1, <4>2, Zenon DEF LeftOver, Block
    <3>8. ASSUME NEW u \in Threads, Put(n, u) PROVE Block(n)'
      <4>1. u /= t /\ pc'[u] = pc[u]
        BY <2>3, <3>1, <3>8, Zenon DEF Put, Others
      <4>2. pc[u] \notin Early
        BY <1>1, <1>6, <3>8, TopBit, Zenon DEF Put
      <4>3. Put(n, u)'
        BY <2>4, <3>1, <3>3, <3>8, <4>1, <4>2, Zenon DEF Put
      <4> QED BY <4>3, Zenon DEF Block
    <3>9. ASSUME NEW u \in Threads, Taken(n, u) PROVE Block(n)'
      BY <2>4, <3>1, <3>3, <3>9 DEF Taken, Block
    <3> QED BY <3>4, <3>5, <3>6, <3>7, <3>8, <3>9, Zenon DEF Block
  <2>8. initialBlockPoolIndex' \in Nat /\ created' \in Nat /\ created' <= MaxCreated
        /\ freeListHead' \in Ptr /\ freeListNext' = freeListNext
    BY <1>1, Zenon DEF Inv, Types, pools
  <2> QED BY Zenon, <2>1, <2>2, <2>4, <2>5, <2>6, <2>7, <2>8, Concern
<1> QED BY <1>5, <1>6, Zenon

LEMMA UnlinkStep == ASSUME Fitting, Inv, NEW t \in Threads, Unlink(t) PROVE Inv'
<1>1. /\ pc[t] = "unlink" /\ loc[t] \in Locals /\ loc[t].head \in Blocks
      /\ loc[t].next = freeListNext[loc[t].head]
      /\ UNCHANGED <<pools, freeListRefs, freeListNext, owner>>
      /\ freeListRefs \in [Blocks -> Nat] /\ owner \in [Blocks -> Threads \cup {nullptr}]
      /\ freeListNext \in [Blocks -> Ptr] /\ freeListHead \in Ptr
  BY Zenon DEF Unlink, Inv, Types, Known, Knows
<1>2. PICK n \in Blocks : n = loc[t].head
  BY <1>1, Zenon
<1>3. CASE freeListHead /= n
  <2> DEFINE k == [Blank EXCEPT !.prevHead = n, !.head = freeListHead, !.in = "try_get"]
  <2>1. k \in Locals /\ k.prevHead = n
    BY <1>1, Zenon DEF Blank, Locals, Ptr
  <2>2. Moves(t, "unref", k) /\ UNCHANGED shared
    <3>1. loc' = [loc EXCEPT ![t] = k] /\ pc' = [pc EXCEPT ![t] = "unref"] /\ UNCHANGED freeListHead
      BY <1>2, <1>3, Zenon DEF Unlink, Goto
    <3> QED BY <1>1, <2>1, <3>1, Zenon DEF Moves, Pcs, shared, pools
  <2> HIDE DEF k
  <2>3. Knows("unref", k)
    BY <2>1, Zenon DEF Knows, Early, Late
  <2>4. pc'[t] = "unref" /\ loc'[t] = k
    BY <2>2, Moved, Zenon DEF Inv
  <2>5. /\ Referring(t)' = Referring(t) /\ Putting(t)' = Putting(t) /\ Taking(t)' = Taking(t)
        /\ Putting(t) = {}
    BY <1>1, <1>2, <2>1, <2>4, Zenon DEF Referring, Putting, Taking
  <2> QED BY <2>2, <2>3, <2>5, Quiet, Zenon
<1>4. CASE freeListHead = n
  <2> DEFINE k == [loc[t] EXCEPT !.next = nullptr]
  <2>1. k \in Locals /\ k.head = n
    BY <1>1, <1>2, Zenon DEF Locals
  <2>2. Moves(t, "got", k) /\ freeListHead' = freeListNext[n]
    <3>1. loc' = [loc EXCEPT ![t] = k] /\ pc' = [pc EXCEPT ![t] = "got"]
      BY <1>2, <1>4, Zenon DEF Unlink, Goto, Set, Inv, Types
    <3> QED BY <1>1, <1>2, <1>4, <2>1, <3>1, Zenon DEF Unlink, Moves, Pcs
  <2> HIDE DEF k
  <2>3. Knows("got", k)
    BY <2>1, Zenon DEF Knows, Early, Late
  <2>4. Others(t) /\ pc'[t] = "got" /\ loc'[t] = k
    BY <2>2, Moved, Zenon DEF Inv
  <2>5. /\ Referring(t) = {n} /\ Putting(t) = {} /\ Taking(t) = {}
        /\ Referring(t)' = {} /\ Putting(t)' = {} /\ Taking(t)' = {n}
    BY <1>1, <1>2, <2>1, <2>4, Zenon DEF Referring, Putting, Taking
  <2>6. n \in Listed /\ Listed' = Listed \ {n} /\ Ranked(freeListHead, freeListNext)'
    <3>1. n \in Reach(n, freeListNext)
      <4>1. n \in Ptr /\ n /= nullptr
        BY DEF Ptr, Blocks, nullptr, Fitting
      <4> QED BY <1>1, <4>1, ReachLeast, Zenon DEF Closed
    <3>2. /\ Reach(freeListNext[n], freeListNext) = Reach(n, freeListNext) \ {n}
          /\ Ranked(freeListNext[n], freeListNext)
      BY <1>1, <1>4, ReachPop, Zenon DEF Inv
    <3>3. Listed' = Reach(freeListNext[n], freeListNext)
      BY <1>1, <2>2, Zenon DEF Listed, Reach, Closed
    <3>4. Ranked(freeListHead, freeListNext)'
      BY <1>1, <2>2, <3>2, Zenon DEF Ranked, Reach, Closed
    <3> QED BY <1>4, <3>1, <3>2, <3>3, <3>4, Zenon DEF Listed
  <2>7. OnList(n)
    BY <2>6, Zenon DEF Inv, AllBlocks, Block, Idle, LeftOver, Put, Taken, Out
  <2>8. Block(n)'
    <3>1. /\ Count(n) \in Nat /\ Count(n)' = Count(n) - 1
          /\ Putters(n)' = Putters(n) /\ Takers(n)' = Takers(n) \cup {t}
      BY <2>4, <2>5, Holders, Zenon
    <3>2. owner'[n] = owner[n] /\ freeListRefs'[n] = freeListRefs[n] /\ Fresh' = Fresh
      BY <1>1, SamePool, Zenon
    <3>3. Out(n)' /\ Putters(n)' = {} /\ Takers(n)' = {t}
      BY <2>6, <2>7, <3>1, <3>2, Zenon DEF Out, OnList
    <3>4. freeListRefs'[n] = Count(n)' + 2
      BY <2>7, <3>1, <3>2 DEF OnList
    <3> QED BY <3>3, <3>4, Zenon DEF Block, Taken
  <2>9. /\ initialBlockPoolIndex' \in Nat /\ created' \in Nat /\ created' <= MaxCreated
        /\ freeListHead' \in Ptr /\ freeListNext' = freeListNext /\ Fresh' = Fresh
    BY <1>1, <2>2, SamePool, Zenon DEF Inv, Types, pools
  <2>10. /\ freeListRefs[n] \in Nat /\ owner[n] \in Threads \cup {nullptr}
         /\ freeListRefs' = [freeListRefs EXCEPT ![n] = freeListRefs[n]]
         /\ owner' = [owner EXCEPT ![n] = owner[n]]
    BY <1>1, Zenon
  <2> QED BY Zenon, <2>2, <2>3, <2>5, <2>6, <2>8, <2>9, <2>10, Concern
<1> QED BY <1>3, <1>4, Zenon

LEMMA GotStep == ASSUME Fitting, Inv, NEW t \in Threads, Got(t) PROVE Inv'
<1>1. /\ pc[t] = "got" /\ loc[t] \in Locals /\ loc[t].head \in Blocks
      /\ UNCHANGED <<pools, freeListHead, freeListNext>>
      /\ freeListRefs \in [Blocks -> Nat] /\ owner \in [Blocks -> Threads \cup {nullptr}]
      /\ pc' = [pc EXCEPT ![t] = "idle"] /\ loc' = [loc EXCEPT ![t] = Blank]
  BY Zenon DEF Got, Return, Inv, Types, Known, Knows
<1>2. PICK n \in Blocks : n = loc[t].head
  BY <1>1, Zenon
<1>3. /\ freeListRefs' = [freeListRefs EXCEPT ![n] = freeListRefs[n] - 2]
      /\ owner' = [owner EXCEPT ![n] = t]
  BY <1>2, Zenon DEF Got, Refs
<1>4. Moves(t, "idle", Blank) /\ Knows("idle", Blank)
  <2>1. Blank \in Locals
    BY Zenon DEF Blank, Locals
  <2> QED BY <1>1, <2>1, Zenon DEF Moves, Knows, Pcs, Early, Late
<1>5. Others(t) /\ pc'[t] = "idle"
  BY <1>4, Moved, Zenon DEF Inv
<1>6. /\ Referring(t) = {} /\ Putting(t) = {} /\ Taking(t) = {n}
      /\ Referring(t)' = {} /\ Putting(t)' = {} /\ Taking(t)' = {}
  BY <1>1, <1>2, <1>5, Zenon DEF Referring, Putting, Taking
<1>7. /\ Count(n) \in Nat /\ Count(n)' = Count(n) /\ t \in Takers(n)
      /\ Putters(n)' = Putters(n) /\ Takers(n)' = Takers(n) \ {t}
  BY <1>5, <1>6, Holders, Zenon
<1>8. Taken(n, t)
  BY <1>7, Zenon DEF Inv, AllBlocks, Block, Idle, OnList, LeftOver, Put, Taken
<1>9. freeListRefs[n] - 2 \in Nat /\ freeListRefs'[n] = Count(n)' /\ owner'[n] = t
  <2>1. freeListRefs[n] - 2 = Count(n)
    BY <1>7, <1>8 DEF Taken
  <2> QED BY <1>1, <1>3, <1>7, <2>1, Zenon
<1>10. /\ initialBlockPoolIndex' \in Nat /\ created' \in Nat /\ created' <= MaxCreated
       /\ freeListHead' \in Ptr /\ freeListNext' = freeListNext
       /\ Listed' = Listed /\ Fresh' = Fresh /\ Ranked(freeListHead, freeListNext)'
  BY <1>1, SamePool, SameList, Zenon DEF Inv, Types, pools
<1>11. Block(n)'
  BY <1>7, <1>8, <1>9, <1>10, Zenon DEF Block, Idle, Taken, Out, Fitting
<1> QED BY <1>3, <1>4, <1>6, <1>9, <1>10, <1>11, Concern, Zenon

\* A block that was never used gets its first owner.
LEMMA FreshTaken ==
    ASSUME Fitting, Inv, NEW t \in Threads, NEW n \in Blocks,
           pc[t] \in {"pool", "create"}, pc' = [pc EXCEPT ![t] = "idle"], loc' = loc,
           n \in Fresh, Fresh' = Fresh \ {n}, owner' = [owner EXCEPT ![n] = t],
           initialBlockPoolIndex' \in Nat, created' \in Nat, created' <= MaxCreated,
           UNCHANGED <<freeListHead, freeListRefs, freeListNext>>
    PROVE  Inv'
<1>1. Moves(t, "idle", loc[t]) /\ Knows("idle", loc[t])
  BY Zenon DEF Inv, Types, Moves, Knows, Pcs, Early, Late
<1>2. Others(t) /\ pc'[t] = "idle"
  BY <1>1, Moved, Zenon DEF Inv
<1>3. /\ Referring(t) = {} /\ Putting(t) = {} /\ Taking(t) = {}
      /\ Referring(t)' = {} /\ Putting(t)' = {} /\ Taking(t)' = {}
  BY <1>2, Zenon DEF Referring, Putting, Taking
<1>4. /\ Count(n)' = Count(n) /\ Putters(n)' = Putters(n) /\ Takers(n)' = Takers(n)
  BY <1>2, <1>3, Holders, Zenon
<1>5. Idle(n)
  BY Zenon DEF Inv, AllBlocks, Block, OnList, LeftOver, Put, Taken, Out
<1>6. /\ Listed' = Listed /\ Ranked(freeListHead, freeListNext)' /\ freeListHead' \in Ptr
      /\ freeListRefs[n] \in Nat /\ freeListRefs' = [freeListRefs EXCEPT ![n] = freeListRefs[n]]
      /\ owner'[n] = t
  BY SameList, Zenon DEF Inv, Types
<1>7. Block(n)'
  BY <1>4, <1>5, <1>6, Zenon DEF Block, Idle, Fitting
<1> QED BY <1>1, <1>3, <1>6, <1>7, Concern, Zenon

LEMMA TakePoolStep == ASSUME Fitting, Inv, NEW t \in Threads, TakePool(t) PROVE Inv'
<1>1. /\ pc[t] = "pool" /\ initialBlockPoolIndex' = initialBlockPoolIndex + 1
      /\ UNCHANGED <<created, freeListHead, freeListRefs, freeListNext, loc>>
      /\ initialBlockPoolIndex \in Nat /\ initialBlockPoolSize \in Nat /\ MaxCreated \in Nat
      /\ initialBlockPoolIndex' \in Nat /\ created' \in Nat /\ created' <= MaxCreated
  BY DEF TakePool, Inv, Types, Fitting
<1>2. CASE initialBlockPoolIndex < initialBlockPoolSize
  <2>1. PICK n \in Blocks : n = initialBlockPoolIndex + 1
    BY <1>1, <1>2 DEF Blocks
  <2>2. owner' = [owner EXCEPT ![n] = t] /\ pc' = [pc EXCEPT ![t] = "idle"]
    BY <1>1, <1>2, <2>1 DEF TakePool, PoolBlock, Goto, nullptr
  <2>3. n \in Fresh /\ Fresh' = Fresh \ {n}
    BY <1>1, <1>2, <2>1 DEF Fresh, Blocks
  <2> QED BY <1>1, <2>2, <2>3, FreshTaken, Zenon
<1>3. CASE initialBlockPoolIndex >= initialBlockPoolSize
  <2>1. owner' = owner /\ pc' = [pc EXCEPT ![t] = "get"]
    BY <1>1, <1>3 DEF TakePool, PoolBlock, Goto
  <2>2. Fresh' = Fresh
    BY <1>1, <1>3 DEF Fresh, Blocks
  <2>3. Moves(t, "get", loc[t]) /\ Knows("get", loc[t])
    BY <1>1, <2>1, Zenon DEF Inv, Types, Moves, Knows, Pcs, Early, Late
  <2>4. Others(t) /\ pc' \in [Threads -> Pcs] /\ loc' \in [Threads -> Locals]
    BY <2>3, Moved, Zenon DEF Inv
  <2>5. /\ Referring(t)' = Referring(t) /\ Putting(t)' = Putting(t) /\ Taking(t)' = Taking(t)
        /\ Putting(t) = {}
    BY <1>1, <2>3, Nothing, Zenon DEF Inv
  <2>6. Listed' = Listed /\ Ranked(freeListHead, freeListNext)'
    BY <1>1, SameList, Zenon DEF Inv
  <2>7. \A n \in Blocks : Aside(n, t)
    BY <1>1, <2>1, <2>2, <2>5, <2>6, Zenon DEF Aside
  <2>8. AllBlocks'
    BY <2>4, <2>7, Frame, Zenon DEF AllBlocks, Inv
  <2>9. Types'
    BY <1>1, <2>1, <2>4, Zenon DEF Inv, Types
  <2>10. Known'
    BY <1>1, <2>3, KnownKept, Zenon DEF Inv
  <2> QED BY <2>6, <2>8, <2>9, <2>10, Zenon DEF Inv
<1> QED BY <1>1, <1>2, <1>3

LEMMA CreateStep == ASSUME Fitting, Inv, NEW t \in Threads, Create(t) PROVE Inv'
<1>1. /\ pc[t] = "create" /\ pc' = [pc EXCEPT ![t] = "idle"]
      /\ UNCHANGED <<initialBlockPoolIndex, freeListHead, freeListRefs, freeListNext, loc>>
      /\ initialBlockPoolIndex \in Nat /\ initialBlockPoolSize \in Nat /\ MaxCreated \in Nat
      /\ created \in Nat
  BY Zenon DEF Create, Goto, Inv, Types, Fitting
<1>2. CASE UNCHANGED <<created, owner>>
  <2>1. Moves(t, "idle", loc[t]) /\ Knows("idle", loc[t]) /\ UNCHANGED shared
    BY <1>1, <1>2, Zenon DEF Inv, Types, Moves, Knows, Pcs, Early, Late, shared
  <2> QED BY <1>1, <2>1, QuietNothing, Zenon
<1>3. CASE /\ created < MaxCreated /\ created' = created + 1
           /\ owner' = [owner EXCEPT ![initialBlockPoolSize + created + 1] = t]
  <2>1. PICK n \in Blocks : n = initialBlockPoolSize + created + 1
    BY <1>1, <1>3 DEF Blocks
  <2>2. n \in Fresh /\ Fresh' = Fresh \ {n}
    BY <1>1, <1>3, <2>1 DEF Fresh, Blocks
  <2>3. created' \in Nat /\ created' <= MaxCreated /\ initialBlockPoolIndex' \in Nat
    BY <1>1, <1>3
  <2> QED BY <1>1, <1>3, <2>1, <2>2, <2>3, FreshTaken, Zenon
<1> QED BY <1>2, <1>3, Zenon DEF Create

LEMMA AddStep ==
    ASSUME Fitting, Inv, NEW t \in Threads, NEW n \in Blocks, Add(t, n)
    PROVE  Inv'
<1>1. /\ pc[t] = "idle" /\ owner[n] = t /\ UNCHANGED <<pools, freeListHead, freeListNext>>
      /\ owner' = [owner EXCEPT ![n] = nullptr]
      /\ freeListRefs' = [freeListRefs EXCEPT ![n] = freeListRefs[n] + SHOULD_BE_ON_FREELIST]
      /\ loc[t] \in Locals /\ t /= nullptr
      /\ freeListRefs \in [Blocks -> Nat] /\ owner \in [Blocks -> Threads \cup {nullptr}]
  BY Zenon DEF Add, Refs, Inv, Types, Fitting
<1>2. Idle(n) /\ n \notin Fresh /\ freeListRefs[n] \in Nat
  BY <1>1, Zenon DEF Inv, AllBlocks, Block, Idle, OnList, LeftOver, Put, Taken, Out
<1>3. /\ freeListRefs[n] + SHOULD_BE_ON_FREELIST \in Nat
      /\ freeListRefs'[n] = freeListRefs[n] + SHOULD_BE_ON_FREELIST /\ owner'[n] = nullptr
  <2>1. freeListRefs'[n] = freeListRefs[n] + SHOULD_BE_ON_FREELIST /\ owner'[n] = nullptr
    BY <1>1, Zenon
  <2>2. freeListRefs[n] + SHOULD_BE_ON_FREELIST \in Nat
    BY <1>2, TopBit
  <2> QED BY <2>1, <2>2, Zenon
<1>4. /\ initialBlockPoolIndex' \in Nat /\ created' \in Nat /\ created' <= MaxCreated
      /\ freeListHead' \in Ptr /\ freeListNext' = freeListNext
      /\ Listed' = Listed /\ Fresh' = Fresh /\ Ranked(freeListHead, freeListNext)'
  BY <1>1, SamePool, SameList, Zenon DEF Inv, Types, pools
<1>5. Out(n)'
  BY <1>2, <1>3, <1>4, Zenon DEF Out, Idle
<1>6. CASE freeListRefs[n] = 0
  <2> DEFINE k == [loc[t] EXCEPT !.node = n, !.in = "add"]
  <2>1. k \in Locals /\ k.node = n
    BY <1>1, Zenon DEF Locals
  <2>2. Moves(t, "add", k)
    <3>1. loc' = [loc EXCEPT ![t] = k] /\ pc' = [pc EXCEPT ![t] = "add"]
      BY <1>6, Zenon DEF Add, Goto, Inv, Types
    <3> QED BY <2>1, <3>1, Zenon DEF Moves, Pcs, Early
  <2> HIDE DEF k
  <2>3. Knows("add", k)
    BY <2>1, Zenon DEF Knows
  <2>4. Others(t) /\ pc'[t] = "add" /\ loc'[t] = k
    BY <2>2, Moved, Zenon DEF Inv
  <2>5. /\ Referring(t) = {} /\ Putting(t) = {} /\ Taking(t) = {}
        /\ Referring(t)' = {} /\ Putting(t)' = {n} /\ Taking(t)' = {}
    BY <1>1, <2>1, <2>4, Zenon DEF Referring, Putting, Taking
  <2>7. Users(n)' = {} /\ Putters(n)' = {t} /\ Takers(n)' = {}
    <3>1. /\ Users(n)' = Users(n) /\ Putters(n)' = Putters(n) \cup {t} /\ Takers(n)' = Takers(n) \ {t}
          /\ Count(n) = 0 <=> Users(n) = {}
      BY <2>4, <2>5, Holders, Zenon
    <3>2. Count(n) = 0 /\ Putters(n) = {} /\ Takers(n) = {}
      BY <1>2, <1>6, Zenon DEF Idle
    <3> QED BY <3>1, <3>2, Zenon
  <2>8. freeListRefs'[n] = SHOULD_BE_ON_FREELIST
    BY <1>3, <1>6, TopBit
  <2>9. Put(n, t)'
    BY <1>5, <2>4, <2>7, <2>8, Zenon DEF Put, Late
  <2>10. Block(n)'
    BY <2>9, Zenon DEF Block
  <2> QED BY Zenon, <1>1, <1>3, <1>4, <2>2, <2>3, <2>5, <2>10, Concern
<1>7. CASE freeListRefs[n] /= 0
  <2>1. Moves(t, "idle", loc[t]) /\ Knows("idle", loc[t])
    BY <1>1, <1>7, Zenon DEF Add, Goto, Inv, Types, Moves, Knows, Pcs, Early, Late
  <2>2. Others(t) /\ pc'[t] = "idle"
    BY <2>1, Moved, Zenon DEF Inv
  <2>3. /\ Referring(t) = {} /\ Putting(t) = {} /\ Taking(t) = {}
        /\ Referring(t)' = {} /\ Putting(t)' = {} /\ Taking(t)' = {}
    BY <1>1, <2>2, Zenon DEF Referring, Putting, Taking
  <2>4. /\ Users(n)' = Users(n) /\ Count(n)' = Count(n) /\ Users(n) /= {}
        /\ Putters(n)' = Putters(n) /\ Takers(n)' = Takers(n)
    BY <1>2, <1>7, <2>2, <2>3, Holders, Zenon DEF Idle
  <2>5. LeftOver(n)'
    BY <1>2, <1>3, <1>5, <2>4, Zenon DEF LeftOver, Idle
  <2>6. Block(n)'
    BY <2>5, Zenon DEF Block
  <2> QED BY Zenon, <1>1, <1>3, <1>4, <2>1, <2>3, <2>6, Concern
<1> QED BY <1>6, <1>7, Zenon

LEMMA UnrefStep == ASSUME Fitting, Inv, NEW t \in Threads, Unref(t) PROVE Inv'
<1>1. /\ pc[t] = "unref" /\ loc[t] \in Locals /\ loc[t].prevHead \in Blocks
      /\ UNCHANGED <<pools, freeListHead, freeListNext, owner>>
      /\ freeListRefs \in [Blocks -> Nat] /\ owner \in [Blocks -> Threads \cup {nullptr}]
  BY Zenon DEF Unref, Inv, Types, Known, Knows
<1>2. PICK n \in Blocks : n = loc[t].prevHead
  BY <1>1, Zenon
<1>3. /\ freeListRefs' = [freeListRefs EXCEPT ![n] = freeListRefs[n] - 1]
      /\ freeListRefs[n] \in Nat
      /\ owner[n] \in Threads \cup {nullptr} /\ owner' = [owner EXCEPT ![n] = owner[n]]
  BY <1>1, <1>2, Zenon DEF Unref, Refs
<1>4. freeListRefs'[n] = freeListRefs[n] - 1 /\ owner'[n] = owner[n]
  BY <1>1, <1>3, Zenon
<1>5. /\ initialBlockPoolIndex' \in Nat /\ created' \in Nat /\ created' <= MaxCreated
      /\ freeListHead' \in Ptr /\ freeListNext' = freeListNext
      /\ Listed' = Listed /\ Fresh' = Fresh /\ Ranked(freeListHead, freeListNext)'
  BY <1>1, SamePool, SameList, Zenon DEF Inv, Types, pools
<1>6. Out(n)' <=> Out(n)
  BY <1>4, <1>5, Zenon DEF Out
<1>7. Referring(t) = {n} /\ Putting(t) = {} /\ Taking(t) = {}
  BY <1>1, <1>2, Zenon DEF Referring, Putting, Taking
<1>8. Block(n) /\ t \in Users(n)
  BY <1>7, Zenon DEF Inv, AllBlocks, Users
<1>9. Count(n) \in Nat /\ Count(n) <= Cardinality(Threads) /\ Count(n) /= 0
  BY <1>8, Counts, Zenon
<1>10. /\ Cardinality(Threads) \in Nat /\ Cardinality(Threads) + 2 < SHOULD_BE_ON_FREELIST
       /\ SHOULD_BE_ON_FREELIST \in Nat
  BY FS_CardinalityType, TopBit, Zenon DEF Fitting
<1>11. freeListRefs[n] - 1 \in Nat
  <2>1. freeListRefs[n] >= 1
    <3>1. ASSUME NEW u \in Threads, Put(n, u) PROVE freeListRefs[n] >= 1
      <4>1. pc[u] \in Early \cup Late
        BY <3>1, Zenon DEF Put, Putters, Putting, Early, Late
      <4>2. freeListRefs[n] = SHOULD_BE_ON_FREELIST \/ freeListRefs[n] = Count(n) + 1
        BY <3>1, <4>1, Zenon DEF Put
      <4> QED BY <1>9, <1>10, <4>2
    <3>2. ASSUME NEW u \in Threads, Taken(n, u) PROVE freeListRefs[n] >= 1
      BY <1>9, <3>2 DEF Taken
    <3>3. ASSUME Idle(n) \/ OnList(n) \/ LeftOver(n) PROVE freeListRefs[n] >= 1
      <4>1. \/ freeListRefs[n] = Count(n) \/ freeListRefs[n] = Count(n) + 1
            \/ freeListRefs[n] = Count(n) + SHOULD_BE_ON_FREELIST
        BY <3>3, Zenon DEF Idle, OnList, LeftOver
      <4> QED BY <1>9, <1>10, <4>1
    <3> QED BY <1>8, <3>1, <3>2, <3>3, Zenon DEF Block
  <2> QED BY <1>3, <2>1
<1>12. CASE freeListRefs[n] = SHOULD_BE_ON_FREELIST + 1
  <2> DEFINE k == [loc[t] EXCEPT !.node = n, !.prevHead = loc[t].head]
  <2>1. k \in Locals /\ k.node = n
    BY <1>1, Zenon DEF Locals
  <2>2. Moves(t, "add", k)
    <3>1. loc' = [loc EXCEPT ![t] = k] /\ pc' = [pc EXCEPT ![t] = "add"]
      BY <1>2, <1>12, Zenon DEF Unref, Goto, Inv, Types
    <3> QED BY <2>1, <3>1, Zenon DEF Moves, Pcs, Early
  <2> HIDE DEF k
  <2>3. Knows("add", k)
    BY <2>1, Zenon DEF Knows
  <2>4. Others(t) /\ pc'[t] = "add" /\ loc'[t] = k
    BY <2>2, Moved, Zenon DEF Inv
  <2>5. Referring(t)' = {} /\ Putting(t)' = {n} /\ Taking(t)' = {}
    <3>1. Putting(t)' = {loc'[t].node} /\ Referring(t)' = {} /\ Taking(t)' = {}
      BY <2>4, Zenon DEF Referring, Putting, Taking
    <3> QED BY <2>1, <2>4, <3>1, Zenon
  <2>6. LeftOver(n) /\ Count(n) = 1
    <3>1. ~Idle(n) /\ ~OnList(n)
      <4>1. freeListRefs[n] /= Count(n) /\ freeListRefs[n] /= Count(n) + 1
        BY <1>9, <1>10, <1>12
      <4> QED BY <4>1, Zenon DEF Idle, OnList
    <3>2. ASSUME NEW u \in Threads, Put(n, u) PROVE FALSE
      <4>1. pc[u] \in Early \cup Late
        BY <3>2, Zenon DEF Put, Putters, Putting, Early, Late
      <4>2. CASE pc[u] \in Early
        BY <1>8, <3>2, <4>2, Zenon DEF Put
      <4>3. CASE pc[u] \in Late
        BY <1>9, <1>10, <1>12, <3>2, <4>3 DEF Put
      <4> QED BY <4>1, <4>2, <4>3, Zenon
    <3>3. ASSUME NEW u \in Threads, Taken(n, u) PROVE FALSE
      BY <1>9, <1>10, <1>12, <3>3 DEF Taken
    <3>4. LeftOver(n)
      BY <1>8, <3>1, <3>2, <3>3, Zenon DEF Block
    <3> QED BY <1>9, <1>10, <1>12, <3>4 DEF LeftOver
  <2>7. /\ Users(n)' = Users(n) \ {t}
        /\ Putters(n)' = Putters(n) \cup {t} /\ Takers(n)' = Takers(n)
    BY <1>7, <2>4, <2>5, Holders, Zenon
  <2>8. Users(n)' = {}
    <3>1. Users(n) \in SUBSET Threads
      BY Zenon DEF Users
    <3>2. IsFiniteSet(Users(n))
      BY <3>1, FS_Subset, Zenon DEF Fitting
    <3>3. PICK x : Users(n) = {x}
      BY <2>6, <3>2, FS_Singleton, Zenon DEF Count
    <3> QED BY <1>8, <2>7, <3>3, Zenon
  <2>9. freeListRefs'[n] = SHOULD_BE_ON_FREELIST
    BY <1>4, <1>10, <1>12
  <2>10. Put(n, t)'
    BY <1>6, <2>4, <2>6, <2>7, <2>8, <2>9 DEF Put, LeftOver, Late
  <2>11. Block(n)'
    BY <2>10, Zenon DEF Block
  <2> QED BY Zenon, <1>3, <1>5, <1>7, <1>11, <2>2, <2>3, <2>5, <2>11, Concern
<1>13. CASE freeListRefs[n] /= SHOULD_BE_ON_FREELIST + 1
  <2> DEFINE k == [loc[t] EXCEPT !.prevHead = nullptr]
  <2>1. k \in Locals
    BY <1>1, Zenon DEF Locals
  <2>2. Moves(t, "loop", k)
    <3>1. loc' = [loc EXCEPT ![t] = k] /\ pc' = [pc EXCEPT ![t] = "loop"]
      BY <1>2, <1>13, Zenon DEF Unref, Goto, Set, Inv, Types
    <3> QED BY <2>1, <3>1, Zenon DEF Moves, Pcs
  <2> HIDE DEF k
  <2>3. Knows("loop", k)
    BY Zenon DEF Knows, Early, Late
  <2>4. Others(t) /\ pc'[t] = "loop"
    BY <2>2, Moved, Zenon DEF Inv
  <2>5. Referring(t)' = {} /\ Putting(t)' = {} /\ Taking(t)' = {}
    BY <2>4, Zenon DEF Referring, Putting, Taking
  <2>6. /\ Users(n)' = Users(n) \ {t} /\ Count(n)' = Count(n) - 1
        /\ Putters(n)' = Putters(n) /\ Takers(n)' = Takers(n) /\ t \notin Putters(n)
    BY <1>7, <2>4, <2>5, Holders, Zenon
  <2>7. Block(n)'
    <3>1. CASE Idle(n)
      <4>1. Idle(n)'
        BY <1>3, <1>4, <1>5, <1>9, <2>6, <3>1, Zenon DEF Idle
      <4> QED BY <4>1, Zenon DEF Block
    <3>2. CASE OnList(n)
      <4>0. freeListRefs[n] = Count(n) + 1
        BY <3>2, Zenon DEF OnList
      <4>1. freeListRefs'[n] = Count(n)' + 1
        BY <1>4, <1>9, <2>6, <4>0
      <4>2. OnList(n)'
        BY <1>4, <1>5, <2>6, <3>2, <4>1, Zenon DEF OnList
      <4> QED BY <4>2, Zenon DEF Block
    <3>3. CASE LeftOver(n)
      <4>1. Count(n) /= 1
        BY <1>10, <1>13, <3>3 DEF LeftOver
      <4>2. Users(n)' /= {}
        <5>1. Users(n)' = {} => Count(n)' = 0
          BY FS_EmptySet, Zenon DEF Count
        <5> QED BY <1>9, <2>6, <4>1, <5>1
      <4>3. freeListRefs'[n] = Count(n)' + SHOULD_BE_ON_FREELIST
        BY <1>3, <1>4, <1>9, <1>10, <2>6, <3>3 DEF LeftOver
      <4>4. LeftOver(n)'
        BY <1>6, <2>6, <3>3, <4>2, <4>3 DEF LeftOver
      <4> QED BY <4>4, Zenon DEF Block
    <3>4. ASSUME NEW u \in Threads, Put(n, u) PROVE Block(n)'
      <4>1. pc'[u] = pc[u]
        BY <2>4, <2>6, <3>4, Zenon DEF Put, Others
      <4>2. pc[u] \notin Early
        BY <1>8, <3>4, Zenon DEF Put
      <4>3. pc[u] \in Late => freeListRefs'[n] = Count(n)' + 1
        BY <1>3, <1>4, <1>9, <2>6, <3>4 DEF Put
      <4>4. Put(n, u)'
        BY <1>6, <2>6, <3>4, <4>1, <4>2, <4>3 DEF Put
      <4> QED BY <4>4, Zenon DEF Block
    <3>5. ASSUME NEW u \in Threads, Taken(n, u) PROVE Block(n)'
      <4>1. freeListRefs'[n] = Count(n)' + 2
        BY <1>3, <1>4, <1>9, <2>6, <3>5 DEF Taken
      <4>2. Taken(n, u)'
        BY <1>6, <2>6, <3>5, <4>1, Zenon DEF Taken
      <4> QED BY <4>2, Zenon DEF Block
    <3> QED BY <1>8, <3>1, <3>2, <3>3, <3>4, <3>5 DEF Block
  <2> QED BY Zenon, <1>3, <1>5, <1>7, <1>11, <2>2, <2>3, <2>5, <2>7, Concern
<1> QED BY <1>12, <1>13, Zenon

\* The block that a thread is putting on the list.
LEMMA PutBlock ==
    ASSUME Inv, NEW t \in Threads, pc[t] \in Early \cup Late
    PROVE  \E n \in Blocks :
               n = loc[t].node /\ Putting(t) = {n} /\ Referring(t) = {} /\ Taking(t) = {} /\ Put(n, t)
<1>1. PICK n \in Blocks : n = loc[t].node
  BY Zenon DEF Inv, Known, Knows
<1>2. Putting(t) = {n} /\ Referring(t) = {} /\ Taking(t) = {}
  BY <1>1, Zenon DEF Putting, Referring, Taking, Early, Late
<1>3. t \in Putters(n)
  BY <1>2, Zenon DEF Putters
<1>4. Put(n, t)
  BY <1>3, Zenon DEF Inv, AllBlocks, Block, Idle, OnList, LeftOver, Put, Taken
<1> QED BY <1>1, <1>2, <1>4, Zenon

LEMMA SetNextStep == ASSUME Fitting, Inv, NEW t \in Threads, SetNext(t) PROVE Inv'
<1>1. /\ pc[t] = "setnext" /\ pc' = [pc EXCEPT ![t] = "setrefs"]
      /\ UNCHANGED <<pools, freeListHead, freeListRefs, owner, loc>>
      /\ loc[t] \in Locals /\ freeListHead \in Ptr /\ freeListNext \in [Blocks -> Ptr]
  BY Zenon DEF SetNext, Goto, Inv, Types
<1>2. PICK n \in Blocks :
          n = loc[t].node /\ Putting(t) = {n} /\ Referring(t) = {} /\ Taking(t) = {} /\ Put(n, t)
  BY <1>1, PutBlock, Zenon DEF Early
<1>3. Moves(t, "setrefs", loc[t])
  BY <1>1, Zenon DEF Moves, Inv, Types, Pcs, Early
<1>4. Others(t) /\ pc'[t] = "setrefs" /\ pc' \in [Threads -> Pcs] /\ loc' \in [Threads -> Locals]
  BY <1>3, Moved, Zenon DEF Inv
<1>5. loc[t].head \in Ptr
  BY <1>1, Zenon DEF Locals, Ptr
<1>6. /\ freeListNext' \in [Blocks -> Ptr] /\ freeListNext'[n] = loc[t].head
      /\ \A m \in Blocks \ {n} : freeListNext'[m] = freeListNext[m]
  BY <1>1, <1>2, <1>5, Zenon DEF SetNext
<1>7. n \notin Listed /\ Users(n) = {} /\ Putters(n) = {t}
  BY <1>1, <1>2, Zenon DEF Put, Out, Early
<1>8. Listed \subseteq Blocks /\ \A m \in Listed : freeListNext'[m] = freeListNext[m]
  BY <1>6, <1>7, Zenon DEF Listed, Reach
<1>9. Reach(freeListHead, freeListNext') = Listed
  BY <1>1, <1>6, <1>8, ReachKept, Zenon DEF Listed
<1>10. Listed' = Listed
  BY <1>1, <1>9, Zenon DEF Listed, Reach, Closed
<1>11. Ranked(freeListHead, freeListNext)'
  <2>1. PICK rank \in [Blocks -> Int] :
            \A m \in Listed : freeListNext[m] /= nullptr => rank[freeListNext[m]] < rank[m]
    BY Zenon DEF Inv, Ranked, Listed
  <2>2. \A m \in Listed' : freeListNext'[m] /= nullptr => rank[freeListNext'[m]] < rank[m]
    BY <1>8, <1>10, <2>1
  <2> QED BY <2>2, Zenon DEF Ranked, Listed
<1>12. /\ Referring(t)' = Referring(t) /\ Putting(t)' = Putting(t) /\ Taking(t)' = Taking(t)
  BY <1>1, <1>4, Zenon DEF Referring, Putting, Taking
<1>13. \A m \in Blocks : Aside(m, t)
  BY <1>1, <1>4, <1>10, <1>12, SamePool, Zenon DEF Aside, Early
<1>14. AllBlocks'
  BY <1>4, <1>13, Frame, Zenon DEF AllBlocks, Inv
<1>15. Types'
  BY <1>1, <1>4, <1>6, Zenon DEF Inv, Types, pools
<1>16. Known'
  <2> SUFFICES ASSUME NEW u \in Threads PROVE Knows(pc[u], loc[u])'
    BY Zenon DEF Known
  <2>1. CASE u = t
    BY <1>1, <1>2, <1>4, <1>6, <2>1 DEF Knows, Early, Late
  <2>2. CASE u /= t
    <3>1. pc'[u] = pc[u] /\ loc'[u] = loc[u] /\ Knows(pc[u], loc[u])
      BY <1>4, <2>2, Zenon DEF Others, Inv, Known
    <3>2. pc[u] = "unlink" => loc[u].head /= n
      BY <1>7, Zenon DEF Users, Referring
    <3>3. pc[u] \in {"setrefs", "link"} => loc[u].node /= n
      BY <1>7, <2>2, Zenon DEF Putters, Putting
    <3> QED BY <1>6, <3>1, <3>2, <3>3 DEF Knows, Early, Late
  <2> QED BY <2>1, <2>2, Zenon
<1> QED BY <1>11, <1>14, <1>15, <1>16, Zenon DEF Inv

LEMMA SetRefsStep == ASSUME Fitting, Inv, NEW t \in Threads, SetRefs(t) PROVE Inv'
<1>1. /\ pc[t] = "setrefs" /\ pc' = [pc EXCEPT ![t] = "link"]
      /\ UNCHANGED <<pools, freeListHead, freeListNext, owner, loc>>
      /\ freeListRefs \in [Blocks -> Nat] /\ owner \in [Blocks -> Threads \cup {nullptr}]
  BY Zenon DEF SetRefs, Goto, Inv, Types
<1>2. PICK n \in Blocks :
          n = loc[t].node /\ Putting(t) = {n} /\ Referring(t) = {} /\ Taking(t) = {} /\ Put(n, t)
  BY <1>1, PutBlock, Zenon DEF Early
<1>3. Moves(t, "link", loc[t]) /\ Knows("link", loc[t])
  BY <1>1, <1>2, Zenon DEF Moves, Inv, Types, Pcs, Late, Early, Known, Knows
<1>4. Others(t) /\ pc'[t] = "link" /\ loc'[t] = loc[t]
  BY <1>3, Moved, Zenon DEF Inv
<1>5. /\ freeListRefs' = [freeListRefs EXCEPT ![n] = 1] /\ freeListRefs'[n] = 1
      /\ owner[n] \in Threads \cup {nullptr} /\ owner' = [owner EXCEPT ![n] = owner[n]]
      /\ owner'[n] = owner[n]
  BY <1>1, <1>2, Zenon DEF SetRefs, Refs
<1>6. /\ initialBlockPoolIndex' \in Nat /\ created' \in Nat /\ created' <= MaxCreated
      /\ freeListHead' \in Ptr /\ freeListNext' = freeListNext
      /\ Listed' = Listed /\ Fresh' = Fresh /\ Ranked(freeListHead, freeListNext)'
  BY <1>1, SamePool, SameList DEF Inv, Types, pools
<1>7. /\ Referring(t)' = {} /\ Putting(t)' = {n} /\ Taking(t)' = {}
  BY <1>2, <1>4, Zenon DEF Referring, Putting, Taking
<1>8. /\ Count(n)' = 0 /\ Putters(n)' = Putters(n) /\ Takers(n)' = Takers(n)
  <2>1. Users(n) = {}
    BY <1>1, <1>2, Zenon DEF Put, Early
  <2> QED BY <1>2, <1>4, <1>7, <2>1, Holders, Zenon
<1>9. Put(n, t)'
  BY <1>2, <1>4, <1>5, <1>6, <1>8 DEF Put, Out, Early
<1>10. Block(n)'
  BY <1>9, Zenon DEF Block
<1> QED BY Zenon, <1>2, <1>3, <1>5, <1>6, <1>7, <1>10, Concern

\* Return of add_knowing_refcount_is_zero to add or to try_get.
LEMMA ReturnsMoves ==
    ASSUME Inv, NEW t \in Threads, Returns(t)
    PROVE  \E l \in {"idle", "loop"}, k \in Locals : Moves(t, l, k) /\ Knows(l, k)
<1>1. loc[t] \in Locals /\ Blank \in Locals
  BY Zenon DEF Inv, Types, Locals, Blank
<1>2. CASE loc[t].in = "add"
  BY <1>1, <1>2, Zenon DEF Returns, Return, Moves, Knows, Pcs, Early, Late
<1>3. CASE loc[t].in /= "add"
  <2> DEFINE k == [Blank EXCEPT !.head = loc[t].prevHead, !.in = "try_get"]
  <2>1. k \in Locals
    BY <1>1, Zenon DEF Blank, Locals
  <2>2. loc' = [loc EXCEPT ![t] = k] /\ pc' = [pc EXCEPT ![t] = "loop"]
    BY <1>3, Zenon DEF Returns, Goto
  <2> HIDE DEF k
  <2> QED BY <2>1, <2>2, Zenon DEF Moves, Knows, Pcs, Early, Late
<1> QED BY <1>2, <1>3, Zenon

LEMMA LinkStep == ASSUME Fitting, Inv, NEW t \in Threads, Link(t) PROVE Inv'
<1>1. /\ pc[t] = "link" /\ UNCHANGED <<pools, freeListRefs, freeListNext, owner>>
      /\ loc[t] \in Locals /\ freeListNext[loc[t].node] = loc[t].head
      /\ freeListRefs \in [Blocks -> Nat] /\ owner \in [Blocks -> Threads \cup {nullptr}]
      /\ freeListNext \in [Blocks -> Ptr] /\ freeListHead \in Ptr
  BY Zenon DEF Link, Inv, Types, Known, Knows
<1>2. PICK n \in Blocks :
          n = loc[t].node /\ Putting(t) = {n} /\ Referring(t) = {} /\ Taking(t) = {} /\ Put(n, t)
  BY <1>1, PutBlock, Zenon DEF Late
<1>3. CASE freeListHead /= loc[t].head
  <2> DEFINE k == [loc[t] EXCEPT !.head = freeListHead]
  <2>1. k \in Locals /\ k.node = n
    BY <1>1, <1>2, Zenon DEF Locals, Ptr
  <2>2. Moves(t, "again", k) /\ UNCHANGED shared
    <3>1. loc' = [loc EXCEPT ![t] = k] /\ pc' = [pc EXCEPT ![t] = "again"] /\ UNCHANGED freeListHead
      BY <1>3, Zenon DEF Link, Set, Goto, Inv, Types
    <3> QED BY <1>1, <2>1, <3>1, Zenon DEF Moves, Pcs, Late, shared, pools
  <2> HIDE DEF k
  <2>3. Knows("again", k)
    BY <2>1, Zenon DEF Knows
  <2>4. pc'[t] = "again" /\ loc'[t] = k
    BY <2>2, Moved, Zenon DEF Inv
  <2>5. /\ Referring(t)' = Referring(t) /\ Putting(t)' = Putting(t) /\ Taking(t)' = Taking(t)
    BY <1>2, <2>1, <2>4, Zenon DEF Referring, Putting, Taking
  <2> QED BY <1>1, <2>2, <2>3, <2>5, Quiet, Zenon DEF Early
<1>4. CASE freeListHead = loc[t].head
  <2>1. freeListHead' = n /\ Returns(t) /\ freeListNext[n] = freeListHead
    BY <1>1, <1>2, <1>4, Zenon DEF Link
  <2>2. PICK l \in {"idle", "loop"}, k \in Locals : Moves(t, l, k) /\ Knows(l, k)
    BY <2>1, ReturnsMoves, Zenon
  <2>3. Others(t) /\ pc'[t] = l
    BY <2>2, Moved, Zenon DEF Inv
  <2>4. Referring(t)' = {} /\ Putting(t)' = {} /\ Taking(t)' = {}
    BY <2>3, Zenon DEF Referring, Putting, Taking
  <2>5. /\ Count(n)' = Count(n) /\ Putters(n)' = Putters(n) \ {t} /\ Takers(n)' = Takers(n)
    BY <1>2, <2>3, <2>4, Holders, Zenon
  <2>6. n \notin Listed
    BY <1>2, Zenon DEF Put, Out
  <2>7. Listed' = Listed \cup {n} /\ Ranked(freeListHead, freeListNext)'
    <3>1. Reach(n, freeListNext) = Listed \cup {n}
      BY <1>1, <2>1, ReachPush DEF Listed
    <3>2. Ranked(n, freeListNext)
      BY <1>1, <2>1, <2>6, RankPush, Zenon DEF Listed, Inv
    <3> QED BY <1>1, <2>1, <3>1, <3>2 DEF Listed, Ranked, Reach, Closed
  <2>8. /\ freeListRefs[n] \in Nat /\ owner[n] \in Threads \cup {nullptr}
        /\ freeListRefs' = [freeListRefs EXCEPT ![n] = freeListRefs[n]]
        /\ owner' = [owner EXCEPT ![n] = owner[n]]
        /\ freeListRefs'[n] = freeListRefs[n] /\ owner'[n] = owner[n]
    BY <1>1, Zenon
  <2>9. /\ initialBlockPoolIndex' \in Nat /\ created' \in Nat /\ created' <= MaxCreated
        /\ freeListHead' \in Ptr /\ freeListNext' = freeListNext /\ Fresh' = Fresh
    BY <1>1, <2>1, SamePool, Zenon DEF Inv, Types, pools, Ptr
  <2>10. OnList(n)'
    BY <1>1, <1>2, <2>5, <2>7, <2>8, <2>9 DEF OnList, Put, Out, Late
  <2>11. Block(n)'
    BY <2>10, Zenon DEF Block
  <2> QED BY Zenon, <1>2, <2>2, <2>4, <2>7, <2>8, <2>9, <2>11, Concern
<1> QED BY <1>3, <1>4, Zenon

LEMMA AgainStep == ASSUME Fitting, Inv, NEW t \in Threads, Again(t) PROVE Inv'
<1>1. /\ pc[t] = "again" /\ UNCHANGED <<pools, freeListHead, freeListNext, owner>>
      /\ freeListRefs \in [Blocks -> Nat] /\ owner \in [Blocks -> Threads \cup {nullptr}]
  BY Zenon DEF Again, Inv, Types
<1>2. PICK n \in Blocks :
          n = loc[t].node /\ Putting(t) = {n} /\ Referring(t) = {} /\ Taking(t) = {} /\ Put(n, t)
  BY <1>1, PutBlock, Zenon DEF Late
<1>3. /\ freeListRefs[n] \in Nat /\ owner[n] \in Threads \cup {nullptr}
      /\ owner' = [owner EXCEPT ![n] = owner[n]] /\ owner'[n] = owner[n]
      /\ freeListRefs' = [freeListRefs EXCEPT ![n] = freeListRefs[n] + SHOULD_BE_ON_FREELIST - 1]
  BY <1>1, <1>2, Zenon DEF Again, Refs
<1>4. freeListRefs[n] = Count(n) + 1 /\ Count(n) \in Nat /\ (Count(n) = 0 <=> Users(n) = {})
  BY <1>1, <1>2, Counts, Zenon DEF Put, Late
<1>5. /\ freeListRefs[n] + SHOULD_BE_ON_FREELIST - 1 \in Nat
      /\ freeListRefs'[n] = Count(n) + SHOULD_BE_ON_FREELIST
  <2>1. freeListRefs[n] + SHOULD_BE_ON_FREELIST - 1 = Count(n) + SHOULD_BE_ON_FREELIST
    BY <1>4, TopBit
  <2> QED BY <1>1, <1>3, <1>4, <2>1, TopBit
<1>6. /\ initialBlockPoolIndex' \in Nat /\ created' \in Nat /\ created' <= MaxCreated
      /\ freeListHead' \in Ptr /\ freeListNext' = freeListNext
      /\ Listed' = Listed /\ Fresh' = Fresh /\ Ranked(freeListHead, freeListNext)'
  BY <1>1, SamePool, SameList, Zenon DEF Inv, Types, pools
<1>7. Out(n)'
  BY <1>2, <1>3, <1>6, Zenon DEF Put, Out
<1>8. CASE freeListRefs[n] = 1
  <2>1. Moves(t, "setnext", loc[t]) /\ Knows("setnext", loc[t])
    BY <1>2, <1>8, Zenon DEF Again, Goto, Moves, Inv, Types, Pcs, Early, Knows
  <2>2. Others(t) /\ pc'[t] = "setnext" /\ loc'[t] = loc[t]
    BY <2>1, Moved, Zenon DEF Inv
  <2>3. Referring(t)' = {} /\ Putting(t)' = {n} /\ Taking(t)' = {}
    BY <1>2, <2>2, Zenon DEF Referring, Putting, Taking
  <2>4. Users(n)' = {} /\ Count(n) = 0 /\ Putters(n)' = Putters(n) /\ Takers(n)' = Takers(n)
    <3>1. Users(n)' = Users(n) /\ Putters(n)' = Putters(n) /\ Takers(n)' = Takers(n)
      BY <1>2, <2>2, <2>3, Holders
    <3>2. Count(n) = 0
      BY <1>4, <1>8
    <3> QED BY <1>4, <3>1, <3>2, Zenon
  <2>5. freeListRefs'[n] = SHOULD_BE_ON_FREELIST
    <3>1. SHOULD_BE_ON_FREELIST \in Nat /\ freeListRefs'[n] = 0 + SHOULD_BE_ON_FREELIST
      BY <1>5, <2>4, TopBit, Zenon
    <3> QED BY <3>1
  <2>6. Put(n, t)'
    BY <1>2, <1>7, <2>2, <2>4, <2>5, Zenon DEF Put, Late
  <2>7. Block(n)'
    BY <2>6, Zenon DEF Block
  <2> QED BY ZenonT(40), <1>2, <1>3, <1>5, <1>6, <2>1, <2>3, <2>7, Concern
<1>9. CASE freeListRefs[n] /= 1
  <2>1. PICK l \in {"idle", "loop"}, k \in Locals : Moves(t, l, k) /\ Knows(l, k)
    BY <1>2, <1>9, ReturnsMoves, Zenon DEF Again
  <2>2. Others(t) /\ pc'[t] = l
    BY <2>1, Moved, Zenon DEF Inv
  <2>3. Referring(t)' = {} /\ Putting(t)' = {} /\ Taking(t)' = {}
    BY <2>2, Zenon DEF Referring, Putting, Taking
  <2>4. /\ Users(n)' = Users(n) /\ Count(n)' = Count(n)
        /\ Putters(n)' = Putters(n) \ {t} /\ Takers(n)' = Takers(n)
    BY <1>2, <2>2, <2>3, Holders, Zenon
  <2>5. Users(n) /= {}
    BY <1>4, <1>9
  <2>6. LeftOver(n)'
    BY <1>2, <1>5, <1>7, <2>4, <2>5 DEF LeftOver, Put
  <2>7. Block(n)'
    BY <2>6, Zenon DEF Block
  <2> QED BY Zenon, <1>2, <1>3, <1>5, <1>6, <2>1, <2>3, <2>7, Concern
<1> QED BY <1>8, <1>9, Zenon

---------------------------------------------------------------------------

LEMMA InvInit == Fitting /\ Init => Inv
<1> SUFFICES ASSUME Fitting, Init PROVE Inv
  BY Zenon
<1>1. Types /\ Known
  <2>1. Blank \in Locals
    BY Zenon DEF Blank, Locals
  <2>2. Types
    BY <2>1 DEF Fitting, Init, Types, Pcs, Ptr
  <2>3. Known
    BY Zenon DEF Init, Known, Knows, Early, Late
  <2> QED BY <2>2, <2>3, Zenon
<1>2. Listed = {}
  <2>1. {} \in SUBSET Blocks /\ Closed(freeListHead, freeListNext, {})
    BY Zenon DEF Init, Closed
  <2> QED BY <2>1, Zenon DEF Listed, Reach
<1>3. Ranked(freeListHead, freeListNext)
  <2>1. [n \in Blocks |-> 0] \in [Blocks -> Int]
    OBVIOUS
  <2> QED BY <1>2, <2>1, Zenon DEF Ranked, Listed
<1>4. AllBlocks
  <2> SUFFICES ASSUME NEW n \in Blocks PROVE Idle(n)
    BY Zenon DEF AllBlocks, Block
  <2>1. Users(n) = {} /\ Putters(n) = {} /\ Takers(n) = {}
    BY Zenon DEF Init, Users, Putters, Takers, Referring, Putting, Taking
  <2>2. Count(n) = 0
    BY <2>1, FS_EmptySet, Zenon DEF Count
  <2>3. n \in Fresh
    BY DEF Fitting, Init, Fresh, Blocks
  <2> QED BY <1>2, <2>1, <2>2, <2>3, Zenon DEF Idle, Init
<1> QED BY <1>1, <1>3, <1>4, Zenon DEF Inv

LEMMA InvStep == Fitting /\ Inv /\ [Next]_vars => Inv'
<1> SUFFICES ASSUME Fitting, Inv, [Next]_vars PROVE Inv'
  BY Zenon
<1>1. ASSUME NEW t \in Threads, requisition_block(t) PROVE Inv'
  BY <1>1, TryPoolStep, TakePoolStep, CreateStep, Zenon DEF requisition_block
<1>2. ASSUME NEW t \in Threads, try_get(t) PROVE Inv'
  BY <1>2, LoadHeadStep, LoadRefsStep, TakeRefStep, LoadNextStep, UnlinkStep, GotStep, UnrefStep
     DEF try_get
<1>3. ASSUME NEW t \in Threads, add_knowing_refcount_is_zero(t) PROVE Inv'
  BY <1>3, AddLoadStep, SetNextStep, SetRefsStep, LinkStep, AgainStep
     DEF add_knowing_refcount_is_zero
<1>4. CASE UNCHANGED vars
  <2>1. UNCHANGED shared /\ pc' = pc /\ loc' = loc
    BY <1>4, Zenon DEF vars
  <2>2. Types'
    BY <2>1, Zenon DEF Inv, Types, shared
  <2>3. Known'
    BY <2>1, Zenon DEF Inv, Known, Knows, shared
  <2>4. Listed' = Listed /\ Fresh' = Fresh /\ Ranked(freeListHead, freeListNext)'
    BY <2>1, SameList, SamePool, Zenon DEF Inv, shared, pools
  <2>5. AllBlocks'
    <3> SUFFICES ASSUME NEW n \in Blocks PROVE Block(n)'
      BY Zenon DEF AllBlocks
    <3>1. Users(n)' = Users(n) /\ Putters(n)' = Putters(n) /\ Takers(n)' = Takers(n)
      BY <2>1, Zenon DEF Users, Putters, Takers, Referring, Putting, Taking
    <3>2. Count(n)' = Count(n)
      BY <3>1, Zenon DEF Count
    <3> QED BY <2>1, <2>4, <3>1, <3>2
            DEF Inv, AllBlocks, Block, Idle, OnList, LeftOver, Put, Taken, Out, shared
  <2> QED BY <2>2, <2>3, <2>4, <2>5, Zenon DEF Inv
<1> QED BY <1>1, <1>2, <1>3, <1>4, AddStep DEF Next

\* The count of a block tells its place.
LEMMA CountBounds ==
    ASSUME Fitting, NEW n \in Blocks
    PROVE  Count(n) \in Nat /\ Count(n) + 2 < SHOULD_BE_ON_FREELIST /\ SHOULD_BE_ON_FREELIST \in Nat
<1>1. IsFiniteSet(Users(n)) /\ Cardinality(Users(n)) <= Cardinality(Threads)
  <2>1. Users(n) \in SUBSET Threads
    BY Zenon DEF Users
  <2> QED BY <2>1, FS_Subset, Zenon DEF Fitting
<1>2. Cardinality(Users(n)) \in Nat /\ Cardinality(Threads) \in Nat
  BY <1>1, FS_CardinalityType, Zenon DEF Fitting
<1> QED BY <1>1, <1>2, TopBit DEF Count, Fitting

\* Putters are in one of the two stages of add_knowing_refcount_is_zero.
LEMMA Stages ==
    ASSUME NEW n \in Blocks, NEW t \in Threads, Put(n, t)
    PROVE  pc[t] \in Early \/ pc[t] \in Late
  BY Zenon DEF Put, Putters, Putting, Early, Late

LEMMA PlaceOfBlock ==
    ASSUME Fitting, Inv, NEW n \in Blocks
    PROVE  \E x : Places(n) = {x}
<1> DEFINE left == {<<"left", m>> : m \in {n} \cap Left}
<1>1. Places(n) = {<<"fresh", m>> : m \in {n} \cap Fresh}
        \cup {<<"owned", t>> : t \in {owner[n]} \ {nullptr}}
        \cup {<<"listed", m>> : m \in {n} \cap Listed}
        \cup {<<"put", t>> : t \in Putters(n)}
        \cup {<<"taken", t>> : t \in Takers(n)}
        \cup left
  BY Zenon DEF Places, Putters, Takers
<1>2. n \in Left <=> freeListRefs[n] > SHOULD_BE_ON_FREELIST /\ Putters(n) = {}
  BY Zenon DEF Left, Putters
<1>3. Block(n) /\ freeListRefs[n] \in Nat
  BY Zenon DEF Inv, Types, AllBlocks
<1>4. Count(n) \in Nat /\ Count(n) + 2 < SHOULD_BE_ON_FREELIST /\ SHOULD_BE_ON_FREELIST \in Nat
  BY CountBounds, Zenon
<1>5. CASE Idle(n)
  <2>1. n \notin Left
    BY <1>2, <1>4, <1>5 DEF Idle
  <2>2. CASE n \in Fresh
    <3>1. Places(n) = {<<"fresh", n>>}
      BY <1>1, <1>5, <2>1, <2>2, Zenon DEF Idle
    <3> QED BY <3>1, Zenon
  <2>3. CASE n \notin Fresh
    <3>1. Places(n) = {<<"owned", owner[n]>>}
      BY <1>1, <1>5, <2>1, <2>3 DEF Idle
    <3> QED BY <3>1, Zenon
  <2> QED BY <2>2, <2>3, Zenon
<1>6. CASE OnList(n)
  <2>1. n \notin Left
    BY <1>2, <1>4, <1>6 DEF OnList
  <2>2. Places(n) = {<<"listed", n>>}
    BY <1>1, <1>6, <2>1, Zenon DEF OnList
  <2> QED BY <2>2, Zenon
<1>7. CASE LeftOver(n)
  <2>1. n \in Left
    <3>1. Count(n) /= 0
      <4>1. IsFiniteSet(Users(n))
        <5>1. Users(n) \in SUBSET Threads
          BY Zenon DEF Users
        <5> QED BY <5>1, FS_Subset, Zenon DEF Fitting
      <4> QED BY <1>7, <4>1, FS_EmptySet, Zenon DEF LeftOver, Count
    <3>2. freeListRefs[n] > SHOULD_BE_ON_FREELIST
      BY <1>4, <1>7, <3>1 DEF LeftOver
    <3> QED BY <1>2, <1>7, <3>2, Zenon DEF LeftOver
  <2>2. Places(n) = {<<"left", n>>}
    BY <1>1, <1>7, <2>1 DEF LeftOver, Out
  <2> QED BY <2>2, Zenon
<1>8. ASSUME NEW t \in Threads, Put(n, t) PROVE \E x : Places(n) = {x}
  <2>1. n \notin Left
    BY <1>2, <1>8, Zenon DEF Put
  <2>2. Places(n) = {<<"put", t>>}
    BY <1>1, <1>8, <2>1 DEF Put, Out
  <2> QED BY <2>2, Zenon
<1>9. ASSUME NEW t \in Threads, Taken(n, t) PROVE \E x : Places(n) = {x}
  <2>1. n \notin Left
    BY <1>2, <1>4, <1>9 DEF Taken
  <2>2. Places(n) = {<<"taken", t>>}
    BY <1>1, <1>9, <2>1 DEF Taken, Out
  <2> QED BY <2>2, Zenon
<1> QED BY Zenon, <1>3, <1>5, <1>6, <1>7, <1>8, <1>9 DEF Block

\* A block is in one place at every moment: never handed out twice, never lost
\* between try_get, which gives up its reference, and add, which leaves the block
\* to the last thread that refers to it.
THEOREM BlocksInOnePlace == Fitting => (Spec => []OnePlace)
<1> SUFFICES ASSUME Fitting PROVE Spec => []OnePlace
  BY Zenon
<1>1. Inv => OnePlace
  BY PlaceOfBlock, FS_Singleton, Zenon DEF OnePlace
<1>2. (Init => Inv) /\ (Inv /\ [Next]_vars => Inv')
  BY InvInit, InvStep, Zenon
<1> QED BY <1>1, <1>2, PTL DEF Spec

\* The assertion of try_get, that a block just taken off the list has not the
\* bit SHOULD_BE_ON_FREELIST, never fails.
THEOREM AssertionHolds == Fitting => (Spec => []GotNotMarked)
<1> SUFFICES ASSUME Fitting PROVE Spec => []GotNotMarked
  BY Zenon
<1>1. Inv => GotNotMarked
  <2> SUFFICES ASSUME Inv, NEW t \in Threads, pc[t] = "got"
               PROVE  freeListRefs[loc[t].head] < SHOULD_BE_ON_FREELIST
    BY Zenon DEF GotNotMarked, Taking
  <2>1. PICK n \in Blocks : n = loc[t].head
    BY Zenon DEF Inv, Known, Knows
  <2>2. t \in Takers(n)
    BY <2>1, Zenon DEF Takers, Taking
  <2>3. Taken(n, t)
    BY <2>2, Zenon DEF Inv, AllBlocks, Block, Idle, OnList, LeftOver, Put, Taken
  <2> QED BY <2>1, <2>3, CountBounds, Zenon DEF Taken
<1>2. (Init => Inv) /\ (Inv /\ [Next]_vars => Inv')
  BY InvInit, InvStep, Zenon
<1> QED BY <1>1, <1>2, PTL DEF Spec

\* A block keeps one count for every thread that refers to it, one for the list
\* and one for the thread that took it off: a thread never follows the next
\* pointer of a block that another one may link again.
THEOREM CountsExact == Fitting => (Spec => []RefsCounted)
<1> SUFFICES ASSUME Fitting PROVE Spec => []RefsCounted
  BY Zenon
<1>1. Inv => RefsCounted
  <2> SUFFICES ASSUME Inv PROVE RefsCounted
    BY Zenon
  <2> SUFFICES ASSUME NEW n \in Blocks
               PROVE  LET list == IF n \in Listed \cup UNION {Taking(t) : t \in Threads} THEN 1 ELSE 0
                          held == IF \E t \in Threads : n \in Putting(t) /\ pc[t] \in Late THEN 1 ELSE 0
                      IN  REFS_MASK(freeListRefs[n]) = Count(n) + list + Cardinality(Takers(n)) + held
    BY Zenon DEF RefsCounted, Count, Users, Takers, Late
  <2> DEFINE list == IF n \in Listed \cup UNION {Taking(t) : t \in Threads} THEN 1 ELSE 0
             held == IF \E t \in Threads : n \in Putting(t) /\ pc[t] \in Late THEN 1 ELSE 0
             got == Cardinality(Takers(n))
             Exact == REFS_MASK(freeListRefs[n]) = Count(n) + list + got + held
  <2> SUFFICES Exact
    BY Zenon
  <2>1. /\ list = IF n \in Listed \/ Takers(n) /= {} THEN 1 ELSE 0
        /\ held = IF \E t \in Putters(n) : pc[t] \in Late THEN 1 ELSE 0
    BY Zenon DEF Takers, Putters
  <2>2. /\ Takers(n) = {} => got = 0
        /\ \A t : Takers(n) = {t} => got = 1
    BY FS_EmptySet, FS_Singleton, Zenon
  <2>3. Count(n) \in Nat /\ Count(n) + 2 < SHOULD_BE_ON_FREELIST /\ SHOULD_BE_ON_FREELIST \in Nat
    BY CountBounds, Zenon
  <2>4. /\ REFS_MASK(Count(n)) = Count(n) /\ REFS_MASK(Count(n) + 1) = Count(n) + 1
        /\ REFS_MASK(Count(n) + 2) = Count(n) + 2
        /\ REFS_MASK(Count(n) + SHOULD_BE_ON_FREELIST) = Count(n)
        /\ REFS_MASK(SHOULD_BE_ON_FREELIST) = 0
    BY <2>3, TopBit
  <2> HIDE DEF list, held, got, Exact
  <2>5. CASE Idle(n)
    <3>1. list = 0 /\ got = 0 /\ held = 0
      BY <2>1, <2>2, <2>5, Zenon DEF Idle
    <3>2. freeListRefs[n] = Count(n)
      BY <2>5, Zenon DEF Idle
    <3> QED BY <2>3, <2>4, <3>1, <3>2 DEF Exact
  <2>6. CASE OnList(n)
    <3>1. list = 1 /\ got = 0 /\ held = 0
      BY <2>1, <2>2, <2>6, Zenon DEF OnList
    <3>2. freeListRefs[n] = Count(n) + 1
      BY <2>6, Zenon DEF OnList
    <3> QED BY <2>3, <2>4, <3>1, <3>2 DEF Exact
  <2>7. CASE LeftOver(n)
    <3>1. list = 0 /\ got = 0 /\ held = 0
      BY <2>1, <2>2, <2>7, Zenon DEF LeftOver, Out
    <3>2. freeListRefs[n] = Count(n) + SHOULD_BE_ON_FREELIST
      BY <2>7, Zenon DEF LeftOver
    <3> QED BY <2>3, <2>4, <3>1, <3>2 DEF Exact
  <2>8. ASSUME NEW t \in Threads, Put(n, t)
        PROVE  Exact
    <3>1. list = 0 /\ got = 0
      BY <2>1, <2>2, <2>8, Zenon DEF Put, Out
    <3>2. CASE pc[t] \in Early
      <4>1. pc[t] \notin Late
        BY <3>2, Zenon DEF Early, Late
      <4>2. held = 0
        BY <2>1, <2>8, <4>1, Zenon DEF Put
      <4>3. Count(n) = 0
        BY <2>8, <3>2, FS_EmptySet, Zenon DEF Put, Count
      <4>4. REFS_MASK(freeListRefs[n]) = 0
        BY <2>4, <2>8, <3>2, Zenon DEF Put
      <4> QED BY <3>1, <4>2, <4>3, <4>4 DEF Exact
    <3>3. CASE pc[t] \in Late
      <4>1. held = 1
        BY <2>1, <2>8, <3>3, Zenon DEF Put
      <4>2. freeListRefs[n] = Count(n) + 1
        BY <2>8, <3>3, Zenon DEF Put
      <4> QED BY <2>3, <2>4, <3>1, <4>1, <4>2 DEF Exact
    <3> QED BY <2>8, <3>2, <3>3, Stages, Zenon
  <2>9. ASSUME NEW t \in Threads, Taken(n, t)
        PROVE  Exact
    <3>1. list = 1 /\ got = 1 /\ held = 0
      BY <2>1, <2>2, <2>9, Zenon DEF Taken
    <3> QED BY <2>3, <2>4, <2>9, <3>1 DEF Taken, Exact
  <2>10. Block(n)
    BY Zenon DEF Inv, AllBlocks
  <2> QED BY <2>5, <2>6, <2>7, <2>8, <2>9, <2>10 DEF Block
<1>2. (Init => Inv) /\ (Inv /\ [Next]_vars => Inv')
  BY InvInit, InvStep, Zenon
<1> QED BY <1>1, <1>2, PTL DEF Spec

\* Threads between the test of initialBlockPoolIndex and its increment: the index
\* passes the pool's size by at most one for each of them.
AtPool == {t \in Threads : pc[t] = "pool"}
IndexBound ==
    initialBlockPoolIndex + Cardinality(AtPool) <= initialBlockPoolSize + Cardinality(Threads)

LEMMA IndexStep == Fitting /\ Inv /\ IndexBound /\ [Next]_vars => IndexBound'
<1> SUFFICES ASSUME Fitting, Inv, IndexBound, [Next]_vars PROVE IndexBound'
  BY Zenon
<1>1. /\ initialBlockPoolIndex \in Nat /\ initialBlockPoolSize \in Nat
      /\ Cardinality(Threads) \in Nat /\ IsFiniteSet(Threads)
  BY FS_CardinalityType, Zenon DEF Inv, Types, Fitting
<1>2. IsFiniteSet(AtPool) /\ Cardinality(AtPool) \in Nat
  <2>1. AtPool \in SUBSET Threads
    BY Zenon DEF AtPool
  <2>2. IsFiniteSet(AtPool)
    BY <1>1, <2>1, FS_Subset, Zenon
  <2> QED BY <2>2, FS_CardinalityType, Zenon
<1>3. ASSUME AtPool' = AtPool, initialBlockPoolIndex' = initialBlockPoolIndex PROVE IndexBound'
  BY <1>3, Zenon DEF IndexBound
<1>4. ASSUME NEW t \in Threads, TryPool(t) PROVE IndexBound'
  <2>1. CASE initialBlockPoolIndex >= initialBlockPoolSize
    <3>1. AtPool' = AtPool /\ initialBlockPoolIndex' = initialBlockPoolIndex
      BY <1>4, <2>1, Zenon DEF TryPool, Goto, AtPool, shared, Inv, Types
    <3> QED BY <1>3, <3>1, Zenon
  <2>2. CASE initialBlockPoolIndex < initialBlockPoolSize
    <3>1. /\ pc' = [pc EXCEPT ![t] = "pool"] /\ pc[t] = "idle"
          /\ initialBlockPoolIndex' = initialBlockPoolIndex
      <4>1. ~(initialBlockPoolIndex >= initialBlockPoolSize)
        BY <1>1, <2>2
      <4> QED BY <1>4, <4>1, Zenon DEF TryPool, Goto, shared
    <3>2. AtPool' = AtPool \cup {t} /\ t \notin AtPool /\ AtPool' \in SUBSET Threads
      BY <3>1, Zenon DEF AtPool, Inv, Types
    <3>3. Cardinality(AtPool') <= Cardinality(Threads)
      BY <1>1, <3>2, FS_Subset, Zenon
    <3>4. Cardinality(AtPool') = Cardinality(AtPool) + 1
      BY <1>2, <3>2, FS_AddElement, Zenon
    <3> QED BY <1>1, <1>2, <2>2, <3>1, <3>3, <3>4 DEF IndexBound
  <2> QED BY <1>1, <2>1, <2>2
<1>5. ASSUME NEW t \in Threads, TakePool(t) PROVE IndexBound'
  <2>1. PICK l \in {"idle", "get"} : pc' = [pc EXCEPT ![t] = l]
    BY <1>5, Zenon DEF TakePool, Goto
  <2>2. pc[t] = "pool" /\ initialBlockPoolIndex' = initialBlockPoolIndex + 1
    BY <1>5, Zenon DEF TakePool
  <2>3. AtPool' = AtPool \ {t} /\ t \in AtPool
    BY <2>1, <2>2, Zenon DEF AtPool, Inv, Types
  <2>4. Cardinality(AtPool') = Cardinality(AtPool) - 1
    BY <1>2, <2>3, FS_RemoveElement, Zenon
  <2> QED BY <1>1, <1>2, <2>2, <2>4 DEF IndexBound
<1>6. ASSUME NEW t \in Threads,
             \/ Create(t) \/ try_get(t) \/ add_knowing_refcount_is_zero(t)
             \/ \E n \in Blocks : Add(t, n)
      PROVE IndexBound'
  <2>1. pc[t] /= "pool" /\ initialBlockPoolIndex' = initialBlockPoolIndex
    BY <1>6, Zenon DEF Create, try_get, LoadHead, LoadRefs, TakeRef, LoadNext, Unlink, Got, Unref,
                add_knowing_refcount_is_zero, AddLoad, SetNext, SetRefs, Link, Again, Add,
                shared, pools
  <2>2. \E l \in Pcs \ {"pool"} : pc' = [pc EXCEPT ![t] = l]
    BY <1>6, Zenon DEF Create, try_get, LoadHead, LoadRefs, TakeRef, LoadNext, Unlink, Got, Unref,
                add_knowing_refcount_is_zero, AddLoad, SetNext, SetRefs, Link, Again, Add,
                Returns, Return, Goto, Pcs, Early, Late
  <2>3. AtPool' = AtPool
    BY <2>1, <2>2, Zenon DEF AtPool, Inv, Types
  <2> QED BY <1>3, <2>1, <2>3, Zenon
<1>7. CASE UNCHANGED vars
  BY <1>3, <1>7, Zenon DEF vars, shared, AtPool
<1> QED BY <1>4, <1>5, <1>6, <1>7, Zenon DEF Next, requisition_block

\* The pools, the list and the threads' locals keep their types, and
\* initialBlockPoolIndex, which every thread that found it below the pool's size
\* increments, its bound.
THEOREM TypeCorrect == Fitting => (Spec => []TypeOK)
<1> SUFFICES ASSUME Fitting PROVE Spec => []TypeOK
  BY Zenon
<1>1. Init => IndexBound
  <2> SUFFICES ASSUME Init PROVE IndexBound
    BY Zenon
  <2>1. AtPool = {}
    BY Zenon DEF Init, AtPool
  <2>2. Cardinality(AtPool) = 0 /\ Cardinality(Threads) \in Nat
    BY <2>1, FS_EmptySet, FS_CardinalityType, Zenon DEF Fitting
  <2> QED BY <2>2 DEF Init, IndexBound, Fitting
<1>2. Inv /\ IndexBound => TypeOK
  <2> SUFFICES ASSUME Inv, IndexBound PROVE TypeOK
    BY Zenon
  <2>1. Cardinality(AtPool) \in Nat /\ Cardinality(Threads) \in Nat
    <3>1. AtPool \in SUBSET Threads
      BY Zenon DEF AtPool
    <3>2. IsFiniteSet(AtPool)
      BY <3>1, FS_Subset, Zenon DEF Fitting
    <3> QED BY <3>2, FS_CardinalityType, Zenon DEF Fitting
  <2>2. initialBlockPoolIndex \in 0 .. initialBlockPoolSize + Cardinality(Threads)
    BY <2>1 DEF IndexBound, Inv, Types, Fitting
  <2> QED BY <2>2 DEF Inv, Types, TypeOK, Ptr, Fitting
<1>3. (Init => Inv) /\ (Inv /\ [Next]_vars => Inv') /\ (Inv /\ IndexBound /\ [Next]_vars => IndexBound')
  BY InvInit, InvStep, IndexStep, Zenon
<1> QED BY <1>1, <1>2, <1>3, PTL DEF Spec
=============================================================================
