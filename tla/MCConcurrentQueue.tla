-------------------------- MODULE MCConcurrentQueue --------------------------
(* Instances for TLC of the parts of ConcurrentQueue: the two kinds of producer
   queue (ExplicitProducer and ImplicitProducer), the blocks (BlockPool) and the
   choice of a producer (ConsumerTokens).  Each behaviour is about one of them,
   on. *)
EXTENDS Integers, TLC

CONSTANTS Components, c1, c2, b1, b2, t1, t2, t3

VARIABLES
    on,   \* the component that this behaviour is about
    explicit_tailIndex, explicit_headIndex, explicit_dequeueOptimisticCount,
    explicit_dequeueOvercommit, explicit_sent, explicit_claimed, explicit_pc, explicit_loc,
    explicit_tailBlock, next, explicit_elements, emptyFlags, explicit_blockIndex, pr,
    requisitioned, explicit_p,
    implicit_tailIndex, implicit_headIndex, implicit_dequeueOptimisticCount,
    implicit_dequeueOvercommit, implicit_sent, implicit_claimed, implicit_pc, implicit_loc,
    implicit_tailBlock, freeList, implicit_elements, dequeued, entries, implicit_blockIndex,
    implicit_p,
    initialBlockPoolIndex, created, freeListHead, freeListRefs, freeListNext, owner, pool_pc,
    pool_loc,
    list, producerCount, size, enqueued, globalOffset, token, tokens_pc, tokens_loc

BulkVars == <<explicit_tailIndex, explicit_headIndex, explicit_dequeueOptimisticCount,
    explicit_dequeueOvercommit, explicit_sent, explicit_claimed, explicit_pc, explicit_loc,
    explicit_tailBlock, next, explicit_elements, emptyFlags, explicit_blockIndex, pr,
    requisitioned, explicit_p>>
ImplicitVars == <<implicit_tailIndex, implicit_headIndex, implicit_dequeueOptimisticCount,
    implicit_dequeueOvercommit, implicit_sent, implicit_claimed, implicit_pc, implicit_loc,
    implicit_tailBlock, freeList, implicit_elements, dequeued, entries, implicit_blockIndex,
    implicit_p>>
PoolVars == <<initialBlockPoolIndex, created, freeListHead, freeListRefs, freeListNext, owner,
    pool_pc, pool_loc>>
TokensVars == <<list, producerCount, size, enqueued, globalOffset, token, tokens_pc,
    tokens_loc>>
vars == <<on, BulkVars, ImplicitVars, PoolVars, TokensVars>>

Bulk == INSTANCE ExplicitProducer WITH Consumers <- {c1}, BLOCK_SIZE <- 2, IndexRange <- 32,
    MAX_SUBQUEUE_SIZE <- 32, MaxItems <- 8, MaxBulk <- 3, EXPLICIT_INITIAL_INDEX_SIZE <- 2,
    NoexceptCtor <- TRUE, IndexAllocFails <- FALSE, MaxBlocks <- 5,
    tailIndex <- explicit_tailIndex, headIndex <- explicit_headIndex,
    dequeueOptimisticCount <- explicit_dequeueOptimisticCount,
    dequeueOvercommit <- explicit_dequeueOvercommit, sent <- explicit_sent,
    claimed <- explicit_claimed, pc <- explicit_pc, loc <- explicit_loc,
    tailBlock <- explicit_tailBlock, elements <- explicit_elements,
    blockIndex <- explicit_blockIndex, p <- explicit_p
Race == INSTANCE ExplicitProducer WITH Consumers <- {c1, c2}, BLOCK_SIZE <- 2, IndexRange <- 16,
    MAX_SUBQUEUE_SIZE <- 16, MaxItems <- 5, MaxBulk <- 1, EXPLICIT_INITIAL_INDEX_SIZE <- 2,
    NoexceptCtor <- TRUE, IndexAllocFails <- FALSE, MaxBlocks <- 2,
    tailIndex <- explicit_tailIndex, headIndex <- explicit_headIndex,
    dequeueOptimisticCount <- explicit_dequeueOptimisticCount,
    dequeueOvercommit <- explicit_dequeueOvercommit, sent <- explicit_sent,
    claimed <- explicit_claimed, pc <- explicit_pc, loc <- explicit_loc,
    tailBlock <- explicit_tailBlock, elements <- explicit_elements,
    blockIndex <- explicit_blockIndex, p <- explicit_p
Single == INSTANCE ExplicitProducer WITH Consumers <- {c1}, BLOCK_SIZE <- 2, IndexRange <- 8,
    MAX_SUBQUEUE_SIZE <- 4, MaxItems <- 12, MaxBulk <- 1, EXPLICIT_INITIAL_INDEX_SIZE <- 2,
    NoexceptCtor <- FALSE, IndexAllocFails <- TRUE, MaxBlocks <- 3,
    tailIndex <- explicit_tailIndex, headIndex <- explicit_headIndex,
    dequeueOptimisticCount <- explicit_dequeueOptimisticCount,
    dequeueOvercommit <- explicit_dequeueOvercommit, sent <- explicit_sent,
    claimed <- explicit_claimed, pc <- explicit_pc, loc <- explicit_loc,
    tailBlock <- explicit_tailBlock, elements <- explicit_elements,
    blockIndex <- explicit_blockIndex, p <- explicit_p
Fail == INSTANCE ExplicitProducer WITH Consumers <- {c1}, BLOCK_SIZE <- 2, IndexRange <- 16,
    MAX_SUBQUEUE_SIZE <- 16, MaxItems <- 9, MaxBulk <- 3, EXPLICIT_INITIAL_INDEX_SIZE <- 2,
    NoexceptCtor <- TRUE, IndexAllocFails <- TRUE, MaxBlocks <- 3,
    tailIndex <- explicit_tailIndex, headIndex <- explicit_headIndex,
    dequeueOptimisticCount <- explicit_dequeueOptimisticCount,
    dequeueOvercommit <- explicit_dequeueOvercommit, sent <- explicit_sent,
    claimed <- explicit_claimed, pc <- explicit_pc, loc <- explicit_loc,
    tailBlock <- explicit_tailBlock, elements <- explicit_elements,
    blockIndex <- explicit_blockIndex, p <- explicit_p
Implicit == INSTANCE ImplicitProducer WITH Consumers <- {c1, c2}, BLOCK_SIZE <- 2,
    IndexRange <- 16, MAX_SUBQUEUE_SIZE <- 16, MaxItems <- 4, MaxBulk <- 3,
    IMPLICIT_INITIAL_INDEX_SIZE <- 2, NoexceptCtor <- TRUE, Blocks <- {b1, b2}, MaxIndexes <- 2,
    tailIndex <- implicit_tailIndex, headIndex <- implicit_headIndex,
    dequeueOptimisticCount <- implicit_dequeueOptimisticCount,
    dequeueOvercommit <- implicit_dequeueOvercommit, sent <- implicit_sent,
    claimed <- implicit_claimed, pc <- implicit_pc, loc <- implicit_loc,
    tailBlock <- implicit_tailBlock, elements <- implicit_elements,
    blockIndex <- implicit_blockIndex, p <- implicit_p
Wrap == INSTANCE ImplicitProducer WITH Consumers <- {c1}, BLOCK_SIZE <- 2, IndexRange <- 8,
    MAX_SUBQUEUE_SIZE <- 4, MaxItems <- 10, MaxBulk <- 3, IMPLICIT_INITIAL_INDEX_SIZE <- 2,
    NoexceptCtor <- FALSE, Blocks <- {b1, b2}, MaxIndexes <- 2, tailIndex <- implicit_tailIndex,
    headIndex <- implicit_headIndex, dequeueOptimisticCount <- implicit_dequeueOptimisticCount,
    dequeueOvercommit <- implicit_dequeueOvercommit, sent <- implicit_sent,
    claimed <- implicit_claimed, pc <- implicit_pc, loc <- implicit_loc,
    tailBlock <- implicit_tailBlock, elements <- implicit_elements,
    blockIndex <- implicit_blockIndex, p <- implicit_p
Pool == INSTANCE BlockPool WITH Threads <- {t1, t2, t3}, initialBlockPoolSize <- 1,
    MaxCreated <- 1, canAlloc <- TRUE, pc <- pool_pc, loc <- pool_loc
Tokens == INSTANCE ConsumerTokens WITH Consumers <- {0, 1}, QUOTA <- 2, OffsetRange <- 4,
    MaxProducers <- 2, MaxItems <- 2, MaxBulk <- 1, pc <- tokens_pc, loc <- tokens_loc

\* Consumers are alike, and so are threads and the blocks of a free list.
Symmetry ==
    Permutations({c1, c2}) \cup Permutations({b1, b2}) \cup Permutations({t1, t2, t3})

Init ==
    /\ on \in Components
    /\ CASE on = "bulk" -> Bulk!Init
         [] on = "race" -> Race!Init
         [] on = "single" -> Single!Init
         [] on = "fail" -> Fail!Init
         [] OTHER -> explicit_tailIndex = 0 /\ explicit_headIndex = 0
             /\ explicit_dequeueOptimisticCount = 0
             /\ explicit_dequeueOvercommit = 0 /\ explicit_sent = 0
             /\ explicit_claimed = 0 /\ explicit_pc = 0 /\ explicit_loc = 0
             /\ explicit_tailBlock = 0 /\ next = 0 /\ explicit_elements = 0
             /\ emptyFlags = 0 /\ explicit_blockIndex = 0 /\ pr = 0
             /\ requisitioned = 0 /\ explicit_p = 0
    /\ CASE on = "implicit" -> Implicit!Init
         [] on = "wrap" -> Wrap!Init
         [] OTHER -> implicit_tailIndex = 0 /\ implicit_headIndex = 0
             /\ implicit_dequeueOptimisticCount = 0
             /\ implicit_dequeueOvercommit = 0 /\ implicit_sent = 0
             /\ implicit_claimed = 0 /\ implicit_pc = 0 /\ implicit_loc = 0
             /\ implicit_tailBlock = 0 /\ freeList = 0 /\ implicit_elements = 0
             /\ dequeued = 0 /\ entries = 0 /\ implicit_blockIndex = 0
             /\ implicit_p = 0
    /\ IF on = "pool" THEN Pool!Init ELSE initialBlockPoolIndex = 0 /\ created = 0
          /\ freeListHead = 0 /\ freeListRefs = 0 /\ freeListNext = 0 /\ owner = 0
          /\ pool_pc = 0 /\ pool_loc = 0
    /\ IF on = "tokens" THEN Tokens!Init ELSE list = 0 /\ producerCount = 0 /\ size = 0
          /\ enqueued = 0 /\ globalOffset = 0 /\ token = 0 /\ tokens_pc = 0
          /\ tokens_loc = 0

Next ==
    /\ UNCHANGED on
    /\ CASE on = "bulk" -> Bulk!Next
         [] on = "race" -> Race!Next
         [] on = "single" -> Single!Next
         [] on = "fail" -> Fail!Next
         [] OTHER -> UNCHANGED BulkVars
    /\ CASE on = "implicit" -> Implicit!Next
         [] on = "wrap" -> Wrap!Next
         [] OTHER -> UNCHANGED ImplicitVars
    /\ IF on = "pool" THEN Pool!Next ELSE UNCHANGED PoolVars
    /\ IF on = "tokens" THEN Tokens!Next ELSE UNCHANGED TokensVars

Spec == Init /\ [][Next]_vars

-----------------------------------------------------------------------------
\* A consumer takes the items that it has claimed, in the order they were
\* enqueued and each of them once, whatever the producer has added, reused,
\* reindexed or rewound since it loaded the index; the items nobody has claimed
\* are all there; and with no dequeue under way the counters agree, so that the
\* next one sees every item.
ReadsOwnItems ==
    /\ on = "bulk" => Bulk!TypeOK /\ Bulk!ReadsOwnItems /\ Bulk!ItemsKept /\ Bulk!CountsSettle
    /\ on = "race" => Race!TypeOK /\ Race!ReadsOwnItems /\ Race!ItemsKept /\ Race!CountsSettle
    /\ on = "single" => Single!TypeOK /\ Single!ReadsOwnItems /\ Single!ItemsKept /\ Single!CountsSettle
    /\ on = "implicit" => Implicit!TypeOK /\ Implicit!ReadsOwnItems /\ Implicit!CountsSettle
    /\ on = "wrap" => Wrap!TypeOK /\ Wrap!ReadsOwnItems /\ Wrap!CountsSettle

\* ~ExplicitProducer destroys the items that are in the queue and no others,
\* while every enqueue_bulk finds its blocks (one that does not leaves the index
\* short of an entry, see ReadsAfterFailure).
DestroysItemsOnly == on = "bulk" => Bulk!DestroysItemsOnly

\* ~ImplicitProducer gives back every block of its own and no other, however
\* operations failed, threw or raced; and no block of the free list holds an
\* item or is in the index.
NoBlockLost ==
    /\ on = "implicit" => Implicit!NoBlockLost /\ Implicit!FreeIsUnused
    /\ on = "wrap" => Wrap!NoBlockLost /\ Wrap!FreeIsUnused

\* Every block has one place: never used, with one owner, on the free list, on
\* its way to or from it with one thread, or left with its should-be-on-list bit
\* to the threads that refer to it.  None is handed out twice and none is lost;
\* try_get never takes a block marked as one that should be on the list; and the
\* reference counts are those of the threads.
OnePlace == on = "pool" => Pool!TypeOK /\ Pool!OnePlace /\ Pool!GotNotMarked /\ Pool!RefsCounted

\* A dequeue fails only after every producer in the list when it was called has
\* appeared empty to it during the call; a token that has had its quota sees
\* that it must move on; and tokens that have seen the same rotations are
\* designated different producers.
FailsAfterAll ==
    on = "tokens" => Tokens!TypeOK /\ Tokens!FailsAfterAll /\ Tokens!RotatesAtQuota /\ Tokens!Apart

\* ReadsOwnItems also where malloc may fail for the index of an enqueue_bulk:
\* there is "guaranteed to be room" in the index for a block that is used again,
\* says the comment there, so that no entry in use is overwritten.
ReadsAfterFailure == on = "fail" => Fail!ReadsOwnItems
=============================================================================
