-------------------------- MODULE ImplicitProducer --------------------------
(* ConcurrentQueue::ImplicitProducer (concurrentqueue.h): the queue of a thread
   that enqueues without a token. Its blocks come from the parent's free list
   (module BlockPool) and the consumer that takes the last item of a block puts
   it back, so a block may serve again, anywhere, at once. enqueue does what
   enqueue_bulk does with one item, but that a constructor for the first item of
   a block runs before the block is in the index. An assignment that throws in a
   dequeue leaves the same state as one that does not. *)
EXTENDS ProducerBase

CONSTANTS IMPLICIT_INITIAL_INDEX_SIZE,
          NoexceptCtor,                \* whether constructing a T cannot throw
          Blocks,                      \* of the parent's pool
          MaxIndexes                   \* block indexes malloc gives

INVALID_BLOCK_BASE == 1

VARIABLES
    tailBlock,
    freeList,                        \* blocks of the parent that nobody has
    elements, dequeued,              \* per block: items; elementsCompletelyDequeued
    entries,                         \* all BlockIndexEntry: key and value
    blockIndex,                      \* the headers, the current one last
    p                                \* place and locals of the producer

memory == <<elements, dequeued, freeList>>
index == <<entries, blockIndex>>
vars == <<baseVars, tailBlock, memory, index, p>>

Last == Len(blockIndex)
capacity == blockIndex[Last].capacity
Unused(n) == [i \in 1 .. n |-> [key |-> INVALID_BLOCK_BASE, value |-> nullptr]]

-----------------------------------------------------------------------------
(* enqueue, enqueue_bulk *)

Idle == [pc |-> "idle", count |-> 0, blocks |-> <<>>, cur |-> 0, diff |-> 0, entry |-> 0, undo |-> 0]

Enqueue(count) ==
    /\ p.pc = "idle" /\ sent + count <= MaxItems
    /\ LET start == Base(Minus(tailIndex, 1))
           diff == Minus(Base(Plus(tailIndex, count - 1)), start)
       IN  p' = [Idle EXCEPT !.pc = IF diff > 0 THEN "insert" ELSE "construct",
                             !.count = count, !.cur = start, !.diff = diff]
    /\ UNCHANGED <<baseVars, tailBlock, memory, index>>

\* A header of twice the capacity: the old entries from the oldest on, then new ones.
new_block_index ==
    LET h == blockIndex[Last]
        old == Len(entries)
    IN  /\ entries' = entries \o Unused(h.capacity)
        /\ blockIndex' = Append(blockIndex,
               [capacity |-> 2 * h.capacity, tail |-> h.capacity - 1,
                index |-> [i \in 0 .. 2 * h.capacity - 1 |->
                    IF i < h.capacity THEN h.index[(h.tail + 1 + i) % h.capacity]
                    ELSE old + 1 + i - h.capacity]])

\* Takes the next entry though its block is in use.
RoomMutant(e) == TRUE

\* The entry after the tail has never been used, or its block is given back.
Room(e) == e.key = INVALID_BLOCK_BASE \/ e.value = nullptr

Undo == IF p.blocks = <<>> THEN Idle ELSE [p EXCEPT !.pc = "undo", !.undo = 1]

\* A block more: where it goes in the index.
insert_block_index_entry ==
    LET cur == Plus(p.cur, BLOCK_SIZE)
        e == blockIndex[Last].index[(blockIndex[Last].tail + 1) % capacity]
    IN  /\ p.pc = "insert"
        /\ \/ Full(cur) /\ p' = Undo /\ UNCHANGED index
           \/ /\ ~Full(cur) /\ Room(entries[e])
              /\ entries' = [entries EXCEPT ![e].key = cur]
              /\ p' = [p EXCEPT !.pc = "tail", !.cur = cur, !.diff = @ - BLOCK_SIZE, !.entry = e]
              /\ UNCHANGED blockIndex
           \/ ~Full(cur) /\ ~Room(entries[e]) /\ Last = MaxIndexes /\ p' = Undo /\ UNCHANGED index
           \/ ~Full(cur) /\ ~Room(entries[e]) /\ Last < MaxIndexes /\ new_block_index /\ UNCHANGED p
        /\ UNCHANGED <<baseVars, tailBlock, memory>>

StoreIndexTail ==
    /\ p.pc = "tail"
    /\ blockIndex' = [blockIndex EXCEPT ![Last].tail = (@ + 1) % capacity]
    /\ p' = [p EXCEPT !.pc = "block"]
    /\ UNCHANGED <<baseVars, tailBlock, memory, entries>>

rewind_block_index_tail == blockIndex' = [blockIndex EXCEPT ![Last].tail = (@ - 1) % capacity]

\* No block: the entry is given up, then those of the blocks before.
\* A constructor that may throw runs before the value is stored.
Requisition ==
    /\ p.pc = "block"
    /\ \/ /\ freeList = {} \/ (p.count = 1 /\ ~NoexceptCtor)
          /\ rewind_block_index_tail
          /\ entries' = [entries EXCEPT ![p.entry].value = nullptr]
          /\ p' = Undo
          /\ UNCHANGED <<tailBlock, memory>>
       \/ \E b \in freeList :
          /\ freeList' = freeList \ {b}
          /\ dequeued' = [dequeued EXCEPT ![b] = 0]
          /\ entries' = [entries EXCEPT ![p.entry].value = b]
          /\ p' = [p EXCEPT !.pc = IF p.diff = 0 THEN "construct" ELSE "insert",
                            !.blocks = Append(@, b), !.entry = 0]
          /\ UNCHANGED <<tailBlock, elements, blockIndex>>
    /\ UNCHANGED baseVars

\* The i-th slot from the tail on, in the tail block or the blocks taken.
Place(i) ==
    LET at == Plus(tailIndex, i)
        nth == Minus(Base(at), Base(Minus(tailIndex, 1))) \div BLOCK_SIZE
    IN  <<IF nth = 0 THEN tailBlock ELSE p.blocks[nth], at % BLOCK_SIZE>>

Construct ==
    /\ p.pc = "construct"
    /\ elements' = [b \in Blocks |-> [s \in Slots |->
           LET I == {i \in 0 .. p.count - 1 : Place(i) = <<b, s>>}
           IN  IF I = {} THEN elements[b][s] ELSE sent + 1 + CHOOSE i \in I : TRUE]]
    /\ tailBlock' = IF p.blocks = <<>> THEN tailBlock ELSE p.blocks[Len(p.blocks)]
    /\ p' = [p EXCEPT !.pc = "store", !.blocks = <<>>]
    /\ UNCHANGED <<baseVars, dequeued, freeList, index>>

\* A constructor throws: what was constructed is destroyed again.
Throw ==
    /\ p.pc = "construct" /\ ~NoexceptCtor /\ (p.count = 1 => p.blocks = <<>>)
    /\ p' = Undo
    /\ UNCHANGED <<baseVars, tailBlock, memory, index>>

StoreTail ==
    /\ p.pc = "store"
    /\ tailIndex' = Plus(tailIndex, p.count)
    /\ sent' = sent + p.count
    /\ p' = Idle
    /\ UNCHANGED <<consumers, tailBlock, memory, index>>

\* get_block_index_index_for_index, once header h and its tail t are read. The
\* division is unsigned: the capacity divides IndexRange \div BLOCK_SIZE.
IndexOf(i, h, t) ==
    LET base == entries[blockIndex[h].index[t]].key
    IN  (t + (Minus(Base(i), base) \div BLOCK_SIZE)) % blockIndex[h].capacity

EntryOf(i) == blockIndex[Last].index[IndexOf(i, Last, blockIndex[Last].tail)]

\* Gives up the entries of an operation that failed and keeps its last block.
UndoBlockMutant ==
    LET i == Plus(Base(Minus(tailIndex, 1)), p.undo * BLOCK_SIZE) IN
    /\ p.pc = "undo"
    /\ entries' = [entries EXCEPT ![EntryOf(i)].value = nullptr]
    /\ rewind_block_index_tail
    /\ IF p.undo = Len(p.blocks)
       THEN p' = Idle /\ freeList' = freeList \cup {p.blocks[k] : k \in 1 .. Len(p.blocks) - 1}
       ELSE p' = [p EXCEPT !.undo = @ + 1] /\ UNCHANGED freeList
    /\ UNCHANGED <<baseVars, tailBlock, elements, dequeued>>

\* Gives up the entries and then the blocks of an operation that failed.
UndoBlock ==
    LET i == Plus(Base(Minus(tailIndex, 1)), p.undo * BLOCK_SIZE) IN
    /\ p.pc = "undo"
    /\ entries' = [entries EXCEPT ![EntryOf(i)].value = nullptr]
    /\ rewind_block_index_tail
    /\ IF p.undo = Len(p.blocks)
       THEN p' = Idle /\ freeList' = freeList \cup {p.blocks[k] : k \in DOMAIN p.blocks}
       ELSE p' = [p EXCEPT !.undo = @ + 1] /\ UNCHANGED freeList
    /\ UNCHANGED <<baseVars, tailBlock, elements, dequeued>>

-----------------------------------------------------------------------------
(* dequeue, dequeue_bulk: from headIndex on *)

producer == <<tailIndex, sent, tailBlock, p>>

LoadHeader(c) ==
    /\ pc[c] = "header"
    /\ Goto(c, "tail", [loc[c] EXCEPT !.header = Last])
    /\ UNCHANGED <<producer, memory, index, claimed, counters>>

LoadIndexTail(c) ==
    /\ pc[c] = "tail"
    /\ Goto(c, "key", [loc[c] EXCEPT !.front = blockIndex[loc[c].header].tail])
    /\ UNCHANGED <<producer, memory, index, claimed, counters>>

LoadKey(c) ==
    /\ pc[c] = "key"
    /\ Goto(c, "take", [loc[c] EXCEPT !.slot = IndexOf(loc[c].index, loc[c].header, loc[c].front),
                                      !.front = 0])
    /\ UNCHANGED <<producer, memory, index, claimed, counters>>

Entry(c) == blockIndex[loc[c].header].index[loc[c].slot]
BlockOf(c) == entries[Entry(c)].value

Take(c) ==
    /\ pc[c] = "take"
    /\ elements' = [elements EXCEPT ![BlockOf(c)] =
                       [s \in Slots |-> IF s \in Taken(c) THEN 0 ELSE @[s]]]
    /\ Goto(c, "count items", loc[c])
    /\ UNCHANGED <<producer, dequeued, freeList, index, claimed, counters>>

\* To the next block of the operation, or done.
Onwards(c) ==
    LET l == loc[c] IN
    IF Plus(l.index, InBlock(c)) = l.end THEN Goto(c, "idle", Blank)
    ELSE Goto(c, "take", [l EXCEPT !.index = Plus(@, InBlock(c)), !.item = @ + InBlock(c),
                                   !.slot = (@ + 1) % blockIndex[l.header].capacity, !.max = 0])

set_many_empty(n, count) == n + count = BLOCK_SIZE

CountItems(c) ==
    LET b == BlockOf(c) IN
    /\ pc[c] = "count items"
    /\ dequeued' = [dequeued EXCEPT ![b] = @ + InBlock(c)]
    /\ IF set_many_empty(dequeued[b], InBlock(c))
       THEN Goto(c, "empty", [loc[c] EXCEPT !.max = b])
       ELSE Onwards(c)
    /\ UNCHANGED <<producer, elements, freeList, index, claimed, counters>>

ClearEntry(c) ==
    /\ pc[c] = "empty"
    /\ entries' = [entries EXCEPT ![Entry(c)].value = nullptr]
    /\ Goto(c, "free", loc[c])
    /\ UNCHANGED <<producer, memory, blockIndex, claimed, counters>>

add_block_to_free_list(c) ==
    /\ pc[c] = "free"
    /\ freeList' = freeList \cup {loc[c].max}
    /\ Onwards(c)
    /\ UNCHANGED <<producer, elements, dequeued, index, claimed, counters>>

-----------------------------------------------------------------------------
Init ==
    /\ BaseInit
    /\ tailBlock = nullptr /\ freeList = Blocks
    /\ elements = [b \in Blocks |-> [s \in Slots |-> 0]]
    /\ dequeued = [b \in Blocks |-> 0]
    /\ entries = Unused(IMPLICIT_INITIAL_INDEX_SIZE)
    /\ blockIndex = <<[capacity |-> IMPLICIT_INITIAL_INDEX_SIZE,
                       tail |-> IMPLICIT_INITIAL_INDEX_SIZE - 1,
                       index |-> [i \in 0 .. IMPLICIT_INITIAL_INDEX_SIZE - 1 |-> i + 1]]>>
    /\ p = Idle

enqueue == Enqueue(1)
enqueue_bulk == \E count \in 2 .. MaxBulk : Enqueue(count)

Producer ==
    \/ enqueue \/ enqueue_bulk \/ insert_block_index_entry \/ StoreIndexTail \/ Requisition
    \/ Construct \/ Throw \/ StoreTail \/ UndoBlock

Dequeue(c) ==
    \/ Attempt(c) /\ UNCHANGED <<tailBlock, memory, index, p>>
    \/ LoadHeader(c) \/ LoadIndexTail(c) \/ LoadKey(c) \/ Take(c) \/ CountItems(c)
    \/ ClearEntry(c) \/ add_block_to_free_list(c)

Next == Producer \/ \E c \in Consumers : Dequeue(c)

Spec == Init /\ [][Next]_vars

-----------------------------------------------------------------------------
TypeOK ==
    /\ BaseTypeOK
    /\ tailBlock \in Blocks \cup {nullptr} /\ freeList \subseteq Blocks
    /\ elements \in [Blocks -> [Slots -> 0 .. MaxItems]]
    /\ dequeued \in [Blocks -> 0 .. BLOCK_SIZE]
    /\ \A i \in DOMAIN blockIndex : blockIndex[i].tail \in 0 .. blockIndex[i].capacity - 1
    /\ \A i \in DOMAIN entries : entries[i].value \in Blocks \cup {nullptr}

\* Each consumer finds the items it has claimed, in the order they were
\* enqueued and each of them once: the entry it reaches from the tail of the
\* index it loaded is that of the block that holds them (the assertion in
\* get_block_index_index_for_index), whatever was inserted, rewound or given
\* back meanwhile.
ReadsOwnItems ==
    \A c \in Consumers : pc[c] = "take" =>
        /\ entries[Entry(c)].key = Base(loc[c].index)
        /\ \A i \in 0 .. InBlock(c) - 1 :
              /\ BlockOf(c) /= nullptr
              /\ elements[BlockOf(c)][(loc[c].index + i) % BLOCK_SIZE] = loc[c].item + i

\* A block in use is in no second place: what waits in the free list holds no
\* item, and no entry of the current index points to it.
FreeIsUnused ==
    \A b \in freeList :
        /\ \A s \in Slots : elements[b][s] = 0
        /\ \A i \in DOMAIN entries : entries[i].value /= b

-----------------------------------------------------------------------------
(* ~ImplicitProducer: the blocks it gives back. *)

Quiet == p.pc = "idle" /\ \A c \in Consumers : pc[c] = "idle"

\* One block per block of indices from the head to before the tail, but the
\* last, and then the tail block.
GivenBack ==
    LET left == {Plus(headIndex, i) : i \in 0 .. Minus(tailIndex, headIndex) - 1}
        bases == {Base(i) : i \in left} \ {Base(Minus(tailIndex, 1))}
    IN  {entries[EntryOf(i)].value : i \in bases}
        \cup IF tailBlock /= nullptr /\ (left /= {} \/ tailIndex % BLOCK_SIZE /= 0)
             THEN {tailBlock} ELSE {}

\* The destructor returns every block that is not in the free list and none
\* that is: however operations failed, threw or raced, no block is lost and none
\* is returned twice.
NoBlockLost == Quiet => GivenBack = Blocks \ freeList
=============================================================================
