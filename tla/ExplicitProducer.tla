-------------------------- MODULE ExplicitProducer --------------------------
(* ConcurrentQueue::ExplicitProducer (concurrentqueue.h): the queue of one
   producer token, with one thread that enqueues and any number that dequeue.
   enqueue does what enqueue_bulk does with one item and is modelled as such.
   An assignment that throws in a dequeue leaves the same state as one that does
   not: the items are destroyed and their slots marked. *)
EXTENDS ProducerBase

CONSTANTS EXPLICIT_INITIAL_INDEX_SIZE,
          NoexceptCtor,                \* whether constructing a T cannot throw
          IndexAllocFails,             \* whether malloc may fail for the index
          MaxBlocks                    \* blocks that requisition_block gives

Blocks == 1 .. MaxBlocks

VARIABLES
    tailBlock, next,                 \* the circular list of blocks
    elements, emptyFlags,            \* per block and slot
    blockIndex,                      \* the headers, the current one last
    pr,                              \* slotsUsed and front of the producer
    requisitioned,                   \* blocks taken from the parent
    p                                \* place and locals of the producer

ring == <<tailBlock, next, requisitioned>>
memory == <<elements, emptyFlags>>
vars == <<baseVars, ring, memory, blockIndex, pr, p>>

is_empty(b) == \A s \in Slots : emptyFlags[b][s]
Current == blockIndex[Len(blockIndex)]

\* A header of entries; its front is the last slot filled.
Header(size, front, entries) == [size |-> size, front |-> front, entries |-> entries]
Unused(size) == [i \in 0 .. size - 1 |-> [base |-> 0, block |-> nullptr]]

-----------------------------------------------------------------------------
(* enqueue, enqueue_bulk *)

Idle == [pc |-> "idle", count |-> 0, startBlock |-> nullptr, first |-> nullptr, cur |-> 0,
         diff |-> 0, front |-> 0, slots |-> 0]

\* The blocks the items need beyond the one the tail is in.
Enqueue(count) ==
    /\ p.pc = "idle" /\ sent + count <= MaxItems
    /\ LET start == Base(Minus(tailIndex, 1))
           diff == Minus(Base(Plus(tailIndex, count - 1)), start)
       IN  p' = [pc |-> IF diff > 0 THEN "ahead" ELSE "construct", count |-> count,
                 startBlock |-> tailBlock, first |-> nullptr, cur |-> start, diff |-> diff,
                 front |-> pr.front, slots |-> pr.slots]
    /\ UNCHANGED <<tailIndex, ring, memory, blockIndex, pr, sent, consumers>>

Enter(idx, front, base, b) ==
    [idx EXCEPT ![Len(idx)].entries[front] = [base |-> base, block |-> b]]

\* Reuses the block ahead without looking whether it is empty.
AheadMutant == tailBlock /= nullptr /\ next[tailBlock] /= p.first

Ahead == tailBlock /= nullptr /\ next[tailBlock] /= p.first /\ is_empty(next[tailBlock])

\* Takes the next block of the list, if there is one and it is empty.
ReuseAhead ==
    /\ p.pc = "ahead"
    /\ IF p.diff > 0 /\ Ahead
       THEN /\ tailBlock' = next[tailBlock]
            /\ blockIndex' = Enter(blockIndex, pr.front, Plus(p.cur, BLOCK_SIZE), tailBlock')
            /\ pr' = [pr EXCEPT !.front = (@ + 1) % Current.size]
            /\ p' = [p EXCEPT !.diff = @ - BLOCK_SIZE, !.cur = Plus(@, BLOCK_SIZE),
                              !.first = IF @ = nullptr THEN tailBlock' ELSE @]
       ELSE /\ p' = [p EXCEPT !.pc = IF p.diff > 0 THEN "allocate" ELSE "reset"]
            /\ UNCHANGED <<tailBlock, blockIndex, pr>>
    /\ UNCHANGED <<tailIndex, next, requisitioned, memory, sent, consumers>>

\* Undoes the operation; blocks put in the list stay in it.
Revert(front) ==
    /\ pr' = [slots |-> p.slots, front |-> front]
    /\ tailBlock' = IF p.startBlock = nullptr THEN p.first ELSE p.startBlock
    /\ p' = Idle

\* The old entries from the oldest on, in a header of twice the size.
new_block_index(shown) ==
    LET size == Current.size
        from == (pr.front - pr.slots) % size
        copied == IF pr.slots = 0 THEN 0 ELSE pr.slots
    IN  Append(blockIndex, Header(2 * size, (shown - 1) % (2 * size),
            [i \in 0 .. 2 * size - 1 |->
                IF i < copied THEN Current.entries[(from + i) % size]
                ELSE [base |-> 0, block |-> nullptr]]))

\* Links a new block behind the tail block and enters it in the index.
Insert(idx, front) ==
    LET b == requisitioned + 1
        cur == Plus(p.cur, BLOCK_SIZE)
    IN  /\ requisitioned' = b
        /\ next' = IF tailBlock = nullptr THEN [next EXCEPT ![b] = b]
                   ELSE [next EXCEPT ![b] = next[tailBlock], ![tailBlock] = b]
        /\ tailBlock' = b
        /\ emptyFlags' = [emptyFlags EXCEPT ![b] = [s \in Slots |-> TRUE]]
        /\ blockIndex' = Enter(idx, front, cur, b)
        /\ pr' = [slots |-> pr.slots + 1, front |-> (front + 1) % idx[Len(idx)].size]

\* One more block from the parent; a larger index first when it is full.
Allocate ==
    LET cur == Plus(p.cur, BLOCK_SIZE)
        grow == pr.slots = Current.size
        idx == IF grow THEN new_block_index(p.slots) ELSE blockIndex
        front == IF grow THEN pr.slots ELSE pr.front
        fallback == IF grow THEN p.slots ELSE p.front
    IN  /\ p.pc = "allocate"
        /\ \/ /\ Full(cur) \/ (grow /\ IndexAllocFails)
              /\ Revert(p.front)
              /\ UNCHANGED <<blockIndex, next, requisitioned, emptyFlags>>
           \/ /\ ~Full(cur) /\ requisitioned = MaxBlocks
              /\ Revert(fallback)
              /\ blockIndex' = idx
              /\ UNCHANGED <<next, requisitioned, emptyFlags>>
           \/ /\ ~Full(cur) /\ requisitioned < MaxBlocks
              /\ Insert(idx, front)
              /\ p' = [p EXCEPT !.diff = @ - BLOCK_SIZE, !.cur = cur, !.front = fallback,
                                !.first = IF @ = nullptr THEN tailBlock' ELSE @,
                                !.pc = IF p.diff = BLOCK_SIZE THEN "reset" ELSE "allocate"]
        /\ UNCHANGED <<tailIndex, elements, sent, consumers>>

\* The i-th block from b on.
Follow(b, i) ==
    LET f[j \in 0 .. i] == IF j = 0 THEN b ELSE next[f[j - 1]] IN f[i]

Publish(idx) == [idx EXCEPT ![Len(idx)].front = (pr.front - 1) % Current.size]

\* Every block taken is to be filled; the new front is shown if nothing throws.
Reset ==
    /\ p.pc = "reset"
    /\ LET n == CHOOSE i \in 0 .. MaxBlocks : Follow(p.first, i) = tailBlock
           taken == {Follow(p.first, i) : i \in 0 .. n}
       IN  emptyFlags' = [b \in Blocks |->
               IF b \in taken THEN [s \in Slots |-> FALSE] ELSE emptyFlags[b]]
    /\ blockIndex' = IF NoexceptCtor THEN Publish(blockIndex) ELSE blockIndex
    /\ p' = [p EXCEPT !.pc = "construct"]
    /\ UNCHANGED <<tailIndex, ring, elements, pr, sent, consumers>>

\* Where the i-th item of the operation goes.
Place(i) ==
    LET at == Plus(tailIndex, i)
        start == IF tailIndex % BLOCK_SIZE = 0 THEN p.first ELSE p.startBlock
        nth == Minus(Base(at), Base(tailIndex)) \div BLOCK_SIZE
    IN  <<Follow(start, nth), at % BLOCK_SIZE>>

\* The items, in the blocks taken; then the new front, if it is not shown yet.
Construct ==
    /\ p.pc = "construct"
    /\ elements' = [b \in Blocks |-> [s \in Slots |->
           LET I == {i \in 0 .. p.count - 1 : Place(i) = <<b, s>>}
           IN  IF I = {} THEN elements[b][s] ELSE sent + 1 + CHOOSE i \in I : TRUE]]
    /\ blockIndex' = IF ~NoexceptCtor /\ p.first /= nullptr THEN Publish(blockIndex)
                     ELSE blockIndex
    /\ p' = [p EXCEPT !.pc = "store"]
    /\ UNCHANGED <<tailIndex, ring, emptyFlags, pr, sent, consumers>>

\* A constructor throws: what was constructed is destroyed again.
Throw ==
    /\ p.pc = "construct" /\ ~NoexceptCtor
    /\ Revert(IF p.diff = 0 /\ p.first = nullptr THEN pr.front ELSE p.front)
    /\ UNCHANGED <<tailIndex, next, requisitioned, memory, blockIndex, sent, consumers>>

StoreTail ==
    /\ p.pc = "store"
    /\ tailIndex' = Plus(tailIndex, p.count)
    /\ sent' = sent + p.count
    /\ p' = Idle
    /\ UNCHANGED <<ring, memory, blockIndex, pr, consumers>>

-----------------------------------------------------------------------------
(* dequeue, dequeue_bulk: from headIndex on *)

producer == <<tailIndex, sent, ring, blockIndex, pr, p>>

LoadHeader(c) ==
    /\ pc[c] = "header"
    /\ Goto(c, "front", [loc[c] EXCEPT !.header = Len(blockIndex)])
    /\ UNCHANGED <<producer, memory, claimed, counters>>

LoadFront(c) ==
    /\ pc[c] = "front"
    /\ Goto(c, "base", [loc[c] EXCEPT !.front = blockIndex[loc[c].header].front])
    /\ UNCHANGED <<producer, memory, claimed, counters>>

\* Goes from the front by the distance of the bases. The division is unsigned:
\* the size of the index divides IndexRange \div BLOCK_SIZE.
FindSlot(c) ==
    LET l == loc[c]
        h == blockIndex[l.header]
        offset == Minus(Base(l.index), h.entries[l.front].base) \div BLOCK_SIZE
    IN  /\ pc[c] = "base"
        /\ Goto(c, "take", [l EXCEPT !.front = 0, !.slot = (l.front + offset) % h.size])
        /\ UNCHANGED <<producer, memory, claimed, counters>>

BlockOf(c) == blockIndex[loc[c].header].entries[loc[c].slot].block

Take(c) ==
    /\ pc[c] = "take"
    /\ elements' = [elements EXCEPT ![BlockOf(c)] =
                       [s \in Slots |-> IF s \in Taken(c) THEN 0 ELSE @[s]]]
    /\ Goto(c, "flag", loc[c])
    /\ UNCHANGED <<producer, emptyFlags, claimed, counters>>

\* Marks the whole block.
set_many_emptyMutant(flags, taken) == [s \in Slots |-> TRUE]

set_many_empty(flags, taken) == [s \in Slots |-> flags[s] \/ s \in taken]

Flag(c) ==
    LET l == loc[c] IN
    /\ pc[c] = "flag"
    /\ emptyFlags' = [emptyFlags EXCEPT ![BlockOf(c)] = set_many_empty(@, Taken(c))]
    /\ IF Plus(l.index, InBlock(c)) = l.end THEN Goto(c, "idle", Blank)
       ELSE Goto(c, "take", [l EXCEPT !.index = Plus(@, InBlock(c)), !.item = @ + InBlock(c),
                                      !.slot = (@ + 1) % blockIndex[l.header].size])
    /\ UNCHANGED <<producer, elements, claimed, counters>>

-----------------------------------------------------------------------------
Init ==
    /\ BaseInit
    /\ tailBlock = nullptr /\ next = [b \in Blocks |-> nullptr] /\ requisitioned = 0
    /\ elements = [b \in Blocks |-> [s \in Slots |-> 0]]
    /\ emptyFlags = [b \in Blocks |-> [s \in Slots |-> FALSE]]
    /\ blockIndex = <<Header(EXPLICIT_INITIAL_INDEX_SIZE, 0, Unused(EXPLICIT_INITIAL_INDEX_SIZE))>>
    /\ pr = [slots |-> 0, front |-> 0]
    /\ p = Idle

\* enqueue is a bulk of one: one block from ahead or from the pool at most.
enqueue == Enqueue(1)
enqueue_bulk == \E count \in 2 .. MaxBulk : Enqueue(count)

Producer ==
    \/ enqueue \/ enqueue_bulk
    \/ ReuseAhead \/ Allocate \/ Reset \/ Construct \/ Throw \/ StoreTail

Dequeue(c) ==
    \/ Attempt(c) /\ UNCHANGED <<ring, memory, blockIndex, pr, p>>
    \/ LoadHeader(c) \/ LoadFront(c) \/ FindSlot(c) \/ Take(c) \/ Flag(c)

Next == Producer \/ \E c \in Consumers : Dequeue(c)

Spec == Init /\ [][Next]_vars

-----------------------------------------------------------------------------
TypeOK ==
    /\ BaseTypeOK
    /\ tailBlock \in Blocks \cup {nullptr} /\ next \in [Blocks -> Blocks \cup {nullptr}]
    /\ elements \in [Blocks -> [Slots -> 0 .. MaxItems]]
    /\ emptyFlags \in [Blocks -> [Slots -> BOOLEAN]]
    /\ pr.front \in 0 .. Current.size - 1 /\ pr.slots \in 0 .. Current.size

\* Each consumer finds the items it has claimed, in the order they were
\* enqueued, each of them once: its walk from the front of the index it loaded
\* ends at the block that still holds them, whatever the producer has reused,
\* added or reindexed meanwhile.
ReadsOwnItems ==
    \A c \in Consumers : pc[c] = "take" =>
        \A i \in 0 .. InBlock(c) - 1 :
            /\ BlockOf(c) /= nullptr
            /\ elements[BlockOf(c)][(loc[c].index + i) % BLOCK_SIZE] = loc[c].item + i

\* Items nobody has claimed are all there: a block is not filled again before
\* its items are taken.
ItemsKept ==
    \A k \in claimed + 1 .. sent : \E b \in Blocks, s \in Slots : elements[b][s] = k

-----------------------------------------------------------------------------
(* ~ExplicitProducer: the slots whose items it destroys. *)

Quiet == p.pc = "idle" /\ \A c \in Consumers : pc[c] = "idle"

halfDequeuedBlock ==
    LET size == Current.size
        at(n) == Current.entries[(pr.front - pr.slots + n) % size]
        Past(n) == circular_less_than(Plus(at(n).base, BLOCK_SIZE), headIndex)
        n == CHOOSE m \in 0 .. size : ~Past(m) /\ \A k \in 0 .. m - 1 : Past(k)
    IN  IF headIndex % BLOCK_SIZE = 0 THEN nullptr ELSE at(n).block

Destroyed ==
    {<<b, s>> \in Blocks \X Slots :
        /\ \E i \in 0 .. MaxBlocks : Follow(tailBlock, i) = b
        /\ ~is_empty(b)
        /\ b = halfDequeuedBlock => s >= (headIndex % BLOCK_SIZE)
        /\ b = tailBlock /\ tailIndex % BLOCK_SIZE /= 0 => s < (tailIndex % BLOCK_SIZE)}

\* The destructor destroys the items that are in the queue and no others, so
\* that a constructor that throws leaves the element out "without corrupting
\* the queue".
DestroysItemsOnly ==
    Quiet /\ tailBlock /= nullptr =>
        Destroyed = {<<b, s>> \in Blocks \X Slots : elements[b][s] /= 0}
=============================================================================
