------------------------- MODULE ThreadedInputSplit -------------------------
(* ThreadedInputSplit (src/io/threaded_input_split.h): an InputSplitBase read
   ahead by the thread of a ThreadedIter.  The base split is a sequence of
   chunks for each partition, read through a stream that ResetPartition deletes
   and opens again; a chunk is <<partition, number>> and holds PerChunk records. *)
EXTENDS Integers, Sequences, SequencesExt

CONSTANTS
    Parts,        \* partitions
    ChunksIn,     \* partition -> how many chunks
    PerChunk,     \* records of a chunk
    MaxCapacity,  \* set_max_capacity
    ResetAnytime  \* whether ResetPartition is called before the end was reached

VARIABLES
    part, pos, fs_,                           \* the base: partition, chunks read, stream
    reading,                                  \* the stream the thread reads, or "none"
    queue_, free_cells_, produce_end_, signal,   \* ThreadedIter; how many cells are free
    tmp_chunk_, left,                         \* the chunk given out and its records left
    call,                                     \* what the program waits in
    out, ended                                \* records since the beginning; no more

base == <<part, pos, fs_>>
iter == <<queue_, free_cells_, produce_end_, signal>>
seen == <<tmp_chunk_, left, call, out, ended>>
vars == <<base, reading, iter, seen>>

NoChunk == <<>>
Chunk(p, k) == <<p, k>>
Record(chunk, k) == Append(chunk, k)

-----------------------------------------------------------------------------
(* The thread: base_->NextBatchEx runs without the lock *)

Produce ==
    /\ reading = "none" /\ signal = "none" /\ ~produce_end_
    /\ Len(queue_) < MaxCapacity \/ free_cells_ /= 0
    /\ reading' = fs_
    /\ free_cells_' = IF free_cells_ /= 0 THEN free_cells_ - 1 ELSE 0
    /\ UNCHANGED <<base, queue_, produce_end_, signal, seen>>

Produced ==
    /\ reading /= "none"
    /\ reading' = "none"
    /\ IF pos < ChunksIn[part]
       THEN /\ pos' = pos + 1 /\ queue_' = Append(queue_, Chunk(part, pos + 1))
            /\ UNCHANGED <<produce_end_, free_cells_>>
       ELSE produce_end_' = TRUE /\ free_cells_' = free_cells_ + 1 /\ UNCHANGED <<pos, queue_>>
    /\ UNCHANGED <<part, fs_, signal, seen>>

\* The chunks read ahead stay in the queue.
KeepMutant ==
    /\ signal = "before_first" /\ reading = "none"
    /\ pos' = 0 /\ produce_end_' = FALSE /\ signal' = "processed"
    /\ UNCHANGED <<part, fs_, reading, queue_, free_cells_, seen>>

\* The program is never told.
UntoldMutant ==
    /\ signal = "before_first" /\ reading = "none"
    /\ pos' = 0 /\ queue_' = <<>> /\ produce_end_' = FALSE
    /\ UNCHANGED <<part, fs_, reading, free_cells_, signal, seen>>

\* producer_->BeforeFirst, and every chunk read ahead goes back to the free cells.
Rewind ==
    /\ signal = "before_first" /\ reading = "none"
    /\ pos' = 0 /\ queue_' = <<>> /\ produce_end_' = FALSE /\ signal' = "processed"
    /\ free_cells_' = free_cells_ + Len(queue_)
    /\ UNCHANGED <<part, fs_, reading, seen>>

-----------------------------------------------------------------------------
(* The program *)

\* iter_.Recycle, of the chunk at hand if there is one.
RecycleChunk ==
    /\ tmp_chunk_' = NoChunk
    /\ free_cells_' = IF tmp_chunk_ = NoChunk THEN free_cells_ ELSE free_cells_ + 1

\* Gives the next record of the chunk at hand.
NextRecord ==
    /\ call = "idle"
    /\ IF left > 0
       THEN out' = Append(out, Record(tmp_chunk_, PerChunk - left + 1)) /\ left' = left - 1
            /\ UNCHANGED <<tmp_chunk_, free_cells_, call>>
       ELSE RecycleChunk /\ call' = "record" /\ UNCHANGED <<out, left>>
    /\ UNCHANGED <<base, reading, queue_, produce_end_, signal, ended>>

\* Gives what is left of the chunk at hand.
NextChunk ==
    /\ call = "idle"
    /\ IF left > 0
       THEN out' = out \o [k \in 1 .. left |-> Record(tmp_chunk_, PerChunk - left + k)] /\ left' = 0
            /\ UNCHANGED <<tmp_chunk_, free_cells_, call>>
       ELSE RecycleChunk /\ call' = "chunk" /\ UNCHANGED <<out, left>>
    /\ UNCHANGED <<base, reading, queue_, produce_end_, signal, ended>>

\* iter_.Next returns.
Taken ==
    /\ call \in {"record", "chunk"} /\ (queue_ /= <<>> \/ produce_end_)
    /\ call' = "idle"
    /\ IF queue_ = <<>>
       THEN ended' = TRUE /\ UNCHANGED <<queue_, tmp_chunk_, left, out>>
       ELSE LET chunk == Head(queue_)
                n == IF call = "record" THEN 1 ELSE PerChunk
            IN  /\ queue_' = Tail(queue_) /\ tmp_chunk_' = chunk /\ left' = PerChunk - n
                /\ out' = out \o [k \in 1 .. n |-> Record(chunk, k)]
                /\ UNCHANGED ended
    /\ UNCHANGED <<base, reading, free_cells_, produce_end_, signal>>

BeforeFirst ==
    /\ call = "idle" /\ signal = "none"
    /\ signal' = "before_first" /\ call' = "before_first"
    /\ UNCHANGED <<base, reading, queue_, free_cells_, produce_end_, tmp_chunk_, left, out, ended>>

\* The base is reset in the program's thread, then the iterator.
ResetPartition(p) ==
    /\ call = "idle" /\ signal = "none" /\ (ResetAnytime \/ ended)
    /\ part' = p /\ pos' = 0 /\ fs_' = IF fs_ = "a" THEN "b" ELSE "a"
    /\ signal' = "before_first" /\ call' = "before_first"
    /\ UNCHANGED <<reading, queue_, free_cells_, produce_end_, tmp_chunk_, left, out, ended>>

\* iter_.BeforeFirst returns and the chunk at hand is recycled.
Recycle ==
    /\ call = "before_first" /\ signal = "processed"
    /\ call' = "idle" /\ signal' = "none" /\ RecycleChunk /\ left' = 0
    /\ out' = <<>> /\ ended' = FALSE
    /\ UNCHANGED <<base, reading, queue_, produce_end_>>

Init ==
    /\ part \in Parts /\ pos = 0 /\ fs_ = "a" /\ reading = "none"
    /\ queue_ = <<>> /\ free_cells_ = 0 /\ produce_end_ = FALSE /\ signal = "none"
    /\ tmp_chunk_ = NoChunk /\ left = 0 /\ call = "idle" /\ out = <<>> /\ ended = FALSE

Next ==
    \/ Produce \/ Produced \/ Rewind
    \/ NextRecord \/ NextChunk \/ Taken \/ BeforeFirst \/ Recycle
    \/ \E p \in Parts : ResetPartition(p)

\* The thread runs, and a call that can return returns.
Fairness == WF_vars(Produce \/ Produced \/ Rewind) /\ WF_vars(Taken \/ Recycle)

Spec == Init /\ [][Next]_vars /\ Fairness

-----------------------------------------------------------------------------
\* The chunks that exist: no more than the queue holds and one at hand.
Cells ==
    Len(queue_) + free_cells_ + (IF reading = "none" THEN 0 ELSE 1) + (IF tmp_chunk_ = NoChunk THEN 0 ELSE 1)

TypeOK ==
    /\ part \in Parts /\ pos \in 0 .. ChunksIn[part] /\ fs_ \in {"a", "b"}
    /\ reading \in {"none", "a", "b"} /\ signal \in {"none", "before_first", "processed"}
    /\ Cells <= MaxCapacity + 1 /\ left \in 0 .. PerChunk
    /\ call \in {"idle", "record", "chunk", "before_first"}

Expected == FlattenSeq([k \in 1 .. ChunksIn[part] |-> [j \in 1 .. PerChunk |-> Record(Chunk(part, k), j)]])

\* Whatever the thread has read ahead when the program rewinds or resets, the
\* records given after that are the partition's, from its first.
Delivered ==
    call /= "before_first" => IsPrefix(out, Expected) /\ (ended => out = Expected)

\* The stream that the thread reads is not one that ResetPartition has deleted.
StreamLives == reading /= "none" => reading = fs_
=============================================================================
