---------------------- MODULE IndexedRecordIOSplitter ----------------------
(* IndexedRecordIOSplitter (src/io/indexed_recordio_split.cc/.h): partitions
   are counted in records of an index, and batches of a number of records are
   given in the order of the file or of a random permutation.  A word of the
   data is <<record, position in the record>>. *)
EXTENDS Integers, Sequences, SequencesExt, FiniteSets, FiniteSetsExt

CONSTANTS
    Inputs,        \* data, each as the length in words of each of its records
    MaxParts,
    shuffle_,
    BatchSizes,
    kBufferSize,   \* the buffer's size in words before any batch
    Calls,         \* whether programs use NextBatch, "batch", or NextRecord, "record"
    ResetAgain,    \* whether a partition that ends the data may be left again
    EmptyParts,    \* whether there may be more parts than records
    Junk           \* what is in memory that nothing has written

VARIABLES
    Sizes, batch_size_, call,
    index_, index_begin_, index_end_, offset_begin_, offset_end_, offset_curr_,
    current_index_, n_overflow_, permutation_, buffer_size_, tmp_chunk_,
    rank, nsplit,
    out, ended,     \* the records given since the beginning; whether there are no more
    unfinished      \* how many records of a batch not yet full have been given

part == <<Sizes, batch_size_, call, index_, index_begin_, index_end_, offset_begin_, offset_end_, rank, nsplit>>
vars == <<part, offset_curr_, current_index_, n_overflow_, permutation_, buffer_size_, tmp_chunk_,
          out, ended, unfinished>>

N == Len(Sizes)
Invalid == 0     \* "Invalid RecordIO Format"
Words(i) == [k \in 1 .. Sizes[i] |-> <<i, k>>]
Data == FlattenSeq([i \in 1 .. N |-> Words(i)])
total == Len(Data)
Smaller(a, b) == IF a < b THEN a ELSE b

\* The index file may list the records in any order.
ReadIndexFile(offsets) ==
    LET temp == SetToSortSeq(offsets, <)
    IN  [j \in DOMAIN temp |-> <<temp[j], (IF j < Len(temp) THEN temp[j + 1] ELSE total) - temp[j]>>]

first(i) == index_[i + 1][1]
second(i) == index_[i + 1][2]

-----------------------------------------------------------------------------
(* Reading *)

Read(curr, size) == SubSeq(Data, curr + 1, Smaller(curr + size, offset_end_))

\* A chunk that ends inside a record fails a CHECK.
ExtractNextRecord(chunk) ==
    LET size == Sizes[chunk[1][1]]
    IN  IF chunk[1][2] /= 1 \/ size > Len(chunk) THEN [rec |-> Invalid, rest |-> <<>>]
        ELSE [rec |-> chunk[1][1], rest |-> SubSeq(chunk, size + 1, Len(chunk))]

Wanted(n) == IF n_overflow_ = 0 THEN n ELSE n_overflow_

\* NextBatchEx with shuffle_: record by record until one cannot be read.
Shuffled(n) ==
    LET last == Smaller(current_index_ + Wanted(n), Len(permutation_))
        picked == SubSeq(permutation_, current_index_ + 1, last)
        empty == {k \in DOMAIN picked : Read(first(picked[k]), second(picked[k])) = <<>>}
        m == IF empty = {} THEN Len(picked) ELSE Min(empty) - 1
        seen == SubSeq(picked, 1, IF empty = {} THEN m ELSE m + 1)
    IN  [ok |-> m > 0,
         chunk |-> FlattenSeq([k \in 1 .. m |-> Read(first(picked[k]), second(picked[k]))]),
         current |-> current_index_ + m,
         overflow |-> IF m > 0 THEN Wanted(n) - m ELSE n_overflow_,
         curr |-> IF seen = <<>> THEN offset_curr_ ELSE first(Last(seen)) + second(Last(seen)),
         buffer |-> IF seen = <<>> THEN buffer_size_ ELSE second(Last(seen))]

BatchWords(last) == first(last) - first(current_index_)

\* NextBatchEx without shuffle_: one load of all the batch's records.
Sequential(n) ==
    LET last == Smaller(current_index_ + Wanted(n), index_end_)
        size == BatchWords(last)
        read == Read(offset_curr_, size)
    IN  [ok |-> read /= <<>>, chunk |-> read, current |-> last,
         overflow |-> current_index_ + Wanted(n) - last,
         curr |-> offset_curr_ + Len(read), buffer |-> size]

NextBatchEx(n) == IF shuffle_ THEN Shuffled(n) ELSE Sequential(n)

-----------------------------------------------------------------------------
Permutation(begin, end) ==
    permutation_' \in IF shuffle_ THEN {p \in [1 .. end - begin -> begin .. end - 1] : IsInjective(p)} ELSE {<<>>}

\* BeforeFirst; n_overflow_ is kept for the first batch.
Rewind(begin, end, offset, offsetEnd) ==
    /\ Permutation(begin, end)
    /\ current_index_' = IF shuffle_ THEN 0 ELSE begin
    /\ IF offset >= offsetEnd THEN UNCHANGED tmp_chunk_ /\ offset_curr_' = offset
       ELSE tmp_chunk_' = <<>> /\ offset_curr_' = offset
    /\ out' = <<>> /\ ended' = FALSE

\* Rounded down.
NstepMutant(ntotal, n) == ntotal \div n

Nstep(ntotal, n) == (ntotal + n - 1) \div n

\* A sentinel is put after the last record whenever the partition ends there.
ResetPartition(r, n) ==
    LET ntotal == Len(index_)
        nstep == Nstep(ntotal, n)
        begin == r * nstep
        isLast == begin + nstep >= ntotal
        end == IF isLast THEN ntotal ELSE begin + nstep
        offsetEnd == IF isLast THEN total ELSE first(end)
    IN  /\ nsplit = 0 \/ ResetAgain \/ ntotal = N
        /\ rank' = r /\ nsplit' = n /\ UNCHANGED <<Sizes, batch_size_, call, buffer_size_>>
        /\ IF begin >= ntotal
           THEN /\ EmptyParts
                /\ out' = <<>> /\ ended' = FALSE
                /\ UNCHANGED <<index_, index_begin_, index_end_, offset_begin_, offset_end_, offset_curr_,
                               current_index_, n_overflow_, permutation_, tmp_chunk_, unfinished>>
           ELSE /\ index_begin_' = begin /\ index_end_' = end
                /\ offset_begin_' = first(begin) /\ offset_end_' = offsetEnd
                /\ index_' = IF isLast THEN Append(index_, <<total, 0>>) ELSE index_
                /\ n_overflow_' = 0 /\ unfinished' = 0
                /\ Rewind(begin, end, first(begin), offsetEnd)

BeforeFirst ==
    /\ nsplit > 0
    /\ Rewind(index_begin_, index_end_, offset_begin_, offset_end_)
    /\ UNCHANGED <<part, n_overflow_, buffer_size_, unfinished>>

RECURSIVE RecordsIn(_)
RecordsIn(chunk) ==
    IF chunk = <<>> THEN <<>>
    ELSE LET e == ExtractNextRecord(chunk) IN <<e.rec>> \o RecordsIn(e.rest)

\* NextBatch, and NextChunk for batch_size_.  Given at once, the batch leaves tmp_chunk_ empty.
NextBatch(n) ==
    LET b == NextBatchEx(n)
        given == RecordsIn(b.chunk)
    IN  /\ nsplit > 0 /\ call = "batch" /\ tmp_chunk_ = <<>>
        /\ current_index_' = b.current /\ n_overflow_' = b.overflow
        /\ offset_curr_' = b.curr /\ buffer_size_' = b.buffer
        /\ out' = out \o given /\ ended' = ~b.ok
        /\ unfinished' = IF unfinished + Len(given) = n THEN 0 ELSE unfinished + Len(given)
        /\ UNCHANGED <<part, permutation_, tmp_chunk_>>

\* Loads as many words as the buffer holds, whatever record they end in.
NextRecord ==
    LET chunk == IF tmp_chunk_ /= <<>> THEN tmp_chunk_ ELSE Read(offset_curr_, buffer_size_)
        e == ExtractNextRecord(chunk)
    IN  /\ nsplit > 0 /\ call = "record"
        /\ IF chunk = <<>> THEN ended' = TRUE /\ UNCHANGED <<out, tmp_chunk_, offset_curr_, current_index_>>
           ELSE /\ out' = Append(out, e.rec) /\ tmp_chunk_' = e.rest /\ ended' = FALSE
                /\ IF tmp_chunk_ /= <<>> THEN UNCHANGED <<offset_curr_, current_index_>>
                   ELSE offset_curr_' = offset_curr_ + Len(chunk) /\ current_index_' = current_index_ + 1
        /\ UNCHANGED <<part, n_overflow_, permutation_, buffer_size_, unfinished>>

Init ==
    /\ Sizes \in Inputs /\ batch_size_ \in BatchSizes /\ call \in Calls
    /\ index_ = ReadIndexFile({Len(FlattenSeq([j \in 1 .. i - 1 |-> Words(j)])) : i \in 1 .. N})
    /\ index_begin_ = 0 /\ index_end_ \in Junk /\ current_index_ = 0 /\ n_overflow_ = 0
    /\ offset_begin_ = 0 /\ offset_end_ = index_end_ /\ offset_curr_ = 0
    /\ permutation_ = <<>> /\ buffer_size_ = kBufferSize /\ tmp_chunk_ = <<>>
    /\ rank = 0 /\ nsplit = 0 /\ out = <<>> /\ ended = FALSE /\ unfinished = 0

Next ==
    \/ \E n \in 1 .. MaxParts : \E r \in 0 .. n - 1 : ResetPartition(r, n)
    \/ BeforeFirst \/ NextBatch(batch_size_) \/ NextRecord

\* Nobody resets a split without end.
Bounded == Len(index_) <= N + 2

Spec == Init /\ [][Next]_vars

-----------------------------------------------------------------------------
TypeOK ==
    /\ DOMAIN index_ = 1 .. Len(index_) /\ Len(index_) >= N
    /\ index_begin_ \in Nat /\ index_end_ \in Nat
    /\ n_overflow_ \in 0 .. batch_size_
    /\ nsplit > 0 => current_index_ <= Len(index_)

Expected(r, n) ==
    LET each == (N + n - 1) \div n IN SelectSeq([i \in 1 .. N |-> i], LAMBDA i : (i - 1) \div each = r)

\* A partition's records come out once each, in the order of the file unless
\* shuffled, and when there are no more all of them have come out; records are
\* in the partition that the whole index says, whatever was read before.
Delivered ==
    nsplit > 0 =>
        /\ IF shuffle_ /\ call = "batch"
           THEN IsInjective(out) /\ ToSet(out) \subseteq ToSet(Expected(rank, nsplit))
           ELSE IsPrefix(out, Expected(rank, nsplit))
        /\ ended => Len(out) = Len(Expected(rank, nsplit))

\* NextChunk and NextBatch never give a part of a record, and no chunk begins or
\* ends inside one.
NoPartial == Invalid \notin ToSet(out)

\* A batch is cut off only by the end of the records, and the next one, after
\* BeforeFirst, brings what is missing of it and no more.
BatchesFilled ==
    /\ unfinished < batch_size_
    /\ (unfinished > 0 /\ out /= <<>>) => Len(out) = Len(Expected(rank, nsplit))
=============================================================================
