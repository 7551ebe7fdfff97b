-------------------------------- MODULE MCIO ---------------------------------
(* Instances of the input splits (InputSplitBase with its two splitters,
   IndexedRecordIOSplitter, ThreadedInputSplit, CachedInputSplit) and of the S3
   file system (S3ReadStream, S3WriteStream, S3FileSystem) for TLC.  Each
   behaviour is about one of them, on. *)
EXTENDS Integers, Sequences, FiniteSets

CONSTANTS Components

VARIABLES
    on,   \* the component that this behaviour is about
    input, files_, split_rank, split_nsplit, split_offset_begin_, split_offset_end_,
    split_offset_curr_, file_ptr_, split_tmp_chunk_, overflow_, split_buffer_size_, split_out,
    split_ended,
    Sizes, batch_size_, indexed_call, index_, index_begin_, index_end_, indexed_offset_begin_,
    indexed_offset_end_, indexed_offset_curr_, current_index_, n_overflow_, permutation_,
    indexed_buffer_size_, indexed_tmp_chunk_, indexed_rank, indexed_nsplit, indexed_out,
    indexed_ended, unfinished,
    threaded_part, pos, fs_, reading, queue_, free_cells_, produce_end_, signal, threaded_tmp_chunk_,
    threaded_left, threaded_call, threaded_out, threaded_ended,
    disk, cached_part, cached_nsplit, running, iter, fpos, queue, cached_tmp_chunk_,
    cached_left, cached_out, cached_ended,
    curr_bytes_, get_buffer_, read_ptr_, at_end_, mcurl_, get_pc, nleft, got, nretry, place,
    written, put_buffer_, etags_, upload_id_, closed_, put_pc, thrown, num_retry, replies, uploads,
    object,
    bucket, page, path, next_token, out_list, has_next_page, list_pc

LinesVars == <<input, files_, split_rank, split_nsplit, split_offset_begin_, split_offset_end_,
    split_offset_curr_, file_ptr_, split_tmp_chunk_, overflow_, split_buffer_size_, split_out,
    split_ended>>
IndexedVars == <<Sizes, batch_size_, indexed_call, index_, index_begin_, index_end_,
    indexed_offset_begin_, indexed_offset_end_, indexed_offset_curr_, current_index_,
    n_overflow_, permutation_, indexed_buffer_size_, indexed_tmp_chunk_, indexed_rank,
    indexed_nsplit, indexed_out, indexed_ended, unfinished>>
ThreadedVars == <<threaded_part, pos, fs_, reading, queue_, free_cells_, produce_end_, signal,
    threaded_tmp_chunk_, threaded_left, threaded_call, threaded_out, threaded_ended>>
CachedVars == <<disk, cached_part, cached_nsplit, running, iter, fpos, queue, cached_tmp_chunk_,
    cached_left, cached_out, cached_ended>>
GetVars == <<curr_bytes_, get_buffer_, read_ptr_, at_end_, mcurl_, get_pc, nleft, got, nretry,
    place>>
PutVars == <<written, put_buffer_, etags_, upload_id_, closed_, put_pc, thrown, num_retry, replies,
    uploads, object>>
ListVars == <<bucket, page, path, next_token, out_list, has_next_page, list_pc>>
vars == <<on, LinesVars, IndexedVars, ThreadedVars, CachedVars, GetVars, PutVars, ListVars>>

\* Texts with every arrangement of ends of line, 0, in two files; any other byte
\* is its own position.
TextsUpTo(n) == UNION {[1 .. k -> {0, 1}] : k \in 0 .. n}
Numbered(t, from) == [i \in DOMAIN t |-> t[i] * (from + i)]
TextInputs ==
    {<<Numbered(a, 0), Numbered(b, 10)>> : a \in TextsUpTo(5), b \in {<<>>, <<1>>, <<0, 1>>, <<1, 1, 0>>}}

\* Payloads of 0 to 3 words; -1 is kMagic, which is escaped.
RecordInputs == {<<<<<<1>>, <<2, -1, 3>>, <<>>>>, <<<<-1>>, <<4, 5>>>>>>,
                 <<<<<<1, -1>>, <<-1, -1, 2>>>>, <<>>, <<<<3>>>>>>}

\* Sizes of the records of an indexed file.
SomeSizes == {<<2, 1, 3, 1, 2>>, <<1, 1, 2, 1, 2>>, <<1, 2, 1, 3>>, <<3>>, <<1, 2>>}
FewSizes == {<<1, 2, 1, 2>>, <<1, 2, 1>>, <<2, 1>>}

\* a, ab, a/, a/a, a/b, a/b/a, b: "a" is a file, a directory, which may have a key of
\* its own, and the beginning of "ab".
Keys == {<<2>>, <<2, 3>>, <<2, 1>>, <<2, 1, 2>>, <<2, 1, 3>>, <<2, 1, 3, 1, 2>>, <<3>>}
SomePaths == {<<>>, <<1>>, <<1, 2>>, <<1, 2, 1>>, <<1, 2, 1, 3>>, <<1, 3>>}

Lines == INSTANCE InputSplitBase WITH Text <- TRUE, Inputs <- TextInputs, MaxParts <- 3,
    BufferSizes <- {1, 3}, WordSize <- 1, ReuseForEmpty <- FALSE, rank <- split_rank,
    nsplit <- split_nsplit, offset_begin_ <- split_offset_begin_,
    offset_end_ <- split_offset_end_, offset_curr_ <- split_offset_curr_,
    tmp_chunk_ <- split_tmp_chunk_, buffer_size_ <- split_buffer_size_, out <- split_out,
    ended <- split_ended
Records == INSTANCE InputSplitBase WITH Text <- FALSE, Inputs <- RecordInputs, MaxParts <- 4,
    BufferSizes <- {2, 3, 7}, WordSize <- 1, ReuseForEmpty <- FALSE, rank <- split_rank,
    nsplit <- split_nsplit, offset_begin_ <- split_offset_begin_,
    offset_end_ <- split_offset_end_, offset_curr_ <- split_offset_curr_,
    tmp_chunk_ <- split_tmp_chunk_, buffer_size_ <- split_buffer_size_, out <- split_out,
    ended <- split_ended
Indexed == INSTANCE IndexedRecordIOSplitter WITH Inputs <- SomeSizes, MaxParts <- 4,
    shuffle_ <- FALSE, BatchSizes <- {1, 2, 3, 6}, kBufferSize <- 10, Calls <- {"batch",
    "record"}, ResetAgain <- FALSE, EmptyParts <- FALSE, Junk <- {0}, call <- indexed_call,
    offset_begin_ <- indexed_offset_begin_, offset_end_ <- indexed_offset_end_,
    offset_curr_ <- indexed_offset_curr_, buffer_size_ <- indexed_buffer_size_,
    tmp_chunk_ <- indexed_tmp_chunk_, rank <- indexed_rank, nsplit <- indexed_nsplit,
    out <- indexed_out, ended <- indexed_ended
Shuffled == INSTANCE IndexedRecordIOSplitter WITH Inputs <- FewSizes, MaxParts <- 3,
    shuffle_ <- TRUE, BatchSizes <- {1, 3}, kBufferSize <- 6, Calls <- {"batch"},
    ResetAgain <- FALSE, EmptyParts <- FALSE, Junk <- {0}, call <- indexed_call,
    offset_begin_ <- indexed_offset_begin_, offset_end_ <- indexed_offset_end_,
    offset_curr_ <- indexed_offset_curr_, buffer_size_ <- indexed_buffer_size_,
    tmp_chunk_ <- indexed_tmp_chunk_, rank <- indexed_rank, nsplit <- indexed_nsplit,
    out <- indexed_out, ended <- indexed_ended
Threaded == INSTANCE ThreadedInputSplit WITH Parts <- {"p", "q", "r"}, ChunksIn <- [p |-> 3, q
    |-> 1, r |-> 0], PerChunk <- 2, MaxCapacity <- 2, ResetAnytime <- FALSE,
    part <- threaded_part, tmp_chunk_ <- threaded_tmp_chunk_, left <- threaded_left,
    call <- threaded_call, out <- threaded_out, ended <- threaded_ended
Cached == INSTANCE CachedInputSplit WITH MaxParts <- 2, Chunks <- 2, PerChunk <- 2,
    Capacity <- 1, StopEarly <- FALSE, part <- cached_part, nsplit <- cached_nsplit,
    tmp_chunk_ <- cached_tmp_chunk_, left <- cached_left, out <- cached_out,
    ended <- cached_ended
Get == INSTANCE S3ReadStream WITH FileSize <- 4, Sizes <- {1, 2, 4}, MaxRetry <- 3,
    Drops <- TRUE, Refusals <- TRUE, buffer_ <- get_buffer_, pc <- get_pc
Steady == INSTANCE S3ReadStream WITH FileSize <- 4, Sizes <- {1, 2, 4}, MaxRetry <- 3,
    Drops <- FALSE, Refusals <- FALSE, buffer_ <- get_buffer_, pc <- get_pc
Put == INSTANCE S3WriteStream WITH MaxBytes <- 4, WriteSizes <- {1, 2}, max_buffer_size_ <- 2,
    max_error_retry_ <- 3, buffer_ <- put_buffer_, pc <- put_pc
List == INSTANCE S3FileSystem WITH Buckets <- SUBSET Keys, Paths <- SomePaths, PageSizes <- {1,
    2, 10}, pc <- list_pc

Init ==
    /\ on \in Components
    /\ CASE on = "text" -> Lines!Init
         [] on = "record" -> Records!Init
         [] OTHER -> input = 0 /\ files_ = 0 /\ split_rank = 0 /\ split_nsplit = 0
             /\ split_offset_begin_ = 0 /\ split_offset_end_ = 0
             /\ split_offset_curr_ = 0 /\ file_ptr_ = 0 /\ split_tmp_chunk_ = 0
             /\ overflow_ = 0 /\ split_buffer_size_ = 0 /\ split_out = 0
             /\ split_ended = 0
    /\ CASE on = "indexed" -> Indexed!Init
         [] on = "shuffled" -> Shuffled!Init
         [] OTHER -> Sizes = 0 /\ batch_size_ = 0 /\ indexed_call = 0 /\ index_ = 0
             /\ index_begin_ = 0 /\ index_end_ = 0 /\ indexed_offset_begin_ = 0
             /\ indexed_offset_end_ = 0 /\ indexed_offset_curr_ = 0
             /\ current_index_ = 0 /\ n_overflow_ = 0 /\ permutation_ = 0
             /\ indexed_buffer_size_ = 0 /\ indexed_tmp_chunk_ = 0
             /\ indexed_rank = 0 /\ indexed_nsplit = 0 /\ indexed_out = 0
             /\ indexed_ended = 0 /\ unfinished = 0
    /\ IF on = "threaded" THEN Threaded!Init ELSE threaded_part = 0 /\ pos = 0 /\ fs_ = 0
          /\ reading = 0 /\ queue_ = 0 /\ free_cells_ = 0 /\ produce_end_ = 0 /\ signal = 0
          /\ threaded_tmp_chunk_ = 0 /\ threaded_left = 0 /\ threaded_call = 0
          /\ threaded_out = 0 /\ threaded_ended = 0
    /\ IF on = "cached" THEN Cached!Init ELSE disk = 0 /\ cached_part = 0
          /\ cached_nsplit = 0 /\ running = 0 /\ iter = 0 /\ fpos = 0 /\ queue = 0
          /\ cached_tmp_chunk_ = 0 /\ cached_left = 0 /\ cached_out = 0
          /\ cached_ended = 0
    /\ CASE on = "s3_read" -> Get!Init
         [] on = "s3_read_steady" -> Steady!Init
         [] OTHER -> curr_bytes_ = 0 /\ get_buffer_ = 0 /\ read_ptr_ = 0 /\ at_end_ = 0
             /\ mcurl_ = 0 /\ get_pc = 0 /\ nleft = 0 /\ got = 0 /\ nretry = 0
             /\ place = 0
    /\ IF on = "s3_write" THEN Put!Init ELSE written = 0 /\ put_buffer_ = 0 /\ etags_ = 0
          /\ upload_id_ = 0 /\ closed_ = 0 /\ put_pc = 0 /\ thrown = 0 /\ num_retry = 0
          /\ replies = 0 /\ uploads = 0 /\ object = 0
    /\ IF on = "s3_list" THEN List!Init ELSE bucket = 0 /\ page = 0 /\ path = 0
          /\ next_token = 0 /\ out_list = 0 /\ has_next_page = 0 /\ list_pc = 0

Next ==
    /\ UNCHANGED on
    /\ CASE on = "text" -> Lines!Next
         [] on = "record" -> Records!Next
         [] OTHER -> UNCHANGED LinesVars
    /\ CASE on = "indexed" -> Indexed!Next
         [] on = "shuffled" -> Shuffled!Next
         [] OTHER -> UNCHANGED IndexedVars
    /\ IF on = "threaded" THEN Threaded!Next ELSE UNCHANGED ThreadedVars
    /\ IF on = "cached" THEN Cached!Next ELSE UNCHANGED CachedVars
    /\ CASE on = "s3_read" -> Get!Next
         [] on = "s3_read_steady" -> Steady!Next
         [] OTHER -> UNCHANGED GetVars
    /\ IF on = "s3_write" THEN Put!Next ELSE UNCHANGED PutVars
    /\ IF on = "s3_list" THEN List!Next ELSE UNCHANGED ListVars

\* Nobody resets an indexed split without end.
Bounded == on \in {"indexed", "shuffled"} => Indexed!Bounded

\* The read-ahead threads run and calls that can go on do; connections may drop
\* and requests fail, but curl reports how each of them ended.
Fairness ==
    /\ WF_ThreadedVars(on = "threaded" /\ (Threaded!Produce \/ Threaded!Produced \/ Threaded!Rewind))
    /\ WF_ThreadedVars(on = "threaded" /\ (Threaded!Taken \/ Threaded!Recycle))
    /\ WF_CachedVars(on = "cached" /\ (Cached!Preproc \/ Cached!ReadCache))
    /\ WF_GetVars(on = "s3_read" /\ Get!Loop)
    /\ WF_GetVars(on = "s3_read" /\ Get!Retry)
    /\ WF_GetVars(on = "s3_read" /\ Get!Return)
    /\ WF_PutVars(on = "s3_write" /\ (Put!Attempt \/ Put!Done))
    /\ WF_ListVars(on = "s3_list" /\ List!Next)

Spec == Init /\ [][Next]_vars /\ Fairness

-----------------------------------------------------------------------------
\* The input splits: whatever the sizes of chunks, buffers and batches, wherever
\* the files end and whatever a thread has read ahead, the records of a partition
\* come out whole and once, in order or in the order of the permutation, after
\* any resets and rewinds; when there are no more all have come out; every
\* record is in exactly one partition, and no thread reads a deleted stream.
Delivered ==
    /\ on = "text" => Lines!TypeOK /\ Lines!Delivered /\ Lines!EachInOne
    /\ on = "record" => Records!TypeOK /\ Records!Delivered /\ Records!EachInOne
    /\ on = "indexed" => Indexed!TypeOK /\ Indexed!Delivered /\ Indexed!NoPartial /\ Indexed!BatchesFilled
    /\ on = "shuffled" => Shuffled!TypeOK /\ Shuffled!Delivered /\ Shuffled!NoPartial /\ Shuffled!BatchesFilled
    /\ on = "threaded" => Threaded!TypeOK /\ Threaded!Delivered /\ Threaded!StreamLives
    /\ on = "cached" => Cached!TypeOK /\ Cached!Delivered

\* ReadStream: through seeks, buffers and connections that end, the bytes that
\* Read gives are the next ones of the file and Tell says where the program is;
\* as long as no connection ends early, only the end of the file gives nothing.
InPlace ==
    /\ on = "s3_read" => Get!TypeOK /\ Get!InPlace
    /\ on = "s3_read_steady" => Steady!TypeOK /\ Steady!InPlace /\ Steady!ZeroMeansEnd

\* WriteStream: nobody ever sees an object that is not all that was written, in
\* order and once, whatever requests were lost, repeated, refused or carried out
\* twice, also after a Write threw, and a stream that was closed without an error
\* has made the object.
ObjectWhole == on = "s3_write" => Put!TypeOK /\ Put!ObjectWhole /\ Put!ClosedIsThere

\* S3FileSystem: the list of a directory has its files and its directories, each
\* once and as what it is, however many pages it came in, and a path is found
\* exactly if it is a file or has files below it.
ListsAll == on = "s3_list" => List!TypeOK /\ List!ListsAll /\ List!FoundIfThere

\* Calls under way: of a program that waits for a chunk or a rewind, a Read, a
\* Close, a listing.
Busy ==
    CASE on = "threaded" -> threaded_call /= "idle"
      [] on = "cached" -> running /\ queue = <<>> /\ ~Cached!AtEnd
      [] on = "s3_read" -> get_pc \in {"loop", "retry", "return"}
      [] on = "s3_write" -> closed_ /\ put_pc \notin {"done", "abort"}
      [] on = "s3_list" -> list_pc \notin {"done", "abort"}
      [] OTHER -> FALSE

\* Every call comes to an end: a chunk is produced or the end is seen, the
\* retries of a Read and of a request are counted, the pages end.
CallsReturn == Busy ~> ~Busy
=============================================================================
