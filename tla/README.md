# dmlc-core in TLA+

Specifications of the concurrent, distributed and stateful parts of dmlc-core,
with TLC configurations that check them on small instances and TLAPS proofs of
the concurrent structures everything else rests on.  Every definition is
written from the code under `src/`; `PROJECT.json` maps each one to the lines
it stands for and lists the hazards that the properties are about.

## The system and its modules

dmlc-core is a library of parts that hand data to each other.  Files are cut
into partitions (input splits), read through file systems (S3 among them),
parsed into row blocks by several threads, read ahead by a `ThreadedIter`, and
kept or cached by row iterators.  Beside this pipeline are two concurrent
queues, groups of threads, the formats (RecordIO, JSON, configuration,
parameters, numbers), and the two programs that start a distributed job: the
rabit tracker and the YARN application master.

| Part | Source | Module | State and actions |
|---|---|---|---|
| Iterator interface | `include/dmlc/data.h` | `DataIter` | what `Next` and `BeforeFirst` promise; implemented by `ThreadedIter` |
| Read-ahead iterator | `include/dmlc/threadediter.h` | `ThreadedIter` | one variable per member, one action per region under `mutex_`; calls of `next()`, tests for an exception and notifications after `unlock()` are steps of their own |
| Blocking queue | `include/dmlc/concurrency.h` | `ConcurrentBlockingQueue` | `Push`, `PushFront`, `Pop`, `SignalForKill`, `Size`, FIFO or priority, notification after the unlock |
| Lock-free queue | `include/dmlc/concurrentqueue.h` | `ProducerBase` | counters shared by both kinds of producer and the claim of a dequeue |
| | | `ExplicitProducer` | ring of blocks and index of a producer with a token, one action per atomic access |
| | | `ImplicitProducer` | the same for a producer without token: undo, rewinding and growth of its index |
| | | `BlockPool` | `requisition_block`, initial pool, `FreeList` with its reference counts |
| | | `ImplicitProducerHash` | thread to producer: search, growth by a table, recycling, exit of a thread |
| | | `ConsumerTokens` | a dequeue that walks the producers, and the rotation of tokens |
| Blocking front of it | `include/dmlc/blockingconcurrentqueue.h` | `BlockingConcurrentQueue` | semaphore with its spin, kernel waits, timeouts that take their decrement back |
| Threads | `include/dmlc/thread_group.h` | `ThreadGroup` | `ManualEvent`, launch, add, remove, join, destructors |
| | | `BlockingQueueThread` | enqueue, `request_shutdown`, `run` |
| Input splits | `src/io/input_split_base.*`, `line_split.*`, `recordio_split.*` | `InputSplitBase` | partition bounds, overflow between chunks, records of both formats |
| | `src/io/indexed_recordio_split.*` | `IndexedRecordIOSplitter` | batches, buffers, permutation |
| | `src/io/threaded_input_split.h` | `ThreadedInputSplit` | prefetch thread, its queue and free cells, chunks, stream of the base split |
| | `src/io/cached_input_split.h` | `CachedInputSplit` | writing and reading of the cache by programs that follow one another |
| S3 | `src/io/s3_filesys.cc` | `S3ReadStream`, `S3WriteStream`, `S3FileSystem` | reads with lost connections and seeks up to and past the end, multipart upload with retries, refusals and a `Close` after a `Write` that threw, listing in pages; the service is external |
| Rows | `src/data/row_block.h`, `include/dmlc/data.h` | `RowBlock` | arrays of a container, `Push`, `GetBlock`, `Slice` |
| Text parsers | `src/data/libsvm_parser.h`, `libfm_parser.h`, `text_parser.h` | `LibSVMParser` | cutting of a chunk among threads and their parsing of both formats |
| | `src/data/csv_parser.h` | `CSVParser` | rows, label and weight columns |
| | `src/data/parquet_parser.h` | `ParquetParser` | tasks over row groups; the Arrow reader is external |
| Row iterators | `src/data.cc`, `basic_row_iter.h`, `disk_row_iter.h` | `RowBlockIter` | in memory or through cache files, over programs that may be killed between two pages or inside of one |
| Formats | `include/dmlc/config.h`, `src/config.cc` | `Config` | tokenizer, parser, insertion and walk |
| | `include/dmlc/strtonum.h` | `StrToNum` | `ParseFloat`, `strtof`, `stof` with limits scaled down, and the words `inf`, `infinity`, `nan` and `nan(...)` |
| | `include/dmlc/parameter.h` | `Parameter` | `RunInit`, `RunUpdate`, fields of every kind, save, load, environment |
| | `include/dmlc/json.h` | `JSON` | writer, reader, handlers, scopes |
| | `include/dmlc/recordio.h`, `src/recordio.cc` | `RecordIO` | writer that may stop at any word, reader, chunk reader |
| Rabit tracker | `tracker/dmlc_tracker/tracker.py` | `RabitTracker` | accept loop with crashing workers, of whom some give no job id, and the assertions of `accept_slaves` and `assign_rank`; tree, ring and renumbering as operators |
| YARN master | `tracker/yarn/.../ApplicationMaster.java` | `YarnAppMaster` | one action per callback, task lists, blacklist, attempts, abort, launches that throw |

Variables keep the names of the members; `pc` variables say where a thread is
between two steps that others can see; other variables are history that a
property compares with (`sent`, `out`, `got`, `pushed`).  Code under a lock is
one action, code between two atomic accesses is one action, a sequential
operation is one action unless it can stop in the middle.  Payloads are small
numbers or symbols: the bytes of a record, the value of a feature or the text of
a parameter matter only as far as a property tells them apart.  Operators whose
names end in `Mutant` stand next to the definition they vary and are wrong on
purpose: each shows that a property notices that mistake in the code.

The `MC*` modules instantiate the specifications.  Six of them hold several
components; the variable `on` says which of them a behaviour is about, and the
variables of all others stay 0.

## What the runs show

| Run | Components (`on`) | Checked |
|---|---|---|
| `iter_safety` | `ThreadedIter` | each cell has one owner and only an exception out of `next()` loses one; items come in order and whole; an exception is never taken for the end; no wake-up is lost; the `CHECK`s hold; `DataIter` is implemented |
| `iter_live` | `ThreadedIter` | every call returns when `next()` does not throw |
| `iter_hang` | `ThreadedIter` | **violated**: `BeforeFirst` returns when `next()` throws |
| `bqueue_fifo` | `ConcurrentBlockingQueue` | no item stranded beside a sleeping `Pop`; none lost, doubled or overtaken |
| `bqueue_priority` | `ConcurrentBlockingQueue` | who waits in `Pop` gets an item or hears of the kill |
| `concurrent_queue` | `bulk`, `race`, `single`, `implicit`, `wrap`, `pool`, `tokens` | consumers take what they claimed, in order and once, while blocks are reused and indices grow, rewind and wrap; destructors destroy items only and give back every block; a block has one place; a dequeue fails only when every producer appeared empty |
| `explicit_failed_bulk` | `fail` | **violated**: the same when an index allocation fails in `enqueue_bulk` |
| `queue` | `hash`, `hash_exit`, `tokens_live`, `blocking`, `blocking_live`, `group`, `wakeups`, `worker` | threads do not share a producer and keep theirs; permits are items; a group outlives the threads that call it and its destructor joins them, also with spurious wake-ups; all but a few of the items enqueued before a shutdown are worked on; sleepers wake; calls return and threads exit |
| `io` | `text`, `record`, `indexed`, `shuffled`, `threaded`, `cached`, `s3_read`, `s3_read_steady`, `s3_write`, `s3_list` | each record of a partition comes out once and whole, each record is in one partition; S3 reads give the next bytes, an object is all that was written or is not there, a listing has every entry as what it is; calls end |
| `data` | `block`, `libsvm`, `counted`, `libfm`, `csv`, `csv_labels`, `parquet`, `row_iter` | rows are kept by containers, also behind slices, by parsers and by caches; row groups come in order and the first epoch has them all, whatever the order of tasks; a program killed while it writes its cache spoils no other |
| `text` | `config`, `config_text`, `strtonum`, `net`, `rate`, `json`, `recordio`, `recordio_torn` | what is written is read back; numbers are exact inside the range, words are taken whole; `Init` and `UpdateAllowUnknown` mean what they say, also after a failure |
| `tracker` | `rabit`, `rabit_live`, `yarn`, `yarn_live`, `link_map` | ranks are unique, links are those of the map, nobody waits for a peer that will not come; tree and ring are sound for 1 to 15 workers; no task is lost, but for a launch that throws, doubled or started too often; jobs end |

### Bounds

A bound is a constant of a module (`Max...`, or a size) or a set that an `MC*`
module gives.  They are chosen so that the interesting cases happen:

* `ThreadedIter`: two consumers, one of them the owner, capacity 1, a pass of
  two items, five cells: the queue fills, the free list empties, a consumer
  holds a cell across a reset, a cell leaks once.
* Blocking queue: three threads (two sleepers and one who wakes), three items,
  two of equal priority.
* Lock-free queue: blocks of two items; indices of two entries that must grow;
  indices modulo 8, 16 or 32 and up to twelve items, so that they wrap; bulks
  of up to three items, so that one call crosses blocks; two consumers where
  they race.  `IndexRange` replaces 2^64 and `MAX_SUBQUEUE_SIZE` its limit.
* Hash: three threads whose ids collide in tables of 2 or 4 slots, up to three
  tables.
* Files of zero to several records, one to four parts, buffers from smaller
  than a record to larger than a file.
* S3: files of four bytes, seeks to 0 to 5, three attempts instead of 50, pages of 1,
  2 and 10, buckets in which a directory has a key of its own or not.
* Row blocks: slices that begin with the first row and later, ids and fields that
  the type of the container cannot hold.
* Text: all short strings over the characters that the tokenizers tell apart.
  `StrToNum` has the limits of a float with exponent 2, and integers that wrap
  at 64 and 128, so that every comparison of the code is met on both sides.
* Tracker: three workers of whom two crash, four without crashes; one worker and
  one server task, two attempts, two containers and two nodes for YARN.

Symmetry is used for cells, threads, consumers and blocks, which nothing orders,
and only in runs without liveness.  The composite runs set `CHECK_DEADLOCK
FALSE`, since most of their components are programs that finish or meet a
bound; the runs of `ThreadedIter` and `ConcurrentBlockingQueue` check deadlock.

### Fairness

Weak fairness is asked of steps that a thread takes by itself once it is inside
a call: the producer thread, a consumer between lock and return, a thread of a
group, the tracker's loop, a worker that is not dead, the prefetch thread.
Nobody is obliged to begin a call, to throw, to crash or to wake spuriously.
Of the environment the following is assumed: callbacks return or raise; curl
reports how a transfer ended; the resource manager hands out what it owes and
reports containers that end, the node manager the outcome of a start; a
consumer with a permit finds its item in the end (it spins until it does).

## What is proved

TLAPS proves, for every number of threads, cells, blocks, items and workers:

| Theorem | Module | Statement |
|---|---|---|
| `TypeCorrect` | `ThreadedIterProofs` | types; the wait counters count the threads inside a wait |
| `CellsOwned`, `LostCells` | `ThreadedIterProofs` | `CellOwnership`, `LeakOnlyOnThrow` |
| `WakeupsKept`, `AssertionsHold` | `ThreadedIterOrder` | `NoLostWakeup`, `ChecksHold` |
| `ItemsInOrder`, `NoTruncation`, `Refinement` | `ThreadedIterOrder` | `InOrder`, `NoSilentTruncation`, `ImplementsDataIter` |
| `TypeCorrect`, `NoItemStranded` | `BlockingQueueProofs` | types and wait counter, `NoStrandedItem` |
| `DeliveredOnce`, `OrderKept` | `BlockingQueueProofs` | `ExactlyOnce`, `PushOrderKept` |
| `PermitsHold`, `PostsExact`, `CountExact`, `TypeCorrect` | `BlockingConcurrentQueueProofs` | `PermitsAreItems`, `PostsMatch`, `CountIsItems`, `TypeOK` |
| `OutlivesRemovals`, `DestructorJoins`, `EmptySignaled`, `TypeCorrect` | `ThreadGroup` | `GroupOutlives`, `JoinsJoinable`, `EmptyIsSignaled`, `TypeOK` |
| `BlocksInOnePlace`, `AssertionHolds`, `CountsExact`, `TypeCorrect` | `BlockPoolProofs` | `OnePlace`, `GotNotMarked`, `RefsCounted`, `TypeOK` |
| `RanksNeverShared`, `LinksStayPeers`, `AssertionsNeverFail`, `WaitConnExact` | `RabitTrackerProofs` | `RanksUnique`; `LinksArePeers`; `AssertionsHold`; `AcceptsAgree` and `WaitConnWaits` while nothing has failed |

The assumptions on constants are the named `ASSUME`s of `ThreadedIter` and
`ConcurrentBlockingQueue` (finite sets of threads and items, an owner among the
consumers, natural bounds).  The other four modules are instantiated several
times with constants of their own, so a theorem about them states what it needs:

* `Finite` (blocking queue over the lock-free one): finite sets of producers and
  consumers, natural bounds.
* `Fitting` (block pool): finitely many threads, two fewer than
  `SHOULD_BE_ON_FREELIST`, so that a count of references cannot reach the flag
  bit; natural sizes of the pools.  The bit is 2^30 in the model, where the code
  has 2^31: TLC's integers end there, and no proof uses its value beyond that.
* `OutlivesRemovals` needs threads with names of their own, without which the code
  does something else (see the disagreements below).  The other three theorems
  need nothing.  `DestructorJoins` says that the destructor neither meets the check of
  `join_all` that the group is empty nor waits for `evEmpty_` there, spurious
  wake-ups or not, since by then every thread is one to be joined; and that an
  explicit `join_all`, which a spurious wake-up may bring to its check too early,
  meets it only over threads that remove themselves.
* `Proper` (tracker): at least one rank, a link map from ranks to sets of ranks,
  any hosts.  `RanksNeverShared` needs no more: it holds with any number of
  workers, crashes, restarts and failed connections.  The other three theorems add
  `Symmetric`, that a peer's peers include oneself: it is what `get_link_map` makes
  (`TreeAndRing` checks it for up to 15 workers), and without it the assertion of
  `assign_rank` that a worker's good links are among its peers
  (`tracker.py:126`) would fail over the links that others made.  `LinksStayPeers`
  needs no more.  `AssertionsNeverFail` and `WaitConnExact` also need `Enough`,
  finitely many workers and no more than `nslave`, and speak of the
  time in which no worker has crashed and no connection has failed (`Peaceful`):
  afterwards the tracker may wait for a dead worker, and a repeated round of
  `assign_rank` leaves `wait_conn` wrong (see below).

None of the invariants is inductive by itself.  For `ThreadedIter` the
strengthening has these layers:

1. `Types` and `Transit`: what the program counters say about the cells in
   transit (the producer has a cell between pop and push, a caller of `Recycle`
   the one it gives back).
2. `Counters`: `nwait_producer_` and `nwait_consumer_` equal the number of threads
   inside the waits.  A step that notifies only if a counter is positive is
   right only because of this.
3. `CellOwnership`, in terms of the sets of cells of the two queues, of the
   producer's hand, of `out_data_` and of the consumers: every action moves one
   cell or one whole queue from one set to another.
4. `Protocol`: which caller can be where while a request is pending, processed or
   given up after an exception, and who can be asleep.  With 2 it gives that a
   sleeper whose predicate is true has a notification on its way.
5. `OrderInv`: the queue and the producer's hand hold the next items of the pass,
   as long as nobody consumed between `BeforeFirst` and its answer and nothing was
   thrown.  With 3 and 4 it gives the end of the pass and the refinement.

For `ConcurrentBlockingQueue`, `NoStrandedItem` and the counter are inductive
together: items in the queue beyond the notifications that are on their way leave
no sleeper, because `Push` notifies exactly when the counter says somebody waits.
For `ExactlyOnce` and `PushOrderKept` the steps are put in terms of the sequence
itself: every step leaves the queue alone, puts one new item at its back or its
front, or takes out its first one, and what was popped, followed by the queue,
keeps the order in which the items were pushed.

For `BlockingConcurrentQueue` the invariant is two balances.  The permits (what
`m_count` shows, what signals under way will add and what callers already have)
are the items; the posts of the kernel semaphore, made or owed, are the waiters
that `m_count` no longer owes.  A sum over threads is the size of a set of pairs,
so that one thread's step adds or removes pairs of that thread only.

For `ThreadGroup`, `Inv` ties `evEmpty_` to the member list, `JoinInv` says that from
the destructor on every thread of the group is one to be joined, and that a thread
which `join_all` has not taken into its set is one that removes itself, and `GroupInv` that a
thread which has not called `remove_thread` yet is a member, and that from the
destructor on whoever may still be inside that call is in the set of threads that
the owner joins before the group goes.

For `BlockPool` each block is in one of five conditions, with the value of its
reference count in each: `Idle` (never used, or with an owner), `OnList`, `Put` by
one thread, early (no reference left, the flag bit set) or late (the count
includes the list), `Taken` by one thread, or `LeftOver` to the threads that still
refer to it.  The blocks on the list are the least set that has the head and is
closed under `freeListNext`; a rank that falls along the list shows that it has no
cycle, so that taking the head takes exactly one block off.  The next pointer of
a block changes only in `Put`, early, when nobody refers to the block: this is why
the pointer that `try_get` has read is still the one it writes into the head, and
why the compare-and-swap on the head alone is enough.

For `RabitTracker` the invariant `TrackerInv` has four parts.  `Basics` has the
types, and where the tracker is in `assign_rank`.  `RanksApart` says that a rank
belongs to one worker at most, where "belongs" covers `job_map` and the messages
on their way besides the worker itself, and that no rank left in `todo_nodes`
belongs to anybody; this is what makes `recover`, which names its own rank, safe.
`LinksInv` says that a life of a worker has at most one request under way, that
who has links or a request with a rank has that rank, and that no entry is of a
life to come: a link then always joins two ranks that the map joins, and a worker
that comes back begins without links.
`Calm` holds while nothing has failed: a worker that waits for its rank is in
one place only (a message, `pending`, the batch or `assign_rank`), `wait_conn`
differs from what the workers wait for only by the connections whose report the
tracker has not read yet, and either the ranks have not been handed out, with
fewer than `nslave` workers in `pending`, or every worker has asked.  That a sort
of `pending` by host gives each entry a place of its own is a lemma, by counting
the entries before it.

Left to TLC:

* all liveness (`ENABLED` and fairness are outside the prover);
* components with recursive operators (`JSON`, `Config`, the splits and parsers:
  what a recursive definition computes would need induction over its input);
* the producers of the lock-free queue, its hash and its tokens, S3, row
  iterators and YARN master, whose invariants have no proofs yet, and of the tracker
  the topology, `NoStrandedAccept` and the agreement of `wait_conn` after a crash.

## Disagreements met while modelling

Two are checked as runs.

* `iter_hang`: `BeforeFirst` tests for an exception, then locks and waits.  If
  `next()` throws in between, the handler sees `kProduce`, sets nothing that
  `BeforeFirst` waits for, and the producer thread is gone; the wait "until the
  request has been processed" (`include/dmlc/threadediter.h:224`) never ends.
* `explicit_failed_bulk`: an `enqueue_bulk` that fails for want of memory leaves
  its empty blocks in the ring but not in the count of index slots, so later an
  index entry in use is overwritten, although there is "guaranteed to be room"
  (`include/dmlc/concurrentqueue.h:1956`).

The others are switched off by a constant, or by the inputs, of the instances
above, or a property that is checked excepts them and says so; the runs do not
show that they are right.  Each can be seen with a configuration of the module as
given here.

| Module, property | Constants or inputs | What the code does |
|---|---|---|
| `ThreadedIter`, `QueueCapacity` | as in `iter_safety` | `queue_` grows past `max_capacity_` ("maximum queue size", `threadediter.h:256`) by the cells given back |
| `ThreadedIter`, `NoThrowDuringDestroy` | `NextThrows` | `next()` may throw while `Destroy` waits, against the `CHECK` text at `threadediter.h:402` |
| `ExplicitProducer`, `DestroysItemsOnly` | `NoexceptCtor` false, `MaxBulk` 2 | after a throwing constructor the destructor destroys slots that hold no item (`concurrentqueue.h:2304`; 2009 says "without corrupting the queue") |
| `ImplicitProducerHash`, `SlotIsFree` | eight threads, one at a time, 8 slots, `THREAD_LOCAL_SUPPORTED` | threads that come and go fill the table while the count stays small (3731; "at least one slot is free", 3562) |
| `ConsumerTokens`, `RotatesAtQuota` | `MaxBulk` 2 | a bulk dequeue passes the quota, which is compared with `==` only ("Every 256 items", 1232) |
| `ThreadGroup`, `AllExited` | one thread | a thread that removes itself is not joined ("All child threads will be exited", `thread_group.h:313`) |
| `ThreadGroup`, `LaunchReports`, `GroupOutlives` | `DuplicateNames` | `launch` returns true for a refused thread, which nobody joins (770, 737) |
| `ThreadGroup`, `JoinsAll` | `SpuriousWakeups` | `ManualEvent::wait` does not test again (46), so that an explicit `join_all` throws while threads that remove themselves are left (433); the destructor does not |
| `BlockingQueueThread`, `EarlyItemsDone` | one item, two callers | the quit item can overtake an item whose permit is taken (557; 550 says that it waits) |
| `BlockingQueueThread`, `ShutdownReturns` | `MayStop` | `request_shutdown` waits for a queue that a thread which left will not empty |
| `InputSplitBase`, `Delivered` | `ReuseForEmpty` | a reset to an empty partition keeps the old chunk (`input_split_base.cc:37`) |
| `IndexedRecordIOSplitter`, `Delivered` | `ResetAgain`; `EmptyParts` | a sentinel is counted as a record at the next reset (29); an empty part leaves members unset (19) |
| `IndexedRecordIOSplitter`, `NoPartial` | `kBufferSize` smaller than the part | `ReadChunk` cuts a record (153) |
| `ThreadedInputSplit`, `StreamLives` | `ResetAnytime` | `ResetPartition` deletes the stream under the prefetch thread (98) |
| `CachedInputSplit`, `Delivered` | `StopEarly` | a cache file of a program that stopped is taken for whole (46) |
| `S3ReadStream`, `ZeroMeansEnd`, `AbortsOnFailure` | `Drops` | `Read` returns 0 after a lost connection; a connection that brought everything counts as failed (512, 517) |
| `RowBlock`, `SlicesReadBack`, `ReadBack` | `Cuts` with a later begin; blocks with and without weights | the features of the first rows of the block are pushed for those of the slice (152); weights move to earlier rows (131) |
| `LibSVMParser`, `RowsKept` | `indexing_mode` -1 with two threads; a comment on its own line; weights on some lines only | the mode is detected for each thread (165); the comment's text becomes a label (103); weights move (111) |
| `CSVParser`, `OwnLine`, `RowsKept` | a last field of blanks; delimiter blank | the value is read from the next line or field (99) |
| `ParquetParser`, `WholeEpochs`, `WholeFile` | two epochs; `Failing` | `BeforeFirst` is empty (83), so that later epochs have no blocks, where `data.h:61` says "set before first of the item"; a failed task is not noticed (121) |
| `RowBlockIter`, `NoPartialCache`, `NumColRight`, `FormatUsed` | `CacheFiles`; a format in the URI | an unfinished cache, its last page torn inside the offsets or after a whole one, is used as the dataset (`disk_row_iter.h:95`), one torn elsewhere is a bad format at every later start; `NumCol` is unset (81), the format argument is dropped (`data.cc:94`) |
| `Config`, `ProtoStringParses`, `QuotedAsInserted`, `EndsAtEnd` | a value that ends in a backslash; a key inserted with and without quotes; an empty quoted key | not escaped (`config.cc:187`); one flag per key (202); the rest of the file is dropped (156) |
| `StrToNum`, `OwnRangeError`, `ZeroInRange`, `OverflowReported`, `NoNumberReported`, `RangeExact` | `inf` after an error; `0e-2`; many digits; `-`; a long exponent | `errno` is not cleared (491); zero is out of range (232); infinity is not reported (253); nor is no number (493); the exponent wraps (216) |
| `Parameter`, `RangeHolds`, `RequiredChecked` | `nan`; an update without a required field | NaN passes the range (727); only `Init` looks for required fields (457) |
| `JSON`, `EndsMet`, `LineCounted`, `RoundTrip` | `cut`; numbers on lines; a key with a backslash | the end of input ends a scope (785); lines before numbers are not counted (724); keys are not escaped (901) |
| `RecordIO`, `EndAtEnd`, `NothingGlued` | `Seeks`; `Appends` after a crash | `Seek` keeps `end_of_stream_` (49); pieces of two records are joined (78) |
| `RabitTracker`, `WaitConnWaits`, job end | `MaxErrors` 1; `MaxCrashes` 1 with fairness | a peer connected in a repeated round stays in `wait_conn` (139); `recvall` of a dead worker reads for ever (36) |
| `YarnAppMaster`, `PendingIsRequested`, `RoleResources`, `AbortEndsJob` | three containers; an error before `submitTasks` | a container on a blacklisted host is not requested again (488); a task takes any container (494); the aborted job polls for ever (482) |
| `YarnAppMaster`, run()'s assertion | `LaunchFails` | an exception out of `launchTask`, which builds the tokens (366), leaves a task that was polled in no list, the containers after it unused and the sum of `run()` (276) short; `EachTaskOnce` and `RunAssertion` except such tasks |
| `S3ReadStream`, a read at the end | a seek to or past the end | the request is refused and the next `Read` is fatal (574), where that of a local file gives 0 |
| `S3FileSystem`, a listing | a directory with a key of its own | the directory is listed as a file of itself (1100) |

## Not modelled

* HDFS, Azure and local files, and the choice of a file system by URI: a few calls of
  a library or of the operating system each.  The splits are modelled over the
  S3 stream's contract and over files as sequences.
* `SingleFileSplit`, `InputSplitShuffle`, `SingleThreadedInputSplit`: variations of
  `InputSplitBase` without threads of their own.
* `Parser` over chunks: an index into the blocks that `FillData` made; its
  read-ahead is `ThreadedIter`.
* Weak memory orders.  The lock-free queue is modelled sequentially consistent,
  so that nothing here says that its fences are enough.
* Moving and swapping a `ConcurrentQueue`, allowed only while nobody uses it.
* The memory pool and thread-local pointers, `Spinlock`, serializers, value types,
  registry, logging, the Lua bridge: sequential code, or decided at compile time.
* Rounding of floats and the integer parsers of `strtonum.h`.
* Job submission scripts and the YARN client: command lines and process start.
