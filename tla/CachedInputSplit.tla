-------------------------- MODULE CachedInputSplit --------------------------
(* CachedInputSplit (src/io/cached_input_split.h): the first reading of a split
   writes its chunks to a cache file, the later ones read the file, also those
   of later processes.  Each of the two iterators is a thread that fills a
   queue; ThreadedIter says why its BeforeFirst and its destruction are atomic
   here.  The cache file's name is made by URISpec (src/io/uri_spec.h). *)
EXTENDS Integers, Sequences, SequencesExt, TLC

CONSTANTS
    MaxParts,       \* how many parts the data may be split in
    Chunks,         \* chunks of each part
    PerChunk,       \* records of a chunk
    Capacity,       \* queue length of both iterators
    StopEarly       \* whether a process may end before the cache file is whole

VARIABLES
    disk,              \* cache file name -> its chunks
    part, nsplit, running,
    iter,              \* "preproc" while iter_preproc_ exists, or "cached"
    fpos,              \* chunks taken from base_, or read from fi_
    queue,
    tmp_chunk_, left,
    out, ended         \* records since the beginning; no more

proc == <<part, nsplit, running>>
vars == <<disk, proc, iter, fpos, queue, tmp_chunk_, left, out, ended>>
NoChunk == <<>>
All(r, n) == [k \in 1 .. Chunks |-> <<r, n, k>>]

\* The same name for all the parts.
NameMutant(r, n) == <<"cache">>

URISpec(r, n) == IF n /= 1 THEN <<"cache", n, r>> ELSE <<"cache">>
cache_file_ == URISpec(part, nsplit)

Fresh(it) == iter' = it /\ fpos' = 0 /\ queue' = <<>>
Forget == tmp_chunk_' = NoChunk /\ left' = 0 /\ out' = <<>> /\ ended' = FALSE

\* The constructor: a cache file that is there is taken as it is.
Create(r, n) ==
    LET name == URISpec(r, n) IN
    /\ ~running /\ running' = TRUE /\ part' = r /\ nsplit' = n
    /\ IF name \in DOMAIN disk THEN Fresh("cached") /\ UNCHANGED disk
       ELSE Fresh("preproc") /\ disk' = disk @@ (name :> <<>>)
    /\ Forget

Save(file, chunk) == Append(file, chunk)

\* The lambda of InitPreprocIter.
Preproc ==
    /\ running /\ iter = "preproc" /\ fpos < Chunks /\ Len(queue) < Capacity
    /\ fpos' = fpos + 1 /\ queue' = Append(queue, All(part, nsplit)[fpos + 1])
    /\ disk' = [disk EXCEPT ![cache_file_] = Save(@, All(part, nsplit)[fpos + 1])]
    /\ UNCHANGED <<proc, iter, tmp_chunk_, left, out, ended>>

\* The lambda of InitCachedIter.
ReadCache ==
    /\ running /\ iter = "cached" /\ fpos < Len(disk[cache_file_]) /\ Len(queue) < Capacity
    /\ fpos' = fpos + 1 /\ queue' = Append(queue, disk[cache_file_][fpos + 1])
    /\ UNCHANGED <<disk, proc, iter, tmp_chunk_, left, out, ended>>

AtEnd == IF iter = "preproc" THEN fpos = Chunks ELSE fpos = Len(disk[cache_file_])

\* n records of a chunk that has `from` given already.
Given(chunk, from, n) == [k \in 1 .. n |-> Append(chunk, from + k)]

\* NextRecord (one) and NextChunk (all that is left of the chunk).
Take(one) ==
    /\ running
    /\ IF left > 0
       THEN LET n == IF one THEN 1 ELSE left
            IN  out' = out \o Given(tmp_chunk_, PerChunk - left, n) /\ left' = left - n
                /\ UNCHANGED <<queue, tmp_chunk_, ended>>
       ELSE IF queue /= <<>>
       THEN LET n == IF one THEN 1 ELSE PerChunk
            IN  tmp_chunk_' = Head(queue) /\ queue' = Tail(queue) /\ left' = PerChunk - n
                /\ out' = out \o Given(Head(queue), 0, n) /\ UNCHANGED ended
       ELSE AtEnd /\ ended' = TRUE /\ tmp_chunk_' = NoChunk /\ UNCHANGED <<queue, left, out>>
    /\ UNCHANGED <<disk, proc, iter, fpos>>
NextRecord == Take(TRUE)
NextChunk == Take(FALSE)

\* What is left of the split is pulled through the preprocessing.
Drain ==
    IF iter = "cached" THEN disk
    ELSE [disk EXCEPT ![cache_file_] = @ \o SubSeq(All(part, nsplit), fpos + 1, Chunks)]

BeforeFirst ==
    /\ running
    /\ disk' = Drain /\ Fresh("cached") /\ Forget
    /\ UNCHANGED proc

\* The destructor, or the end of the process between two chunks.
Stop ==
    /\ running /\ (StopEarly \/ iter = "cached")
    /\ running' = FALSE
    /\ Fresh("cached") /\ Forget /\ UNCHANGED <<disk, part, nsplit>>

Init ==
    /\ disk = <<>> /\ part = 0 /\ nsplit = 0 /\ running = FALSE
    /\ iter = "cached" /\ fpos = 0 /\ queue = <<>>
    /\ tmp_chunk_ = NoChunk /\ left = 0 /\ out = <<>> /\ ended = FALSE

Next ==
    \/ \E n \in 1 .. MaxParts : \E r \in 0 .. n - 1 : Create(r, n)
    \/ Preproc \/ ReadCache \/ NextRecord \/ NextChunk \/ BeforeFirst \/ Stop

Fairness == WF_vars(Preproc \/ ReadCache)

Spec == Init /\ [][Next]_vars /\ Fairness

-----------------------------------------------------------------------------
TypeOK ==
    /\ running => cache_file_ \in DOMAIN disk
    /\ iter \in {"preproc", "cached"} /\ fpos \in 0 .. Chunks
    /\ Len(queue) <= Capacity /\ left \in 0 .. PerChunk
    /\ \A f \in DOMAIN disk : Len(disk[f]) <= Chunks

Expected == FlattenSeq([k \in 1 .. Chunks |-> Given(All(part, nsplit)[k], 0, PerChunk)])

\* Every reading gives the records of the part, whether they come from the split
\* or from the file, in the process that wrote it or in a later one.
Delivered == running => IsPrefix(out, Expected) /\ (ended => out = Expected)
=============================================================================
