--------------------------- MODULE InputSplitBase ---------------------------
(* InputSplitBase with its two splitters, LineSplitter and RecordIOSplitter
   (src/io): the partition's bounds, the reading across files, the chunks with
   the overflow carried from one to the next, and the records cut out of them.
   A unit of data is a byte of text, or a 32-bit word of RecordIO. *)
EXTENDS Integers, Sequences, SequencesExt, FiniteSets, FiniteSetsExt

CONSTANTS
    Text,            \* IsTextParser: LineSplitter, or else RecordIOSplitter
    Inputs,          \* sequences of files: of text, or of sequences of records
    MaxParts,
    BufferSizes,     \* initial buffer_size_ in words
    WordSize,        \* units per word of the buffer
    ReuseForEmpty    \* whether a used split is reset to a partition without records

EOL == 0
kMagic == -1
IsEol(u) == u = EOL
EncodeLRec(cflag, length) == 100 + 10 * cflag + length
DecodeFlag(u) == (u - 100) \div 10
DecodeLength(u) == (u - 100) % 10

\* RecordIOWriter::WriteRecord: a part ends before each kMagic of the payload.
EncodeRecord(r) ==
    LET cuts == SetToSortSeq({i \in DOMAIN r : r[i] = kMagic}, <)
        n == Len(cuts) + 1
        Part(k) == SubSeq(r, IF k = 1 THEN 1 ELSE cuts[k - 1] + 1, IF k = n THEN Len(r) ELSE cuts[k] - 1)
        cflag(k) == IF n = 1 THEN 0 ELSE IF k = 1 THEN 1 ELSE IF k = n THEN 3 ELSE 2
    IN  FlattenSeq([k \in 1 .. n |-> <<kMagic, EncodeLRec(cflag(k), Len(Part(k)))>> \o Part(k)])

Encode(file) == IF Text THEN file ELSE FlattenSeq([i \in DOMAIN file |-> EncodeRecord(file[i])])

VARIABLES
    input, files_,
    rank, nsplit,
    offset_begin_, offset_end_, offset_curr_, file_ptr_,
    tmp_chunk_, overflow_, buffer_size_,
    out, ended        \* the records given since the beginning; whether there are no more

vars == <<input, files_, rank, nsplit, offset_begin_, offset_end_, offset_curr_, file_ptr_,
          tmp_chunk_, overflow_, buffer_size_, out, ended>>

\* Files of size 0 are left out.
InitInputFileInfo(in) == SelectSeq([i \in DOMAIN in |-> Encode(in[i])], LAMBDA f : f /= <<>>)

RECURSIVE file_offset_(_)
file_offset_(i) == IF i = 0 THEN 0 ELSE file_offset_(i - 1) + Len(files_[i])
total == file_offset_(Len(files_))

\* upper_bound - 1: the file, counted from 1, in which an offset lies.
FileOf(offset) == Max({i \in 1 .. Len(files_) + 1 : file_offset_(i - 1) <= offset})

-----------------------------------------------------------------------------
(* LineSplitter, RecordIOSplitter *)

IsHead(s, i) == i < Len(s) /\ s[i] = kMagic /\ DecodeFlag(s[i + 1]) \in {0, 1}

\* How many units of f from position at on are before the next record's beginning.
SeekRecordBegin(f, at) ==
    LET eols == {i \in at + 1 .. Len(f) : IsEol(f[i])}
        starts == IF Text THEN {i \in at + 1 .. Len(f) : eols /= {} /\ i > Min(eols) /\ ~IsEol(f[i])}
                  ELSE {i \in at + 1 .. Len(f) : IsHead(f, i)}
    IN  (IF starts = {} THEN Len(f) ELSE Min(starts) - 1) - at

\* The last position in buf where a record starts, or 0.
FindLastRecordBegin(buf) ==
    LET ends == IF Text THEN {i \in 2 .. Len(buf) : IsEol(buf[i])}
                ELSE {i - 1 : i \in {j \in 2 .. Len(buf) - 1 : IsHead(buf, j)}}
    IN  IF ends = {} THEN 0 ELSE Max(ends)

\* The parts of a record up to the last, with kMagic put back between them.
\* A chunk that ends inside a record fails a CHECK.
RECURSIVE Parts(_, _)
Parts(chunk, rec) ==
    IF Len(chunk) < 2 THEN [rec |-> <<"Invalid RecordIO Format">>, rest |-> <<>>]
    ELSE LET cflag == DecodeFlag(chunk[2])
        length == DecodeLength(chunk[2])
        more == rec \o SubSeq(chunk, 3, 2 + length)
        rest == SubSeq(chunk, 3 + length, Len(chunk))
    IN  IF cflag \in {0, 3} THEN [rec |-> more, rest |-> rest]
        ELSE Parts(rest, Append(more, kMagic))

\* A line ends with all the ends of line that follow it.
ExtractNextRecord(chunk) ==
    IF Text
    THEN LET eols == {i \in DOMAIN chunk : IsEol(chunk[i])}
             others == {i \in DOMAIN chunk : eols /= {} /\ i > Min(eols) /\ ~IsEol(chunk[i])}
             p == IF others = {} THEN Len(chunk) ELSE Min(others) - 1
         IN  [rec |-> SubSeq(chunk, 1, p), rest |-> SubSeq(chunk, p + 1, Len(chunk))]
    ELSE Parts(chunk, <<>>)

-----------------------------------------------------------------------------
(* Read, ReadChunk, Chunk::Load *)

Between(buf) == IF Text THEN Append(buf, EOL) ELSE buf

\* The loop of Read: up to nleft units more, from file to file.
RECURSIVE ReadOn(_, _, _, _)
ReadOn(buf, curr, fp, nleft) ==
    LET left == file_offset_(fp) - curr
        n == IF left < nleft THEN left ELSE nleft
        at == curr - file_offset_(fp - 1)
        more == buf \o SubSeq(files_[fp], at + 1, at + n)
    IN  IF n = nleft THEN [buf |-> more, curr |-> curr + n, fp |-> fp]
        ELSE IF n > 0 THEN ReadOn(more, curr + n, fp, nleft - n)
        ELSE IF fp = Len(files_) THEN [buf |-> Between(buf), curr |-> curr, fp |-> fp]
        ELSE ReadOn(Between(buf), curr, fp + 1, nleft - (Len(Between(buf)) - Len(buf)))

Most(curr, size) == IF curr + size > offset_end_ THEN offset_end_ - curr ELSE size

Read(curr, fp, size) ==
    LET most == Most(curr, size)
    IN  IF offset_begin_ >= offset_end_ \/ most = 0 THEN [buf |-> <<>>, curr |-> curr, fp |-> fp]
        ELSE ReadOn(<<>>, curr, fp, most)

\* What is after the last whole record is forgotten.
RestMutant(buf, n) == <<>>

Rest(buf, n) == SubSeq(buf, n + 1, Len(buf))

\* ReadChunk, repeated by Load with a larger buffer until a whole record fits.
RECURSIVE Load(_, _, _, _)
Load(curr, fp, over, words) ==
    LET max == words * WordSize IN
    IF max <= Len(over) THEN Load(curr, fp, over, 2 * words + 1)
    ELSE LET r == Read(curr, fp, max - Len(over))
             buf == over \o r.buf
             whole == IF Text /\ r.buf = <<>> THEN Append(buf, EOL) ELSE buf
             n == IF ~Text /\ Len(buf) /= max THEN Len(buf) ELSE FindLastRecordBegin(whole)
         IN  IF buf = <<>> THEN [ok |-> FALSE, chunk |-> <<>>, over |-> <<>>, curr |-> r.curr, fp |-> r.fp]
             ELSE IF n = 0 THEN Load(r.curr, r.fp, whole, 2 * words + 1)
             ELSE [ok |-> TRUE, chunk |-> SubSeq(whole, 1, n), over |-> Rest(whole, n),
                   curr |-> r.curr, fp |-> r.fp]

-----------------------------------------------------------------------------
(* ResetPartition, BeforeFirst, NextRecord, NextChunk *)

Smaller(a, b) == IF a < b THEN a ELSE b
nstep(n) == (total + n - 1) \div n

\* An offset inside a file moves on to the next beginning of a record.
Adjusted(offset) ==
    LET fp == FileOf(offset) IN
    IF offset = file_offset_(fp - 1) THEN offset
    ELSE offset + SeekRecordBegin(files_[fp], offset - file_offset_(fp - 1))
Bound(r, n) == Adjusted(Smaller(nstep(n) * r, total))

\* BeforeFirst does nothing when the partition is empty.
Rewind(begin, end) ==
    IF begin >= end THEN UNCHANGED <<file_ptr_, tmp_chunk_, overflow_>>
    ELSE file_ptr_' = FileOf(begin) /\ tmp_chunk_' = <<>> /\ overflow_' = <<>>

ResetPartition(r, n) ==
    LET first == Smaller(nstep(n) * r, total)
        last == Smaller(nstep(n) * (r + 1), total)
        begin == IF first = last THEN first ELSE Adjusted(first)
        end == IF first = last THEN last ELSE Adjusted(last)
    IN  /\ r < n
        /\ ReuseForEmpty \/ begin < end \/ nsplit = 0
        /\ rank' = r /\ nsplit' = n
        /\ offset_begin_' = begin /\ offset_end_' = end
        /\ offset_curr_' = IF begin < end THEN begin ELSE first
        /\ Rewind(begin, end)
        /\ out' = <<>> /\ ended' = FALSE
        /\ UNCHANGED <<input, files_, buffer_size_>>

BeforeFirst ==
    /\ nsplit > 0
    /\ Rewind(offset_begin_, offset_end_)
    /\ offset_curr_' = IF offset_begin_ >= offset_end_ THEN offset_curr_ ELSE offset_begin_
    /\ out' = <<>> /\ ended' = FALSE
    /\ UNCHANGED <<input, files_, rank, nsplit, offset_begin_, offset_end_, buffer_size_>>

Filled == IF tmp_chunk_ /= <<>>
          THEN [ok |-> TRUE, chunk |-> tmp_chunk_, over |-> overflow_, curr |-> offset_curr_, fp |-> file_ptr_]
          ELSE Load(offset_curr_, file_ptr_, overflow_, buffer_size_)

\* A record as its reader sees it; a line of nothing but ends of line is not counted.
Content(rec) == IF Text THEN SelectSeq(rec, LAMBDA u : ~IsEol(u)) ELSE rec
Give(o, rec) == IF Text /\ Content(rec) = <<>> THEN o ELSE Append(o, Content(rec))

RECURSIVE GiveAll(_, _)
GiveAll(o, chunk) ==
    IF chunk = <<>> THEN o
    ELSE LET e == ExtractNextRecord(chunk) IN GiveAll(Give(o, e.rec), e.rest)

Advance(l, rest, o) ==
    /\ nsplit > 0
    /\ tmp_chunk_' = rest /\ overflow_' = l.over /\ offset_curr_' = l.curr /\ file_ptr_' = l.fp
    /\ out' = o /\ ended' = ~l.ok
    /\ UNCHANGED <<input, files_, rank, nsplit, offset_begin_, offset_end_, buffer_size_>>

NextRecord ==
    LET l == Filled
        e == ExtractNextRecord(l.chunk)
    IN  IF l.ok THEN Advance(l, e.rest, Give(out, e.rec)) ELSE Advance(l, <<>>, out)

NextChunk ==
    LET l == Filled IN Advance(l, <<>>, IF l.ok THEN GiveAll(out, l.chunk) ELSE out)

HintChunkSize(words) ==
    /\ words > buffer_size_
    /\ buffer_size_' = words
    /\ UNCHANGED <<input, files_, rank, nsplit, offset_begin_, offset_end_, offset_curr_, file_ptr_,
                   tmp_chunk_, overflow_, out, ended>>

Init ==
    /\ input \in Inputs /\ files_ = InitInputFileInfo(input) /\ files_ /= <<>>
    /\ rank = 0 /\ nsplit = 0
    /\ offset_begin_ = 0 /\ offset_end_ = 0 /\ offset_curr_ = 0 /\ file_ptr_ = 1
    /\ tmp_chunk_ = <<>> /\ overflow_ = <<>> /\ buffer_size_ \in BufferSizes
    /\ out = <<>> /\ ended = FALSE

Next ==
    \/ \E n \in 1 .. MaxParts : \E r \in 0 .. n - 1 : ResetPartition(r, n)
    \/ BeforeFirst \/ NextRecord \/ NextChunk
    \/ \E words \in BufferSizes : HintChunkSize(words)

Spec == Init /\ [][Next]_vars

-----------------------------------------------------------------------------
TypeOK ==
    /\ file_ptr_ \in 1 .. Len(files_) + 1 /\ offset_curr_ \in 0 .. total
    /\ offset_begin_ < offset_end_ => offset_curr_ \in offset_begin_ .. offset_end_
    /\ ended => tmp_chunk_ = <<>>

\* The records of a file with their offsets, found without the splitter.
RecordsOf(i) ==
    LET f == files_[i]
        base == file_offset_(i - 1)
        starts == {k \in DOMAIN f : ~IsEol(f[k]) /\ (k = 1 \/ IsEol(f[k - 1]))}
        EndOf(k) == Min({j \in k .. Len(f) : j = Len(f) \/ IsEol(f[j + 1])})
        line == [j \in 1 .. Cardinality(starts) |->
                    LET k == SetToSortSeq(starts, <)[j] IN <<base + k - 1, SubSeq(f, k, EndOf(k))>>]
        recs == SelectSeq(input, LAMBDA g : g /= <<>>)[i]
        rec == [j \in DOMAIN recs |->
                    <<base + Len(FlattenSeq([k \in 1 .. j - 1 |-> EncodeRecord(recs[k])])), recs[j]>>]
    IN  IF Text THEN line ELSE rec

AllRecords == FlattenSeq([i \in DOMAIN files_ |-> RecordsOf(i)])
Expected(r, n) ==
    LET mine == SelectSeq(AllRecords, LAMBDA x : x[1] \in Bound(r, n) .. Bound(r + 1, n) - 1)
    IN  [j \in DOMAIN mine |-> mine[j][2]]

\* Whatever the sizes of chunks and buffers, and wherever the files end, a
\* partition's records come out whole, in order and once, after any sequence of
\* resets and rewinds, and when there are no more all of them have come out.
Delivered ==
    nsplit > 0 =>
        /\ IsPrefix(out, Expected(rank, nsplit))
        /\ ended => out = Expected(rank, nsplit)

\* Every record is in exactly one partition: the bound that a partition computes
\* for its end is the one the next computes for its beginning.
EachInOne ==
    nsplit > 0 =>
        FlattenSeq([k \in 1 .. nsplit |-> Expected(k - 1, nsplit)])
            = [j \in DOMAIN AllRecords |-> AllRecords[j][2]]
=============================================================================
