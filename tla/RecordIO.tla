------------------------------ MODULE RecordIO ------------------------------
(* RecordIO (include/dmlc/recordio.h, src/recordio.cc): a writer that packs
   records into a stream of 4-byte words, cutting a record where its data hold
   the magic word, a reader of the stream, and readers of the parts of a chunk.
   The stream is a sequence of words; a record is its length in bytes and its
   words, of which the last is padded with zero bytes and so is not the magic
   word when the length is not a multiple of 4. *)
EXTENDS Integers, Sequences, SequencesExt, FiniteSets, FiniteSetsExt

CONSTANTS
    LenBits,       \* the bits of a header that hold a length: 29
    kMagic,        \* above every flag, so that an lrec is never kMagic (recordio.h:43)
    Records,       \* the records programs write
    MaxRecords,
    MaxParts,
    Crashes,       \* whether a writer may stop in the middle of a record
    Appends,       \* whether another writer then appends to the stream
    Seeks          \* whether programs seek after the end was reached

VARIABLES
    stream, except_counter_,
    written, heads,      \* the records in the stream and where each begins
    cut,                 \* whether a writer stopped in the middle of a record
    phase,               \* "write", then "read" or "chunk"; "refused" or "fatal" when a CHECK failed
    pos, end_of_stream_, ended, got, from,    \* RecordIOReader
    part_index, num_parts, pbegin_, pend_     \* RecordIOChunkReader

writer == <<stream, except_counter_, written, heads, cut>>
reader == <<pos, end_of_stream_, ended, from>>
chunk == <<part_index, num_parts, pbegin_, pend_>>
vars == <<writer, phase, reader, got, chunk>>

EncodeLRec(cflag, length) == cflag * 2 ^ LenBits + length
DecodeFlag(rec) == (rec \div 2 ^ LenBits) % 8
DecodeLength(rec) == rec % 2 ^ LenBits
InWords(bytes) == (bytes + 3) \div 4
Empty == [len |-> 0, words |-> <<>>]
Cat(a, b) == [len |-> a.len + b.len, words |-> a.words \o b.words]
Size == Len(stream)

Init ==
    /\ stream = <<>> /\ except_counter_ = 0 /\ written = <<>> /\ heads = <<>> /\ cut = FALSE
    /\ phase = "write"
    /\ pos = 0 /\ end_of_stream_ = FALSE /\ ended = FALSE /\ from = 1 /\ got = <<>>
    /\ part_index = 0 /\ num_parts = 0 /\ pbegin_ = 0 /\ pend_ = 0

-----------------------------------------------------------------------------
(* RecordIOWriter *)

Magics(rec) == {i \in 1 .. rec.len \div 4 : rec.words[i] = kMagic}

LastFlag(dptr) == IF dptr /= 0 THEN 3 ELSE 0

\* The first piece is marked as a whole record.
PieceMutant(dptr) == IF dptr = 0 THEN 0 ELSE 2

PieceFlag(dptr) == IF dptr = 0 THEN 1 ELSE 2

Encode(rec) ==
    LET at == SetToSortSeq(Magics(rec), <)
        dptr(j) == IF j = 1 THEN 0 ELSE at[j - 1]
        piece(j) == <<kMagic, EncodeLRec(PieceFlag(dptr(j)), 4 * (at[j] - 1 - dptr(j)))>>
                    \o SubSeq(rec.words, dptr(j) + 1, at[j] - 1)
        last == dptr(Len(at) + 1)
    IN  FlattenSeq([j \in DOMAIN at |-> piece(j)])
        \o <<kMagic, EncodeLRec(LastFlag(last), rec.len - 4 * last)>>
        \o SubSeq(rec.words, last + 1, Len(rec.words))

Accepts(rec) == rec.len < 2 ^ LenBits

\* A record that is too long fails a CHECK before anything is written.
WriteRecord(rec) ==
    /\ phase = "write" /\ Len(written) < MaxRecords
    /\ cut => Appends
    /\ IF Accepts(rec)
       THEN /\ stream' = stream \o Encode(rec)
            /\ except_counter_' = except_counter_ + Cardinality(Magics(rec))
            /\ written' = Append(written, rec)
            /\ heads' = Append(heads, Size)
            /\ UNCHANGED phase
       ELSE phase' = "refused" /\ UNCHANGED <<stream, except_counter_, written, heads>>
    /\ UNCHANGED <<cut, reader, got, chunk>>

\* The process stops between two writes of a record, or the system inside one.
Crash(rec, n) ==
    /\ phase = "write" /\ Crashes /\ ~cut /\ Accepts(rec)
    /\ n \in 1 .. Len(Encode(rec)) - 1
    /\ stream' = stream \o SubSeq(Encode(rec), 1, n)
    /\ cut' = TRUE
    /\ UNCHANGED <<except_counter_, written, heads, phase, reader, got, chunk>>

-----------------------------------------------------------------------------
(* RecordIOReader *)

RecordIOReader ==
    /\ phase = "write" /\ phase' = "read"
    /\ UNCHANGED <<writer, reader, got, chunk>>

RECURSIVE Pieces(_, _)
\* The loop of NextRecord from a position, with what it has read so far.
Pieces(p, rec) ==
    IF p = Size THEN [res |-> "end", pos |-> p, rec |-> rec]
    ELSE IF p + 2 > Size \/ stream[p + 1] /= kMagic THEN [res |-> "invalid", pos |-> p, rec |-> rec]
    ELSE LET cflag == DecodeFlag(stream[p + 2])
             len == DecodeLength(stream[p + 2])
             next == p + 2 + InWords(len)
             read == Cat(rec, [len |-> len, words |-> SubSeq(stream, p + 3, next)])
         IN  IF next > Size THEN [res |-> "invalid", pos |-> p, rec |-> rec]
             ELSE IF cflag \in {0, 3} THEN [res |-> "record", pos |-> next, rec |-> read]
             ELSE Pieces(next, Cat(read, [len |-> 4, words |-> <<kMagic>>]))

Complete(r) == r.res = "record"

NextRecord ==
    /\ phase = "read" /\ ~ended
    /\ LET r == Pieces(pos, Empty)
       IN  IF end_of_stream_ THEN ended' = TRUE /\ UNCHANGED <<pos, end_of_stream_, phase, got>>
           ELSE IF r.res /= "invalid"
           THEN /\ got' = IF Complete(r) THEN Append(got, r.rec) ELSE got
                /\ pos' = r.pos
                /\ ended' = ~Complete(r) /\ end_of_stream_' = ended'
                /\ UNCHANGED phase
           ELSE phase' = "fatal" /\ UNCHANGED <<got, pos, ended, end_of_stream_>>
    /\ UNCHANGED <<writer, from, chunk>>

\* To where Tell of the writer was before a record.
Seek(i) ==
    /\ phase = "read" /\ (end_of_stream_ => Seeks)
    /\ pos' = heads[i] /\ from' = i /\ got' = <<>> /\ ended' = FALSE
    /\ UNCHANGED <<writer, phase, end_of_stream_, chunk>>

-----------------------------------------------------------------------------
(* RecordIOChunkReader: the parts of a chunk, which holds whole records, read
   one after the other; the readers share nothing but the chunk. *)

IsHead(p) == stream[p + 1] = kMagic /\ DecodeFlag(stream[p + 2]) \in {0, 1}

FindNextRecordIOHead(begin) ==
    LET found == {p \in begin .. Size - 2 : IsHead(p)}
    IN  IF found = {} THEN Size ELSE Min(found)

\* In words: the bytes of a part, rounded up to whole words.
nstep(n) == InWords((4 * Size + n - 1) \div n)

Bound(n, i) == Min({Size, nstep(n) * i})

Part(n, i) ==
    /\ num_parts' = n /\ part_index' = i
    /\ pbegin_' = FindNextRecordIOHead(Bound(n, i))
    /\ pend_' = FindNextRecordIOHead(Bound(n, i + 1))

RecordIOChunkReader(n) ==
    /\ phase = "write" /\ ~cut /\ phase' = "chunk"
    /\ Part(n, 0)
    /\ UNCHANGED <<writer, reader, got>>

RECURSIVE Joined(_, _)
\* The loop over the pieces of a record, which ends at its last piece.
Joined(p, temp_) ==
    IF p + 2 > pend_ \/ stream[p + 1] /= kMagic THEN [res |-> "invalid", pos |-> p, rec |-> temp_]
    ELSE LET clen == DecodeLength(stream[p + 2])
             next == p + 2 + InWords(clen)
             read == Cat(temp_, [len |-> clen, words |-> SubSeq(stream, p + 3, next)])
         IN  IF DecodeFlag(stream[p + 2]) = 3 THEN [res |-> "record", pos |-> next, rec |-> read]
             ELSE Joined(next, Cat(read, [len |-> 4, words |-> <<kMagic>>]))

Whole(p) ==
    LET clen == DecodeLength(stream[p + 2])
        next == p + 2 + InWords(clen)
    IN  [res |-> IF next <= pend_ THEN "record" ELSE "invalid", pos |-> next,
         rec |-> [len |-> clen, words |-> SubSeq(stream, p + 3, next)]]

ChunkNextRecord ==
    /\ phase = "chunk" /\ pbegin_ < pend_
    /\ LET cflag == DecodeFlag(stream[pbegin_ + 2])
           r == IF cflag = 0 THEN Whole(pbegin_) ELSE Joined(pbegin_, Empty)
       IN  IF stream[pbegin_ + 1] = kMagic /\ cflag \in {0, 1} /\ r.res = "record"
           THEN got' = Append(got, r.rec) /\ pbegin_' = r.pos /\ UNCHANGED phase
           ELSE phase' = "fatal" /\ UNCHANGED <<got, pbegin_>>
    /\ UNCHANGED <<writer, reader, part_index, num_parts, pend_>>

\* The reader of a part says there is no more, and the next part is read.
NextPart ==
    /\ phase = "chunk" /\ pbegin_ >= pend_ /\ part_index + 1 < num_parts
    /\ Part(num_parts, part_index + 1)
    /\ UNCHANGED <<writer, phase, reader, got>>

Next ==
    \/ \E rec \in Records : WriteRecord(rec)
    \/ \E rec \in Records : \E n \in 1 .. Len(Encode(rec)) : Crash(rec, n)
    \/ RecordIOReader
    \/ NextRecord
    \/ \E i \in DOMAIN heads : Seek(i)
    \/ \E n \in 1 .. MaxParts : RecordIOChunkReader(n)
    \/ ChunkNextRecord
    \/ NextPart

Spec == Init /\ [][Next]_vars

-----------------------------------------------------------------------------
(* Properties *)

\* The stream holds the records written so far from heads that lie in it, and
\* the readers stay in it.
TypeOK ==
    /\ except_counter_ \in Nat /\ cut \in BOOLEAN /\ ended \in BOOLEAN /\ end_of_stream_ \in BOOLEAN
    /\ phase \in {"write", "read", "chunk", "refused", "fatal"}
    /\ Len(heads) = Len(written) /\ \A i \in DOMAIN heads : heads[i] \in 0 .. Size
    /\ pos \in 0 .. Size /\ pbegin_ \in 0 .. Size /\ pend_ \in 0 .. Size

\* NextRecord returns the records that were written, in order, from where the
\* program sought to, and the end only after the last one: also when a writer
\* stopped in the middle of a record, of which the reader gives nothing.
ReadBack ==
    phase = "read" => LET rest == SubSeq(written, from, Len(written))
                      IN  IsPrefix(got, rest) /\ (ended => got = rest)

\* A CHECK of a reader fails only on a stream a writer left in the middle of a
\* record: every stream of complete records can be read.
OnlyTorn == phase = "fatal" => cut

\* The magic word is in the stream only at the heads of pieces, one for each
\* record and one more for each time it is in the data: what makes the stream
\* splittable.
MagicsAreHeads ==
    ~cut => Cardinality({i \in 1 .. Size : stream[i] = kMagic}) = Len(written) + except_counter_

\* The parts of a chunk hold its records, each in one part, in order.
PartsCover ==
    phase = "chunk" =>
        /\ IsPrefix(got, written)
        /\ part_index + 1 = num_parts /\ pbegin_ >= pend_ => got = written

\* NextRecord says the end was reached only at the end of the stream.
EndAtEnd == ended => pos = Size

\* A record the reader returns is one that was written.
NothingGlued == \A i \in DOMAIN got : \E j \in DOMAIN written : got[i] = written[j]
=============================================================================
