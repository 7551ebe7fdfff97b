---------------------------- MODULE S3ReadStream ----------------------------
(* CURLReadStreamBase with the ReadStream of S3 (src/io/s3_filesys.cc): a file
   read through a connection that is opened at an offset, filled into a buffer
   and opened again when it ends before the file does.  A byte of the file is
   its position, from 1.  What curl does is external: a connection gives any
   number of bytes at a time and, if Drops, may end after any of them.  So is the
   service: it refuses a range that begins at the end of the file or after it. *)
EXTENDS Integers, Sequences, SequencesExt

CONSTANTS
    FileSize,     \* expect_file_size_
    Sizes,        \* sizes that are read
    MaxRetry,     \* the 50 of the retry loop
    Drops,        \* connections may end early
    Refusals      \* a request may be answered by an error, or not at all

VARIABLES
    curr_bytes_, buffer_, read_ptr_, at_end_,
    mcurl_,               \* "none", or the connection: its offset and whether it is open
    pc, nleft, got, nretry,
    place                 \* where the program is in the file

stream == <<curr_bytes_, buffer_, read_ptr_, at_end_, mcurl_>>
vars == <<stream, pc, nleft, got, nretry, place>>

None == [pos |-> -1, open |-> FALSE]
From(pos, n) == [i \in 1 .. n |-> pos + i]
Smaller(a, b) == IF a < b THEN a ELSE b

\* FillBuffer: every outcome of waiting for want bytes.  It returns 0 when it
\* does not have to wait and when the connection has ended.
FillBuffer(buf, c, want) ==
    IF Len(buf) >= want THEN {[buf |-> buf, c |-> c, nrun |-> 0]}
    ELSE IF ~c.open THEN {[buf |-> buf, c |-> c, nrun |-> 0]}
    ELSE {[buf |-> buf \o From(c.pos, n), c |-> [pos |-> c.pos + n, open |-> o], nrun |-> IF o THEN 1 ELSE 0] :
             <<n, o>> \in {<<m, p>> \in (0 .. FileSize - c.pos) \X BOOLEAN :
                              /\ Len(buf) + m < want => ~p
                              /\ ~p => Drops \/ c.pos + m = FileSize}}

\* Every connection gives the file from its beginning.
RangeMutant(offset) == FillBuffer(<<>>, [pos |-> 0, open |-> TRUE], 1)

Connections(offset) == FillBuffer(<<>>, [pos |-> offset, open |-> TRUE], 1)

Abort == pc' = "abort" /\ UNCHANGED <<stream, nleft, got, nretry, place>>

\* Lazy: the connection is given up, the next one is opened by Read.
Seek(pos) ==
    /\ pc = "idle"
    /\ IF curr_bytes_ = pos THEN UNCHANGED stream
       ELSE mcurl_' = None /\ buffer_' = <<>> /\ at_end_' = FALSE /\ curr_bytes_' = pos /\ UNCHANGED read_ptr_
    /\ place' = pos /\ got' = <<>> /\ nleft' = 0
    /\ UNCHANGED <<pc, nretry>>

\* Init: the request from an offset, up to its first byte.
Opened(offset) ==
    /\ offset < FileSize
    /\ \E f \in Connections(offset) :
        /\ mcurl_' = f.c /\ buffer_' = f.buf
        /\ at_end_' = FALSE /\ curr_bytes_' = offset /\ read_ptr_' = 0

Read(size) ==
    /\ pc = "idle"
    /\ \/ /\ mcurl_ = None
          /\ Opened(curr_bytes_)
          /\ pc' = "loop"
       \/ /\ mcurl_ /= None
          /\ pc' = IF at_end_ THEN "idle" ELSE "loop"
          /\ UNCHANGED stream
    /\ nleft' = size /\ got' = <<>> /\ nretry' = 0 /\ UNCHANGED place

\* A request that fails is fatal.
Refused ==
    /\ Refusals \/ curr_bytes_ >= FileSize
    /\ (pc = "idle" /\ mcurl_ = None) \/ pc = "retry"
    /\ Abort

\* The file has an end and the connection ended before it.
Continue(curr) == IF curr /= FileSize THEN "retry" ELSE "return"

Done(f) == f.nrun = 0 /\ f.buf = <<>>

\* One round of the loop of Read.
Loop ==
    /\ pc = "loop"
    /\ \E f \in IF read_ptr_ = Len(buffer_) THEN FillBuffer(<<>>, mcurl_, nleft)
                ELSE {[buf |-> buffer_, c |-> mcurl_, nrun |-> 1]} :
          LET ptr == IF read_ptr_ = Len(buffer_) THEN 0 ELSE read_ptr_
              done == Done(f)
              nread == IF done THEN 0 ELSE Smaller(nleft, Len(f.buf) - ptr)
              curr == curr_bytes_ + Len(got) + nread
          IN  /\ mcurl_' = f.c /\ buffer_' = f.buf /\ read_ptr_' = ptr + nread
              /\ got' = got \o SubSeq(f.buf, ptr + 1, ptr + nread) /\ nleft' = nleft - nread
              /\ at_end_' = done
              /\ IF done \/ nleft = nread
                 THEN curr_bytes_' = curr /\ pc' = IF done THEN Continue(curr) ELSE "return"
                 ELSE UNCHANGED <<curr_bytes_, pc>>
    /\ UNCHANGED <<nretry, place>>

\* Tries are not counted.
CountMutant(n) == n

Counted(n) == n + 1

GiveUp(n) == IF n < MaxRetry THEN "retry" ELSE "abort"

\* One round of the retry loop; it goes on while FillBuffer returns 0.
Retry ==
    /\ pc = "retry"
    /\ \E f \in Connections(curr_bytes_) : \E g \in FillBuffer(f.buf, f.c, nleft) :
          /\ mcurl_' = g.c /\ buffer_' = g.buf /\ at_end_' = FALSE /\ read_ptr_' = 0
          /\ IF g.nrun /= 0 THEN pc' = "return" /\ UNCHANGED nretry
             ELSE nretry' = Counted(nretry) /\ pc' = GiveUp(nretry + 1)
    /\ UNCHANGED <<curr_bytes_, nleft, got, place>>

Return ==
    /\ pc = "return"
    /\ pc' = "idle" /\ place' = place + Len(got)
    /\ UNCHANGED <<stream, nleft, got, nretry>>

Init ==
    /\ curr_bytes_ = 0 /\ buffer_ = <<>> /\ read_ptr_ = 0 /\ at_end_ = FALSE /\ mcurl_ = None
    /\ pc = "idle" /\ nleft = 0 /\ got = <<>> /\ nretry = 0 /\ place = 0

Next ==
    \/ \E pos \in 0 .. FileSize + 1 : Seek(pos)
    \/ \E size \in Sizes : Read(size)
    \/ Refused \/ Loop \/ Retry \/ Return

Fairness == WF_vars(Loop) /\ WF_vars(Retry) /\ WF_vars(Return)

Spec == Init /\ [][Next]_vars /\ Fairness

-----------------------------------------------------------------------------
TypeOK ==
    /\ curr_bytes_ \in 0 .. FileSize + 1 /\ read_ptr_ \in Nat /\ nretry \in 0 .. MaxRetry
    /\ pc \in {"idle", "loop", "retry", "return", "abort"} /\ place \in 0 .. FileSize + 1

\* Through seeks, buffers and connections that end, the bytes that Read gives
\* are the file's next ones and Tell says where the program is.
InPlace ==
    /\ pc = "idle" => curr_bytes_ = place /\ got = From(place - Len(got), Len(got))
    /\ pc \in {"loop", "retry", "return"} => got = From(place, Len(got))

\* A Read of something that gives nothing is at the end of the file.
ZeroMeansEnd == (pc = "idle" /\ nleft > 0 /\ got = <<>>) => place = FileSize

\* The retries are given up only if the last connection did not bring the rest
\* of the file.
AbortsOnFailure == pc = "abort" => mcurl_.pos < FileSize
=============================================================================
