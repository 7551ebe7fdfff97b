---------------------------- MODULE S3WriteStream ----------------------------
(* WriteStream of S3 (src/io/s3_filesys.cc): what is written goes into a buffer,
   full buffers become the parts of a multipart upload, and Close commits it.
   Every request is repeated when curl reports an error, which says nothing of
   whether the service has carried it out, and throws when there were too many
   errors or the service refuses it.  A program that a Write threw at may go on,
   and the stream is closed in the end, if only by its destructor.  The service is
   external: an upload has parts by number, and completing it makes the object and
   ends it. *)
EXTENDS Integers, Sequences, SequencesExt

CONSTANTS
    MaxBytes,             \* how much the program writes
    WriteSizes,
    max_buffer_size_,
    max_error_retry_

VARIABLES
    written,              \* the bytes written, each its own number
    buffer_, etags_, upload_id_, closed_,
    pc,                   \* "idle", the request under way, "done" or "abort"
    thrown,               \* whether a Write threw
    num_retry, replies,   \* of the request: attempts that failed, replies seen so far
    uploads, object       \* the service: parts of each upload, the object or None

client == <<written, buffer_, etags_, upload_id_, closed_>>
vars == <<client, pc, thrown, num_retry, replies, uploads, object>>

None == <<-1>>
Ended == <<None>>
Is(tag, value) == [tag |-> tag, value |-> value]

\* The data that is left to send after earlier attempts.
DataMutant(attempt) == IF attempt = 0 THEN buffer_ ELSE <<>>

\* Each attempt sends all the data again.
Data(attempt) == buffer_

PartNumber == Len(etags_) + 1

\* What the service does with the request of the state, and what it replies.
Carried ==
    IF pc = "init" THEN {[u |-> Append(uploads, <<>>), o |-> object, reply |-> Is("id", Len(uploads) + 1)]}
    ELSE IF pc = "upload"
    THEN LET parts == uploads[upload_id_]
             part == Data(num_retry)
             stored == IF PartNumber <= Len(parts) THEN [parts EXCEPT ![PartNumber] = part]
                       ELSE Append(parts, part)
         IN  {[u |-> [uploads EXCEPT ![upload_id_] = stored], o |-> object, reply |-> Is("etag", part)]}
    ELSE IF uploads[upload_id_] = Ended \/ uploads[upload_id_] /= etags_
    THEN {[u |-> uploads, o |-> object, reply |-> Is("Error", None)]}
    ELSE {[u |-> [uploads EXCEPT ![upload_id_] = Ended], o |-> FlattenSeq(etags_), reply |-> Is("OK", None)]}

\* The service refuses any request, or carries it out.
Answers == Carried \cup {[u |-> uploads, o |-> object, reply |-> Is("Error", None)]}

Write(n) ==
    LET more == [i \in 1 .. n |-> Len(written) + i] IN
    /\ pc = "idle" /\ ~closed_ /\ Len(written) + n <= MaxBytes
    /\ written' = written \o more /\ buffer_' = buffer_ \o more
    /\ pc' = IF Len(buffer_) + n >= max_buffer_size_ THEN "upload" ELSE "idle"
    /\ UNCHANGED <<etags_, upload_id_, closed_, thrown, num_retry, replies, uploads, object>>

\* Close, also from the destructor and also after a Write threw: the last part is
\* sent even if it is empty.
Close ==
    /\ pc = "idle" /\ ~closed_
    /\ closed_' = TRUE /\ pc' = "upload"
    /\ UNCHANGED <<written, buffer_, etags_, upload_id_, thrown, num_retry, replies, uploads, object>>

\* The count starts again instead of ending the attempts.
AttemptMutant ==
    /\ pc \in {"init", "upload", "finish"}
    /\ num_retry' = (num_retry + 1) % max_error_retry_
    /\ UNCHANGED <<client, pc, thrown, replies, uploads, object>>

\* An exception out of Run. Out of the constructor there is no stream; one that is
\* closed stays so, and its destructor does nothing more; after a Write the data is
\* still in the buffer.
Throw ==
    /\ pc' = IF pc = "upload" /\ ~closed_ THEN "idle" ELSE "abort"
    /\ thrown' = TRUE /\ num_retry' = 0 /\ replies' = <<>>

\* Run, an attempt that curl reports as failed: with or without the service's
\* doing, and with or without a reply that stays in rheader and rdata.
Attempt ==
    /\ pc \in {"init", "upload", "finish"}
    /\ \E c \in Answers \cup {[u |-> uploads, o |-> object, reply |-> Is("none", None)]} :
          /\ uploads' = c.u /\ object' = c.o
          /\ IF num_retry + 1 >= max_error_retry_ THEN Throw
             ELSE /\ num_retry' = num_retry + 1 /\ UNCHANGED <<pc, thrown>>
                  /\ replies' \in {replies}
                         \cup (IF c.reply.tag = "none" THEN {} ELSE {Append(replies, c.reply)})
    /\ UNCHANGED client

\* strstr and XMLIter find the first reply of all the attempts.
Reply(seen) == Head(seen).value

Refused(seen) == \E i \in DOMAIN seen : seen[i].tag = "Error"

Clear == buffer_' = <<>>

AfterUpload == IF closed_ THEN "finish" ELSE "idle"

\* Run returns, and Init, Upload or Finish with it; an error among the replies throws.
Done ==
    /\ pc \in {"init", "upload", "finish"}
    /\ \E c \in Answers :
          LET seen == Append(replies, c.reply) IN
          /\ uploads' = c.u /\ object' = c.o
          /\ IF Refused(seen) THEN Throw /\ UNCHANGED <<buffer_, etags_, upload_id_>>
             ELSE /\ CASE pc = "init" ->
                            /\ upload_id_' = Reply(seen) /\ pc' = "idle" /\ UNCHANGED <<buffer_, etags_>>
                       [] pc = "upload" ->
                            /\ etags_' = Append(etags_, Reply(seen)) /\ Clear
                            /\ pc' = AfterUpload /\ UNCHANGED upload_id_
                       [] pc = "finish" -> pc' = "done" /\ UNCHANGED <<buffer_, etags_, upload_id_>>
                  /\ num_retry' = 0 /\ replies' = <<>> /\ UNCHANGED thrown
    /\ UNCHANGED <<written, closed_>>

Init ==
    /\ written = <<>> /\ buffer_ = <<>> /\ etags_ = <<>> /\ upload_id_ = 0 /\ closed_ = FALSE
    /\ pc = "init" /\ thrown = FALSE /\ num_retry = 0 /\ replies = <<>> /\ uploads = <<>> /\ object = None

Next == Attempt \/ Done \/ Close \/ \E n \in WriteSizes : Write(n)

Fairness == WF_vars(Attempt \/ Done)

Spec == Init /\ [][Next]_vars /\ Fairness

-----------------------------------------------------------------------------
TypeOK ==
    /\ Len(buffer_) <= MaxBytes /\ num_retry \in 0 .. max_error_retry_
    /\ upload_id_ \in 0 .. Len(uploads) /\ closed_ \in BOOLEAN
    /\ (pc = "idle" /\ ~closed_ /\ ~thrown) => Len(buffer_) < max_buffer_size_

\* Nobody ever sees an object that is not all that was written, in order and
\* once, whatever requests were lost, repeated, refused or carried out twice, and
\* also when the stream is closed after a Write threw.
ObjectWhole == object /= None => closed_ /\ object = written

\* A stream that was closed without an error has made the object.
ClosedIsThere == pc = "done" => object /= None
=============================================================================
