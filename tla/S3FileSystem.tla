---------------------------- MODULE S3FileSystem ----------------------------
(* Listing in S3FileSystem (src/io/s3_filesys.cc).  A key is a sequence of
   characters, "/" among them as the number Slash; the service lists the keys
   with a prefix page by page, and those that go on after a further "/" only as
   a common prefix.  The listing of a directory, the search for a path and the
   pages are compared with what the bucket's keys say. *)
EXTENDS Integers, Sequences, SequencesExt, FiniteSets, FiniteSetsExt

CONSTANTS
    Buckets,      \* sets of keys
    Paths,        \* names looked up, each beginning with Slash or empty
    PageSizes     \* how many entries the service gives at a time

Slash == 1

VARIABLES bucket, page, path, next_token, out_list, has_next_page, pc
vars == <<bucket, page, path, next_token, out_list, has_next_page, pc>>

-----------------------------------------------------------------------------
(* The service, external *)

RECURSIVE Before(_, _)
Before(a, b) ==
    IF b = <<>> THEN FALSE ELSE IF a = <<>> THEN TRUE
    ELSE IF Head(a) /= Head(b) THEN Head(a) < Head(b) ELSE Before(Tail(a), Tail(b))

\* The entries under a prefix: keys, and prefixes up to the next "/".
Entries(prefix) ==
    {LET rest == SubSeq(k, Len(prefix) + 1, Len(k))
         cuts == {i \in DOMAIN rest : rest[i] = Slash}
     IN  IF cuts = {} THEN k ELSE prefix \o SubSeq(rest, 1, Min(cuts)) : k \in {b \in bucket : IsPrefix(prefix, b)}}

\* Whether an entry is a common prefix: it goes on up to a further "/".
Common(prefix, e) == Len(e) > Len(prefix) /\ Last(e) = Slash

ServicePage(prefix, marker) ==
    LET after == SetToSortSeq({e \in Entries(prefix) : marker = <<>> \/ Before(marker, e)}, Before)
        given == SubSeq(after, 1, IF Len(after) < page THEN Len(after) ELSE page)
    IN  [entries |-> given, IsTruncated |-> Len(after) > page]

-----------------------------------------------------------------------------
(* S3FileSystem *)

RECURSIVE RemoveBeginSlash(_)
RemoveBeginSlash(name) ==
    IF name /= <<>> /\ Head(name) = Slash THEN RemoveBeginSlash(Tail(name)) ELSE name

\* The Contents of a page are files, also a key that ends with "/" and is the prefix
\* itself; its CommonPrefixes are directories.
Info(prefix, e) ==
    [name |-> <<Slash>> \o e, type |-> IF Common(prefix, e) THEN "kDirectory" ELSE "kFile"]
FilesFirst(prefix, entries) ==
    LET infos == [i \in DOMAIN entries |-> Info(prefix, entries[i])]
    IN  SelectSeq(infos, LAMBDA f : f.type = "kFile") \o SelectSeq(infos, LAMBDA f : f.type = "kDirectory")

\* Each page replaces the one before.
CollectMutant(list, more) == more

Collect(list, more) == list \o more

NextToken(p) == IF p.IsTruncated THEN Last(p.entries) ELSE next_token

\* One round of ListObjects.
ListObjects ==
    LET prefix == RemoveBeginSlash(path)
        p == ServicePage(prefix, next_token)
    IN
    /\ pc = "list"
    /\ out_list' = Collect(out_list, FilesFirst(prefix, p.entries))
    /\ has_next_page' = p.IsTruncated
    /\ next_token' = NextToken(p)
    /\ pc' = IF p.IsTruncated THEN "list" ELSE "listed"
    /\ UNCHANGED <<bucket, page, path>>

Named(name) == {i \in DOMAIN out_list : out_list[i].name = name}

\* TryGetPathInfo, ListDirectory: the path itself, as a file or as a directory.
Match == Named(path) \cup Named(Append(path, Slash))

Again(info) == info.name

\* What is asserted of the entry found.
Fits(info) == info.type = IF info.name = path THEN "kFile" ELSE "kDirectory"

\* ListDirectory lists again, with the "/", a path that is a directory. Of the empty
\* name, whose last character is read all the same, the list is that of the
\* bucket whatever that character is.
ListDirectory ==
    /\ pc = "listed"
    /\ IF path = <<>> \/ Last(path) = Slash THEN pc' = "done" /\ UNCHANGED <<path, next_token, out_list>>
       ELSE IF Match = {} THEN pc' = "done" /\ out_list' = <<>> /\ UNCHANGED <<path, next_token>>
       ELSE LET info == out_list[Min(Match)] IN
            IF ~Fits(info) THEN pc' = "abort" /\ UNCHANGED <<path, next_token, out_list>>
            ELSE IF info.type = "kFile" THEN pc' = "done" /\ out_list' = <<info>> /\ UNCHANGED <<path, next_token>>
            ELSE pc' = "list" /\ path' = Again(info) /\ out_list' = <<>> /\ next_token' = <<>>
    /\ UNCHANGED <<bucket, page, has_next_page>>

Init ==
    /\ bucket \in Buckets /\ page \in PageSizes /\ path \in Paths
    /\ next_token = <<>> /\ out_list = <<>> /\ has_next_page = FALSE /\ pc = "list"

Next == ListObjects \/ ListDirectory

Spec == Init /\ [][Next]_vars /\ WF_vars(Next)

-----------------------------------------------------------------------------
TypeOK ==
    /\ bucket \in Buckets /\ page \in PageSizes /\ (path = <<>> \/ Head(path) = Slash)
    /\ pc \in {"list", "listed", "done", "abort"} /\ Len(out_list) <= Cardinality(bucket)

\* The keys right under a directory, its own key included if it has one, and the
\* directories right under it.
Children(dir) ==
    LET under(k) == SubSeq(k, Len(dir) + 1, Len(k))
        keys == {k \in bucket : IsPrefix(dir, k)}
        file(k) == [name |-> <<Slash>> \o k, type |-> "kFile"]
        directory(k) == [name |-> <<Slash>> \o dir \o SubSeq(under(k), 1, Min({i \in DOMAIN under(k) : under(k)[i] = Slash})),
                         type |-> "kDirectory"]
        flat == {k \in keys : Slash \notin ToSet(under(k))}
    IN  {file(k) : k \in flat} \cup {directory(k) : k \in keys \ flat}

\* The list of a directory has its files and its directories and nothing else,
\* each once and each as what it is, however many pages it came in.
ListsAll ==
    pc = "done" /\ (path = <<>> \/ Last(path) = Slash) =>
        LET dir == IF path = <<>> THEN <<>> ELSE Tail(path) IN
        ToSet(out_list) = Children(dir) /\ Cardinality(Children(dir)) = Len(out_list)

\* A path is found exactly if it is a file or has files below it; a name that
\* only begins with it is not taken for it, and what is asserted of the entry
\* found holds.
FoundIfThere ==
    /\ pc = "listed" /\ path /= <<>> /\ Last(path) /= Slash =>
          (Match /= {} <=> \E k \in bucket : k = Tail(path) \/ IsPrefix(Append(Tail(path), Slash), k))
    /\ pc /= "abort"
=============================================================================
