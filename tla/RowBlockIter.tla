---------------------------- MODULE RowBlockIter ----------------------------
(* RowBlockIter::Create (src/data.cc) and the iterators it makes: BasicRowIter,
   which holds the whole dataset, and DiskRowIter, which writes it to a cache
   file in pages and reads them back through a ThreadedIter, used here by what it
   promises.  Programs run one after the other, on the same disk, and may be
   killed at any step.  A row is the index of its largest feature. *)
EXTENDS Integers, Sequences, SequencesExt, FiniteSetsExt

CONSTANTS
    Data,               \* the blocks of the file, each a sequence of rows
    Parts,              \* pairs <<part_index, num_parts>> that programs ask for
    Formats,            \* "format" arguments of the URI, "" for none
    CacheFiles,         \* BOOLEAN values: whether the URI names a cache file
    kPageSize,          \* in rows
    MaxPrograms, MaxCalls,
    Garbage             \* what num_col_ holds before anything is assigned to it

VARIABLES
    uri, part,          \* what the program asks for
    ptype,              \* the parser that Create has made
    disk,               \* cache files: sequences of pages, the last one may be torn
    pc,                 \* "down", "open", "build", "ready"
    block,              \* blocks parsed so far
    data,               \* the container that grows
    num_col_, at, got, ret,
    programs, calls,
    killed              \* the cache files whose program was killed while it built them

program == <<uri, part, ptype, block, data, num_col_, at, got, ret, calls>>
vars == <<program, disk, pc, programs, killed>>

Missing == <<<<-1>>>>
\* A page of which a part is there: a part of its offsets, or more than that.
TornOffsets == <<-2>>
TornColumns == <<-3>>

\* The blocks that the parser of this part returns.
Blocks == SelectSeq([i \in DOMAIN Data |-> <<i, Data[i]>>], LAMBDA b : b[1] % part[2] = part[1])
Rows(n) == FlattenSeq([i \in 1 .. n |-> Blocks[i][2]])
Dataset == Rows(Len(Blocks))

\* The name without the part.
NameMutant == <<0, 1>>

\* URISpec: the cache file of one part of several has a name of its own.
cache_file == IF part[2] = 1 THEN <<0, 1>> ELSE part

Idle ==
    /\ uri = [format |-> "", cached |-> FALSE] /\ part = <<0, 1>> /\ ptype = ""
    /\ block = 0 /\ data = <<>> /\ num_col_ = Garbage /\ at = 0 /\ got = <<>> /\ ret = "none" /\ calls = 0

Init ==
    /\ Idle /\ pc = "down" /\ programs = 0 /\ killed = {}
    /\ disk = [name \in {<<0, 1>>} \cup Parts |-> Missing]

\* CreateParser_, which CreateIter_ gives the URI without its arguments.
ParserType(args) == IF args = "" THEN "libsvm" ELSE args

\* CreateIter_ of type "auto".
Create(f, cached, p) ==
    /\ pc = "down" /\ programs < MaxPrograms
    /\ uri' = [format |-> f, cached |-> cached] /\ part' = p
    /\ ptype' = ParserType("")
    /\ pc' = IF cached THEN "open" ELSE "build"
    /\ programs' = programs + 1
    /\ UNCHANGED <<disk, block, data, num_col_, at, got, ret, calls, killed>>

\* A file that is there is used.
TryLoadCache == disk[cache_file] # Missing

\* The constructor of DiskRowIter, with reuse_cache.
DiskRowIter ==
    /\ pc = "open"
    /\ IF TryLoadCache THEN pc' = "ready" /\ UNCHANGED <<disk, num_col_>>
       ELSE /\ pc' = "build" /\ disk' = [disk EXCEPT ![cache_file] = <<>>] /\ num_col_' = 0
    /\ UNCHANGED <<uri, part, ptype, block, data, at, got, ret, programs, calls, killed>>

Columns(rows) == Max({0} \cup {row + 1 : row \in ToSet(rows)})

NumCol(rows) == Max({num_col_, Columns(rows)})

Full(rows) == uri.cached /\ Len(rows) >= kPageSize

\* BuildCache and BasicRowIter::Init take one more block from the parser.  A page
\* that is full goes to the file; the program may be killed inside of it.
Push ==
    LET more == data \o Blocks[block + 1][2]
        full == Full(more)
    IN
    /\ pc = "build" /\ block < Len(Blocks)
    /\ block' = block + 1
    /\ data' = IF full THEN <<>> ELSE more
    /\ disk' = IF full THEN [disk EXCEPT ![cache_file] = Append(@, more)] ELSE disk
    /\ num_col_' = IF full THEN NumCol(more) ELSE num_col_
    /\ UNCHANGED <<uri, part, ptype, pc, at, got, ret, programs, calls, killed>>

LastPage == IF data = <<>> THEN disk[cache_file] ELSE Append(disk[cache_file], data)

\* The end of the data: the last page, or the block that is shown.
Finish ==
    /\ pc = "build" /\ block = Len(Blocks)
    /\ disk' = IF uri.cached THEN [disk EXCEPT ![cache_file] = LastPage] ELSE disk
    /\ num_col_' = IF uri.cached THEN NumCol(data) ELSE Max({1, Columns(data)})
    /\ data' = IF uri.cached THEN <<>> ELSE data
    /\ pc' = "ready"
    /\ UNCHANGED <<uri, part, ptype, block, at, got, ret, programs, calls, killed>>

\* Load: no page at the end of the file, which a page is that has not all of its
\* offsets; one that lacks anything else is a bad format.
Load(pages) ==
    IF at = Len(pages) \/ pages[at + 1] = TornOffsets THEN "false"
    ELSE IF pages[at + 1] = TornColumns THEN "abort" ELSE "true"

\* BasicRowIter has a single page, which it shows when it is at its head.
Pages == IF uri.cached THEN disk[cache_file] ELSE <<data>>

\* Next: the page at the place in the file.
Next_ ==
    /\ pc = "ready" /\ calls < MaxCalls /\ ret # "abort"
    /\ calls' = calls + 1
    /\ ret' = Load(Pages)
    /\ IF Load(Pages) = "true" THEN at' = at + 1 /\ got' = got \o Pages[at + 1]
       ELSE UNCHANGED <<at, got>>
    /\ UNCHANGED <<uri, part, ptype, disk, pc, block, data, num_col_, programs, killed>>

BeforeFirst ==
    /\ pc = "ready" /\ calls < MaxCalls /\ ret \in {"true", "false"}
    /\ at' = 0 /\ got' = <<>> /\ ret' = "none" /\ calls' = calls + 1
    /\ UNCHANGED <<uri, part, ptype, disk, pc, block, data, num_col_, programs, killed>>

\* The program ends, or is killed while it builds the cache: between two pages
\* or in the middle of one.
Exit ==
    /\ pc \in {"ready", "build", "open"}
    /\ IF pc = "build" /\ uri.cached
       THEN /\ killed' = killed \cup {cache_file}
            /\ \E page \in {<<>>, <<TornOffsets>>, <<TornColumns>>} :
                  disk' = [disk EXCEPT ![cache_file] = @ \o page]
       ELSE UNCHANGED <<killed, disk>>
    /\ uri' = [format |-> "", cached |-> FALSE] /\ part' = <<0, 1>> /\ ptype' = ""
    /\ block' = 0 /\ data' = <<>> /\ num_col_' = Garbage /\ at' = 0 /\ got' = <<>>
    /\ ret' = "none" /\ calls' = 0 /\ pc' = "down"
    /\ UNCHANGED programs

Next ==
    \/ DiskRowIter \/ Push \/ Finish \/ Next_ \/ BeforeFirst \/ Exit
    \/ \E f \in Formats, cached \in CacheFiles, p \in Parts : Create(f, cached, p)

Spec == Init /\ [][Next]_vars

-----------------------------------------------------------------------------
TypeOK ==
    /\ pc \in {"down", "open", "build", "ready"} /\ block \in 0 .. Len(Blocks)
    /\ ret \in {"none", "true", "false", "abort"} /\ at <= Len(Data) + 1
    /\ pc = "build" /\ uri.cached => Len(data) < kPageSize

\* What an epoch returns is the beginning of the program's own part of the data,
\* whatever the parts other programs have cached and wherever they were killed.
OwnData == IsPrefix(got, Dataset)

Interrupted == uri.cached /\ cache_file \in killed

\* An epoch that ends returns all of it, unless it is read from a cache file whose
\* own builder was killed: that of another part, and of another program that read
\* without a cache, takes nothing away.
WholeEpoch == (ret = "false" /\ ~Interrupted) => got = Dataset

\* A cache file whose builder was killed is not read as if it were whole:
\* TryLoadCache takes any file that is there, and this does not hold.
NoPartialCache == ret = "false" => got = Dataset

\* NumCol is the maximum feature dimension, in the program that has read the data.
NumColBuilt == (pc = "ready" /\ block > 0) => num_col_ = Columns(Dataset)

\* NumCol is the maximum feature dimension.
NumColRight == (pc = "ready" /\ Dataset # <<>> /\ ~Interrupted) => num_col_ = Columns(Dataset)

\* The format is the one that the URI asks for.
FormatUsed == (pc = "ready" /\ uri.format # "") => ptype = uri.format
=============================================================================
