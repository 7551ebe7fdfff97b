------------------------------- MODULE MCData --------------------------------
(* Instances of what turns text and columns into row blocks (RowBlock,
   LibSVMParser in its two formats, CSVParser, ParquetParser) and of what keeps
   them (RowBlockIter) for TLC.  Each behaviour is about one of them, on. *)
EXTENDS Integers, Sequences

CONSTANTS Components

VARIABLES
    on,   \* the component that this behaviour is about
    c, pushed, later, thrown,
    svm_lines, svm_text, svm_data, svm_pc, failed, svm_result,
    csv_lines, csv_text, out, csv_result,
    groups, row_groups_read_, have_next_, data_, data_ptr_, data_end_, task, parquet_pc,
    parquet_ret, parquet_got, epochs,
    uri, part, ptype, disk, iter_pc, block, iter_data, num_col_, at, iter_got, iter_ret,
    programs, calls, killed

BlockVars == <<c, pushed, later, thrown>>
SvmVars == <<svm_lines, svm_text, svm_data, svm_pc, failed, svm_result>>
CsvVars == <<csv_lines, csv_text, out, csv_result>>
ParquetVars == <<groups, row_groups_read_, have_next_, data_, data_ptr_, data_end_, task,
    parquet_pc, parquet_ret, parquet_got, epochs>>
RowsVars == <<uri, part, ptype, disk, iter_pc, block, iter_data, num_col_, at, iter_got,
    iter_ret, programs, calls, killed>>
vars == <<on, BlockVars, SvmVars, CsvVars, ParquetVars, RowsVars>>

\* Rows with and without features, some with an id or a field that is too large.
F(l, w, q, field, ids) ==
    [label |-> l, weight |-> w, qid |-> q,
     feats |-> [i \in DOMAIN ids |-> [field |-> field, index |-> ids[i], value |-> 4 + ids[i]]]]
R(l, w, q, ids) == F(l, w, q, 1, ids)
AllColumns == {"label", "weight", "qid", "field", "value"}
SomeRows == {R(0, 2, 5, <<>>), R(1, 3, 6, <<2>>), R(1, 1, 0, <<0, 9>>), R(0, 1, 0, <<3, 1>>),
             F(2, 1, 0, 9, <<0, 1>>)}
SomeBatches == {<<R(0, 2, 7, <<1>>), R(1, 3, 7, <<0, 2>>)>>, <<R(2, 2, 8, <<>>)>>,
                <<R(2, 2, 8, <<1, 9, 2>>)>>, <<R(0, 3, 4, <<>>), R(1, 2, 4, <<3>>), R(2, 2, 4, <<1>>)>>,
                <<R(0, 2, 3, <<1>>), F(1, 2, 3, 9, <<2>>)>>}
SomeCuts == (0 .. 3) \X (0 .. 3)

\* Files of up to three row groups; a dataset of five blocks, in one part or two.
SomeFiles == UNION {[1 .. n -> 0 .. 2] : n \in 0 .. 3}
SomeData == <<<<3>>, <<1, 5>>, <<2>>, <<4, 0>>, <<1>>>>
SomeParts == {<<0, 1>>, <<0, 2>>, <<1, 2>>}

(* Lines, with the row that each of them says. *)
Line(txt, l, w, q, feats) ==
    [text |-> txt, rows |-> <<[label |-> l, weight |-> w, qid |-> q, feats |-> feats]>>, bad |-> FALSE]
NoRow(txt) == [text |-> txt, rows |-> <<>>, bad |-> FALSE]
Bad(txt) == [text |-> txt, rows |-> <<>>, bad |-> TRUE]
Colon == -3
Space == -4
Hash == -5
Qid == -6
Word == -7
Minus == -8

\* libsvm: values; weights and query ids; a line that cannot be parsed
Valued == {NoRow(<<>>), NoRow(<<Space>>), Line(<<2>>, 2, 1, 0, <<>>),
           Line(<<Minus, Space, 3, Colon, 4, Space, 0, Colon, Minus>>, Minus, 1, 0,
                <<<<0, 3, 4>>, <<0, 0, Minus>>>>),
           Line(<<Space, 1, Space, Space, 2, Space, Colon, Space, 5, Space, Hash, Word, 7>>, 1, 1, 0,
                <<<<0, 2, 5>>>>)}
Ranked == {NoRow(<<>>), Line(<<1, Colon, 2, Space, Qid, 3>>, 1, 2, 3, <<>>),
           Line(<<0, Colon, 4, Space, Qid, 5, Space, 6, Space, 1>>, 0, 4, 5, <<<<0, 6, 1>>, <<0, 1, 1>>>>)}
Broken == {Bad(<<1, Space, Minus, Colon, 2>>), Line(<<1, Space, 2, Colon, 2>>, 1, 1, 0, <<<<0, 2, 2>>>>)}
SomeSvm == {Valued, Ranked, Broken}
SomeCounted == {{Line(<<1, Space, 1, Colon, 4>>, 1, 1, 0, <<<<0, 1, 4>>>>),
                 Line(<<0, Space, 0, Colon, 4, Space, 2, Colon, 5>>, 0, 1, 0, <<<<0, 0, 4>>, <<0, 2, 5>>>>),
                 Line(<<3>>, 3, 1, 0, <<>>)}}
SomeFm == {{NoRow(<<Space>>), Line(<<2>>, 2, 1, 0, <<>>),
            Line(<<1, Space, 2, Colon, 1, Colon, 4, Space, 1, Colon, 3, Colon, 5>>, 1, 1, 0,
                 <<<<2, 1, 4>>, <<1, 3, 5>>>>)},
           {Line(<<1, Colon, 2, Space, 2, Colon, 1>>, 1, 2, 0, <<<<2, 1, 1>>>>),
            Bad(<<1, Colon, 2, Space, 1, Colon, Minus>>), Bad(<<1, Colon, 2, Space, Minus, Colon, 1>>)}}

CsvComma == -1
CsvSpace == -2
CsvWord == -5
\* Fields with a number, blanks before it, letters after it, empty, and letters.
SomeFields == {<<3>>, <<CsvSpace, 4>>, <<5, CsvWord>>, <<>>, <<CsvWord>>}
SomeLabels == {<<3>>, <<4>>, <<>>}

Block == INSTANCE RowBlock WITH Rows <- SomeRows, Batches <- SomeBatches,
    Columns <- {AllColumns}, Cuts <- SomeCuts, MaxPushes <- 3, MaxId <- 3
Svm == INSTANCE LibSVMParser WITH Styles <- SomeSvm, MaxLines <- 3, nthread_ <- 3,
    indexing_mode <- 0, LibFM <- FALSE, lines <- svm_lines, text <- svm_text, data <- svm_data,
    pc <- svm_pc, result <- svm_result
Counted == INSTANCE LibSVMParser WITH Styles <- SomeCounted, MaxLines <- 3, nthread_ <- 1,
    indexing_mode <- -1, LibFM <- FALSE, lines <- svm_lines, text <- svm_text, data <- svm_data,
    pc <- svm_pc, result <- svm_result
Fm == INSTANCE LibSVMParser WITH Styles <- SomeFm, MaxLines <- 3, nthread_ <- 2,
    indexing_mode <- 1, LibFM <- TRUE, lines <- svm_lines, text <- svm_text, data <- svm_data,
    pc <- svm_pc, result <- svm_result
Csv == INSTANCE CSVParser WITH Fields <- SomeFields, Columns <- {2}, MaxLines <- 2,
    label_column <- -1, weight_column <- -1, delimiter <- CsvComma, lines <- csv_lines,
    text <- csv_text, result <- csv_result
Labels == INSTANCE CSVParser WITH Fields <- SomeLabels, Columns <- 1 .. 3, MaxLines <- 2,
    label_column <- 0, weight_column <- 2, delimiter <- CsvComma, lines <- csv_lines,
    text <- csv_text, result <- csv_result
Parquet == INSTANCE ParquetParser WITH Files <- SomeFiles, nthread_ <- 2, Failing <- FALSE,
    MaxEpochs <- 2, num_cols_ <- 2, pc <- parquet_pc, ret <- parquet_ret, got <- parquet_got
Rows == INSTANCE RowBlockIter WITH Data <- SomeData, Parts <- SomeParts, Formats <- {""},
    CacheFiles <- BOOLEAN, kPageSize <- 2, MaxPrograms <- 3, MaxCalls <- 6, Garbage <- 99,
    pc <- iter_pc, data <- iter_data, got <- iter_got, ret <- iter_ret

\* The tokens above are those of the parsers.
ASSUME TokensAssumption ==
    /\ <<Colon, Space, Hash, Qid, Word, Minus>>
           = <<Svm!Colon, Svm!Space, Svm!Hash, Svm!Qid, Svm!Word, Svm!Minus>>
    /\ <<CsvComma, CsvSpace, CsvWord>> = <<Csv!Comma, Csv!Space, Csv!Word>>

Init ==
    /\ on \in Components
    /\ IF on = "block" THEN Block!Init ELSE c = 0 /\ pushed = 0 /\ later = 0 /\ thrown = 0
    /\ CASE on = "libsvm" -> Svm!Init
         [] on = "counted" -> Counted!Init
         [] on = "libfm" -> Fm!Init
         [] OTHER -> svm_lines = 0 /\ svm_text = 0 /\ svm_data = 0 /\ svm_pc = 0
             /\ failed = 0 /\ svm_result = 0
    /\ CASE on = "csv" -> Csv!Init
         [] on = "csv_labels" -> Labels!Init
         [] OTHER -> csv_lines = 0 /\ csv_text = 0 /\ out = 0 /\ csv_result = 0
    /\ IF on = "parquet" THEN Parquet!Init ELSE groups = 0 /\ row_groups_read_ = 0
          /\ have_next_ = 0 /\ data_ = 0 /\ data_ptr_ = 0 /\ data_end_ = 0
          /\ task = 0 /\ parquet_pc = 0 /\ parquet_ret = 0 /\ parquet_got = 0
          /\ epochs = 0
    /\ IF on = "row_iter" THEN Rows!Init ELSE uri = 0 /\ part = 0 /\ ptype = 0 /\ disk = 0
          /\ iter_pc = 0 /\ block = 0 /\ iter_data = 0 /\ num_col_ = 0 /\ at = 0
          /\ iter_got = 0 /\ iter_ret = 0 /\ programs = 0 /\ calls = 0 /\ killed = 0

Next ==
    /\ UNCHANGED on
    /\ IF on = "block" THEN Block!Next ELSE UNCHANGED BlockVars
    /\ CASE on = "libsvm" -> Svm!Next
         [] on = "counted" -> Counted!Next
         [] on = "libfm" -> Fm!Next
         [] OTHER -> UNCHANGED SvmVars
    /\ CASE on = "csv" -> Csv!Next
         [] on = "csv_labels" -> Labels!Next
         [] OTHER -> UNCHANGED CsvVars
    /\ IF on = "parquet" THEN Parquet!Next ELSE UNCHANGED ParquetVars
    /\ IF on = "row_iter" THEN Rows!Next ELSE UNCHANGED RowsVars

Spec == Init /\ [][Next]_vars

-----------------------------------------------------------------------------
\* Container: the block that GetBlock returns has the rows that were pushed,
\* each with its own label, weight, query id and number of features, however they
\* came in (Push of a row, Push of any slice of a block), and with its own
\* features if it did not come in by a slice that begins at a later feature; a
\* container in which a Push has thrown is never shown, as the CHECK of GetBlock
\* sees it.
ReadBack == on = "block" => Block!TypeOK /\ Block!ReadBack /\ Block!Detected

\* FillData of the text parsers: the blocks of the threads in order have one row
\* for every line of the chunk that has one, with what the line says, wherever
\* the chunk was cut, however its lines end and whichever ids are detected to
\* count from one; a row of the CSV parser has the numbers, the label and the
\* weight of its own line.  A line that cannot be parsed makes FillData throw
\* (OMPException), whichever threads fail, and no other text does.
RowsKept ==
    /\ on = "libsvm" => Svm!TypeOK /\ Svm!RowsKept /\ Svm!ThrowsIfBad
    /\ on = "counted" => Counted!TypeOK /\ Counted!RowsKept
    /\ on = "libfm" => Fm!TypeOK /\ Fm!RowsKept /\ Fm!ThrowsIfBad
    /\ on = "csv" => Csv!TypeOK /\ Csv!RowsKept
    /\ on = "csv_labels" => Labels!TypeOK /\ Labels!RowsKept /\ Labels!Aligned

\* ParquetParser::Next shows the row groups that have rows, with all of their
\* rows, in the order of the file whatever the order in which the tasks end; the
\* first epoch shows all of them.  (What BeforeFirst owes to a second one is not
\* part of this: WholeEpochs says it, and does not hold.)
WholeFile == on = "parquet" => Parquet!TypeOK /\ Parquet!WholeFile

\* RowBlockIter: an epoch returns a beginning of the program's own part of the
\* data, whatever parts other programs have cached and wherever they were
\* killed, and all of it unless the builder of this very cache file was; NumCol
\* counts the columns of the data that the program has read itself.
OwnEpoch ==
    on = "row_iter" => Rows!TypeOK /\ Rows!OwnData /\ Rows!WholeEpoch /\ Rows!NumColBuilt
=============================================================================
