------------------------------ MODULE RowBlock ------------------------------
(* Row blocks (include/dmlc/data.h) and the container that grows them
   (src/data/row_block.h): rows of a sparse matrix laid out in parallel arrays,
   where an optional column that is empty is a null pointer.  A pointer into an
   array is the rest of the array from there on. *)
EXTENDS Integers, Sequences, SequencesExt, FiniteSetsExt

CONSTANTS
    Rows,          \* rows that can be pushed
    Batches,       \* sequences of rows: blocks of another container
    Columns,       \* the optional columns such a block can have
    Cuts,          \* pairs <<begin, end>> of Slice
    MaxPushes,
    MaxId          \* numeric_limits<IndexType>::max() of the container

VARIABLES
    c,             \* the container
    pushed,        \* the rows that it was given
    later,         \* those of a slice that begins after the first feature of its block
    thrown

vars == <<c, pushed, later, thrown>>

Null == <<>>
Garbage == -1      \* what is read outside of an array, or through a null pointer

At(pointer, i) == IF i < Len(pointer) THEN pointer[i + 1] ELSE Garbage
From(pointer, i) == SubSeq(pointer, i + 1, Len(pointer))
IndexOf(row) == [i \in DOMAIN row.feats |-> row.feats[i].index]
FieldOf(row) == [i \in DOMAIN row.feats |-> row.feats[i].field]
ValueOf(row) == [i \in DOMAIN row.feats |-> row.feats[i].value]

Clear == [offset |-> <<0>>, label |-> Null, weight |-> Null, qid |-> Null, field |-> Null,
          index |-> Null, value |-> Null, max_field |-> 0, max_index |-> 0]

Size(d) == Len(d.offset) - 1

-----------------------------------------------------------------------------
(* RowBlock and Row. *)

\* GetBlock checks the container before it shows it.
Consistent(d) ==
    /\ d.label /= Null => Len(d.label) + 1 = Len(d.offset)
    /\ Last(d.offset) = Len(d.index)
    /\ Last(d.offset) = Len(d.value) \/ d.value = Null

\* The arrays of a slice move with its first row, the data does not.
Slice(b, begin, end) ==
    [b EXCEPT !.size = end - begin, !.label = From(@, begin), !.weight = From(@, begin),
              !.qid = From(@, begin), !.offset = From(@, begin)]

GetBlock(d) ==
    [size |-> Size(d), offset |-> d.offset, label |-> d.label, weight |-> d.weight,
     qid |-> d.qid, field |-> d.field, index |-> d.index, value |-> d.value]

\* operator[] and the accessors of the row it returns.
RowAt(b, rowid) ==
    LET start == At(b.offset, rowid)
        length == At(b.offset, rowid + 1) - start
    IN  [label |-> At(b.label, rowid),
         weight |-> IF b.weight = Null THEN 1 ELSE At(b.weight, rowid),
         qid |-> IF b.qid = Null THEN 0 ELSE At(b.qid, rowid),
         feats |-> [i \in 1 .. length |->
                      [field |-> IF b.field = Null THEN 0 ELSE At(b.field, start + i - 1),
                       index |-> At(b.index, start + i - 1),
                       value |-> IF b.value = Null THEN 1 ELSE At(b.value, start + i - 1)]]]

RowsOf(b) == [i \in 1 .. b.size |-> RowAt(b, i - 1)]

-----------------------------------------------------------------------------
(* RowBlockContainer. *)

\* The ids that are appended before the first one that the type cannot hold.
Fitting(ids) == SelectInSeq(ids, LAMBDA id : id > MaxId)
Taken(ids) == IF Fitting(ids) = 0 THEN ids ELSE SubSeq(ids, 1, Fitting(ids) - 1)
Throws(ids) == Fitting(ids) # 0
Biggest(m, ids) == Max({m} \cup ToSet(ids))

RowEnd(d, index) == Append(d.offset, Len(index))

\* A row whose block has no such column reads the same number everywhere.
Unless(column, number) == IF ToSet(column) \subseteq {number} THEN Null ELSE column

FieldsOf(row) == Unless(FieldOf(row), 0)

\* Push of a row: it always has a weight and a query id.  A field or an id that
\* does not fit leaves the columns before it grown.
PushRow(d, row) ==
    LET fields == FieldsOf(row)
        ids == IndexOf(row)
        index == d.index \o Taken(ids)
        head == [d EXCEPT !.label = Append(@, row.label), !.weight = Append(@, row.weight),
                          !.qid = Append(@, row.qid), !.field = @ \o Taken(fields),
                          !.max_field = Biggest(@, Taken(fields))]
        grown == [head EXCEPT !.index = index, !.max_index = Biggest(@, Taken(ids))]
    IN  IF Throws(fields) THEN head
        ELSE IF Throws(ids) THEN grown
        ELSE [grown EXCEPT !.value = @ \o Unless(ValueOf(row), 1), !.offset = RowEnd(d, index)]

\* The offsets of the other block as they are.
ShiftMutant(d, batch) ==
    [i \in 1 .. batch.size |-> At(d.offset, Len(d.label)) + At(batch.offset, i)]

Shifted(d, batch) ==
    LET shift == At(d.offset, Len(d.label)) IN
    [i \in 1 .. batch.size |-> shift + At(batch.offset, i) - At(batch.offset, 0)]

First(pointer, n) == [i \in 1 .. n |-> At(pointer, i - 1)]

Column(pointer, n) == IF pointer = Null THEN Null ELSE First(pointer, n)

NData(batch) == At(batch.offset, batch.size) - At(batch.offset, 0)

\* What the arrays hold when the type cannot hold an id: room for all of them.
Resized(ids) == Taken(ids) \o [i \in 1 .. Len(ids) - Len(Taken(ids)) |-> 0]

\* The offsets of a push that has thrown.
Unfinished(d, batch, offset) == d.offset

\* Push of a block: every column that it has, to the end of the container's.
\* When a field or an id does not fit, the columns have grown and the offsets
\* have not.
PushBlock(d, batch) ==
    LET n == batch.size
        fields == Column(batch.field, NData(batch))
        ids == First(batch.index, NData(batch))
        head == [d EXCEPT !.label = @ \o First(batch.label, n),
                          !.weight = @ \o Column(batch.weight, n),
                          !.qid = @ \o Column(batch.qid, n),
                          !.field = @ \o Resized(fields),
                          !.max_field = Biggest(@, Taken(fields))]
        grown == [head EXCEPT !.index = @ \o Resized(ids), !.max_index = Biggest(@, Taken(ids))]
        unfinished == Unfinished(d, batch, Shifted(d, batch))
    IN  IF Throws(fields) THEN [head EXCEPT !.offset = unfinished]
        ELSE IF Throws(ids) THEN [grown EXCEPT !.offset = unfinished]
        ELSE [grown EXCEPT !.value = @ \o Column(batch.value, NData(batch)),
                           !.offset = @ \o Shifted(d, batch)]

-----------------------------------------------------------------------------
\* A block of the given rows, laid out by its own parser.
Laid(rows, columns) ==
    LET ends == [k \in 0 .. Len(rows) |-> FoldFunction(LAMBDA x, y : x + y, 0,
                    [i \in 1 .. k |-> Len(rows[i].feats)])]
        Col(name, s) == IF name \in columns THEN s ELSE Null
    IN  [size |-> Len(rows), offset |-> [k \in 1 .. Len(rows) + 1 |-> ends[k - 1]],
         label |-> Col("label", [i \in DOMAIN rows |-> rows[i].label]),
         weight |-> Col("weight", [i \in DOMAIN rows |-> rows[i].weight]),
         qid |-> Col("qid", [i \in DOMAIN rows |-> rows[i].qid]),
         field |-> Col("field", FlattenSeq([i \in DOMAIN rows |-> FieldOf(rows[i])])),
         index |-> FlattenSeq([i \in DOMAIN rows |-> IndexOf(rows[i])]),
         value |-> Col("value", FlattenSeq([i \in DOMAIN rows |-> ValueOf(rows[i])]))]

Init == c = Clear /\ pushed = <<>> /\ later = {} /\ thrown = FALSE

Row(row) ==
    /\ ~thrown /\ Len(pushed) < MaxPushes
    /\ c' = PushRow(c, row)
    /\ thrown' = (Throws(FieldsOf(row)) \/ Throws(IndexOf(row)))
    /\ pushed' = Append(pushed, row)
    /\ UNCHANGED later

Block(rows, columns, cut) ==
    LET b == Laid(rows, columns) IN
    /\ ~thrown /\ Len(pushed) < MaxPushes
    /\ cut[1] <= cut[2] /\ cut[2] <= b.size
    /\ LET s == Slice(b, cut[1], cut[2]) IN
       /\ c' = PushBlock(c, s)
       /\ thrown' = (Throws(Column(s.field, NData(s))) \/ Throws(First(s.index, NData(s))))
       /\ pushed' = pushed \o RowsOf(s)
       /\ later' = later \cup (IF At(s.offset, 0) = 0 THEN {}
                                 ELSE {Len(pushed) + i : i \in 1 .. s.size})

Next ==
    \/ \E row \in Rows : Row(row)
    \/ \E rows \in Batches, columns \in Columns, cut \in Cuts : Block(rows, columns, cut)

Spec == Init /\ [][Next]_vars

-----------------------------------------------------------------------------
TypeOK ==
    /\ thrown \in BOOLEAN /\ Last(c.offset) <= Len(c.index)
    /\ \A i \in DOMAIN c.index : c.index[i] <= c.max_index /\ c.max_index <= MaxId
    /\ \A i \in 1 .. Len(c.offset) - 1 : c.offset[i] <= c.offset[i + 1]

\* The block that GetBlock returns has the rows that were pushed, however they
\* came in: each with its own label, weight, query id and number of features,
\* also behind a slice that does not begin at offset 0, and with its own features
\* if it did not come in by such a slice.
ReadBack ==
    ~thrown =>
        LET rows == RowsOf(GetBlock(c)) IN
        /\ Consistent(c) /\ Len(rows) = Len(pushed)
        /\ \A i \in DOMAIN pushed :
             /\ rows[i].label = pushed[i].label
             /\ rows[i].weight = pushed[i].weight
             /\ rows[i].qid = pushed[i].qid
             /\ Len(rows[i].feats) = Len(pushed[i].feats)
             /\ i \notin later => rows[i].feats = pushed[i].feats

\* All of the rows have their own features: Push takes those of a slice from the
\* beginning of its block (row_block.h:152), and this does not hold.
SlicesReadBack == ~thrown => RowsOf(GetBlock(c)) = pushed

\* A container in which a push has thrown is never shown: GetBlock's consistency
\* check sees it.
Detected == thrown => ~Consistent(c)
=============================================================================
