---------------------------- MODULE ParquetParser ----------------------------
(* ParquetParser (src/data/parquet_parser.h): Next takes up to nthreads row
   groups of the file at a time, each parsed by a task of its own, whose result
   and whose exception stay in a future.  The parquet reader is external: it
   gives a row's columns one by one, and may fail at any of them. *)
EXTENDS Integers, Sequences, SequencesExt, FiniteSetsExt

CONSTANTS
    Files,             \* the number of rows of each row group
    nthread_,
    Failing,           \* TRUE if the reader may fail
    MaxEpochs,
    num_cols_

VARIABLES
    groups,            \* the file
    row_groups_read_, have_next_,
    data_, data_ptr_, data_end_,
    task,              \* "idle", "running" or "ended", by place in data_
    pc, ret, got, epochs

file == <<groups, row_groups_read_, have_next_>>
vars == <<file, data_, data_ptr_, data_end_, task, pc, ret, got, epochs>>

num_row_groups_ == Len(groups)
\* A container: the group it is of, its complete rows, and the columns of the row begun.
Clear(group) == [group |-> group, rows |-> 0, columns |-> 0]

Init ==
    /\ groups \in Files
    /\ row_groups_read_ = 0
    /\ have_next_ = (FoldSeq(LAMBDA n, sum : n + sum, 0, groups) # 0)
    /\ data_ = <<>> /\ data_ptr_ = 0 /\ data_end_ = 0 /\ task = <<>>
    /\ pc = "idle" /\ ret = "none" /\ got = <<>> /\ epochs = 1

Next_ ==
    /\ pc = "idle" /\ ret \in {"none", "true"}
    /\ pc' = "next"
    /\ UNCHANGED <<file, data_, data_ptr_, data_end_, task, ret, got, epochs>>

\* GetBlock refuses a container whose last row is not complete.
Scan ==
    /\ pc = "next" /\ data_ptr_ < data_end_
    /\ data_ptr_' = data_ptr_ + 1
    /\ LET d == data_[data_ptr_ + 1] IN
       IF d.rows = 0 THEN UNCHANGED <<pc, ret, got, epochs>>
       ELSE /\ pc' = "idle" /\ ret' = IF d.columns = 0 THEN "true" ELSE "throws"
            /\ got' = IF d.columns = 0 THEN Append(got, <<d.group, d.rows>>) ELSE got
    /\ UNCHANGED <<file, data_, data_end_, task, epochs>>

next_row_groups == Min({nthread_, num_row_groups_ - row_groups_read_})

\* ParseNext with nothing left.
AtEnd ==
    /\ pc = "next" /\ data_ptr_ >= data_end_ /\ ~have_next_
    /\ pc' = "idle" /\ ret' = "false"
    /\ UNCHANGED <<file, data_, data_ptr_, data_end_, task, got, epochs>>

\* ParseNext starts a task for each of the next row groups; resize keeps what
\* the containers hold, each task clears its own.
ParseNext ==
    /\ pc = "next" /\ data_ptr_ >= data_end_ /\ have_next_
    /\ data_' = [tid \in 1 .. next_row_groups |->
                   IF tid \in DOMAIN data_ THEN data_[tid] ELSE Clear(row_groups_read_ + tid)]
    /\ task' = [tid \in 1 .. next_row_groups |-> "idle"]
    /\ pc' = "wait"
    /\ UNCHANGED <<file, data_ptr_, data_end_, ret, got, epochs>>

Begin(tid) ==
    /\ pc = "wait" /\ tid \in DOMAIN task /\ task[tid] = "idle"
    /\ task' = [task EXCEPT ![tid] = "running"]
    /\ data_' = [data_ EXCEPT ![tid] = Clear(row_groups_read_ + tid)]
    /\ UNCHANGED <<file, data_ptr_, data_end_, pc, ret, got, epochs>>

Complete(tid) == data_[tid].rows = groups[data_[tid].group]

RowDone(d) == d.columns + 1 = num_cols_

\* ParseRowGroup reads one more column, the last one completes the row.
Column(tid) ==
    LET d == data_[tid] IN
    /\ pc = "wait" /\ tid \in DOMAIN task /\ task[tid] = "running" /\ ~Complete(tid)
    /\ data_' = [data_ EXCEPT ![tid] = IF RowDone(d)
                                       THEN [d EXCEPT !.rows = @ + 1, !.columns = 0]
                                       ELSE [d EXCEPT !.columns = @ + 1]]
    /\ UNCHANGED <<file, data_ptr_, data_end_, task, pc, ret, got, epochs>>

\* A task ends, or its CHECK or the reader throws, which only its future knows.
End(tid) ==
    /\ pc = "wait" /\ tid \in DOMAIN task /\ task[tid] = "running"
    /\ Complete(tid) \/ Failing
    /\ task' = [task EXCEPT ![tid] = "ended"]
    /\ UNCHANGED <<file, data_, data_ptr_, data_end_, pc, ret, got, epochs>>

\* One task is waited for.
WaitMutant == task[1] = "ended"

AllEnded == \A tid \in DOMAIN task : task[tid] = "ended"

Left(read) == read < num_row_groups_

\* Every future is waited for, and Next goes on with the blocks.
Wait ==
    /\ pc = "wait" /\ AllEnded
    /\ row_groups_read_' = row_groups_read_ + next_row_groups
    /\ have_next_' = Left(row_groups_read_ + next_row_groups)
    /\ data_ptr_' = 0 /\ data_end_' = Len(data_)
    /\ pc' = "next"
    /\ UNCHANGED <<groups, data_, task, ret, got, epochs>>

\* BeforeFirst does nothing: got, the blocks of this epoch, begins again, the
\* parser goes on where it was.
BeforeFirst ==
    /\ pc = "idle" /\ ret = "false" /\ epochs < MaxEpochs
    /\ ret' = "none" /\ got' = <<>> /\ epochs' = epochs + 1
    /\ UNCHANGED <<file, data_, data_ptr_, data_end_, task, pc>>

Tids == 1 .. nthread_
Next ==
    \/ Next_ \/ Scan \/ AtEnd \/ ParseNext \/ Wait \/ BeforeFirst
    \/ \E tid \in Tids : Begin(tid) \/ Column(tid) \/ End(tid)

Fairness ==
    /\ WF_vars(Scan \/ AtEnd \/ ParseNext \/ Wait)
    /\ \A tid \in Tids : WF_vars(Begin(tid) \/ Column(tid) \/ End(tid))

Spec == Init /\ [][Next]_vars /\ Fairness

-----------------------------------------------------------------------------
TypeOK ==
    /\ row_groups_read_ \in 0 .. num_row_groups_ /\ have_next_ \in BOOLEAN
    /\ data_ptr_ \in 0 .. data_end_ /\ Len(data_) <= nthread_
    /\ \A tid \in DOMAIN data_ : data_[tid].columns < num_cols_

All == SelectSeq([g \in DOMAIN groups |-> <<g, groups[g]>>], LAMBDA b : b[2] # 0)

\* The blocks of every epoch are row groups that have rows, with all of their
\* rows, in the file's order whatever the order of the tasks, from the first one
\* on and none twice; the first epoch has them all.
WholeFile ==
    /\ IsPrefix(got, All)
    /\ epochs = 1 /\ ret = "false" => got = All

\* Every epoch has all of them: what data.h:61 says of BeforeFirst, and what
\* the empty BeforeFirst does not do.
WholeEpochs == ret = "false" => got = All
=============================================================================
