------------------------------ MODULE DataIter ------------------------------
(***************************************************************************)
(* What dmlc::DataIter (include/dmlc/data.h) promises its user: Next hands *)
(* out the items of the source one after the other, each of them once, and *)
(* BeforeFirst starts again from the first.  An iterator that is not yet   *)
(* initialised, has failed or is destroyed promises nothing until it is    *)
(* reset.                                                                  *)
(***************************************************************************)
EXTENDS Integers

CONSTANT NItems

VARIABLES valid,    \* does the iterator stand by its promise?
          taken,    \* items handed out since the last reset
          last      \* the item handed out last, -1 after a reset

vars == <<valid, taken, last>>

Init == valid = FALSE /\ taken = 0 /\ last = -1

\* Next returns true: Value is the item after the previous one.
Deliver == /\ valid /\ taken < NItems
           /\ last' = taken /\ taken' = taken + 1
           /\ UNCHANGED valid

\* BeforeFirst, or the start of an iterator over a fresh source.
Reset == valid' = TRUE /\ taken' = 0 /\ last' = -1

Fail == valid /\ valid' = FALSE /\ UNCHANGED <<taken, last>>

\* No promise while the iterator is not valid.
Unspecified == ~valid /\ valid' = FALSE

Next == Deliver \/ Reset \/ Fail \/ Unspecified

Spec == Init /\ [][Next]_vars
=============================================================================
