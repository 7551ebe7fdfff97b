------------------------- MODULE ThreadedIterProofs -------------------------
(* Types, wait counters and cells of ThreadedIter, for any number of consumers,
   cells and items. *)
EXTENDS ThreadedIter, SeqLemmas

USE DEF vars, queueVars, sigVars, countVars, cellVars, dataVars, prodVars,
        callVars

(***************************************************************************)
(* The types of the variables, by group, and what the program counters say *)
(* about the calls and the cells in transit.                               *)
(***************************************************************************)
SignalTypes ==
    /\ producer_sig_ \in {"none", "kProduce", "kBeforeFirst", "kDestroy"}
    /\ producer_sig_processed_ \in BOOLEAN /\ produce_end_ \in BOOLEAN
    /\ producer_thread_ \in BOOLEAN /\ iter_exception_ \in BOOLEAN
    /\ toOut \in BOOLEAN /\ mixed \in BOOLEAN

ThreadTypes ==
    /\ ppc \in ProducerPcs
    /\ pc \in [Consumers -> {"idle"} \cup NextPcs \cup RecyclePcs \cup OwnerPcs]
    /\ waiting \subseteq Consumers \cup {Producer}
    /\ \A c \in Consumers : pc[c] \in OwnerPcs \cup {"nbegin"} => c = Owner

CellTypes ==
    /\ out_data_ \in Cells \cup {NULL} /\ cell \in Cells \cup {NULL}
    /\ queue_ \in Seq(Cells) /\ free_cells_ \in Seq(Cells)
    /\ held \in [Consumers -> SUBSET Cells]
    /\ alloc \subseteq Cells

Transit ==
    /\ ~producer_thread_ => ppc = "none"
    /\ cell /= NULL => ppc \in {"next", "push"}
    /\ (ppc = "push" /\ ~produce_end_) => cell /= NULL
    /\ (pc[Owner] = "rlock" /\ toOut) => out_data_ /= NULL

DataTypes ==
    /\ pos \in 0..NItems /\ ndelivered \in Nat
    /\ val \in [Cells -> {Stale} \cup 0..NItems]
    /\ last \in {Stale} \cup 0..NItems

Types == SignalTypes /\ ThreadTypes /\ CellTypes /\ Transit /\ DataTypes

LEMMA TypesInit == Init => Types
<1> SUFFICES ASSUME Init PROVE Types
  BY Zenon
<1>1. SignalTypes
  BY Zenon DEF Init, SignalTypes
<1>2. ThreadTypes
  BY Zenon DEF Init, ThreadTypes, ProducerPcs, OwnerPcs
<1>3. <<>> \in Seq(Cells)
  BY EmptyIsSeq, Zenon
<1>4. CellTypes /\ Transit
  BY <1>3, ConstantsAssumption, Zenon DEF Init, CellTypes, Transit
<1>5. DataTypes
  BY ConstantsAssumption DEF Init, DataTypes
<1> QED BY <1>1, <1>2, <1>4, <1>5 DEF Types

LEMMA SignalTypesStep == SignalTypes /\ Next => SignalTypes'
<1> SUFFICES ASSUME SignalTypes, Next PROVE SignalTypes'
  BY Zenon
<1> USE DEF SignalTypes
<1>1. ASSUME ProducerStep PROVE SignalTypes'
  BY ZenonT(40), <1>1 DEF ProducerStep, ProducerLock, ProducerWake, ProducerNext,
       ProducerNextThrows, ProducerPush, ProducerNotify, ProducerCatch,
       ProducerFail, ProducerActs, PopFreeCell, ResetProducer,
       ResetProducerThrows, DestroyThread
<1>2. ASSUME NEW c \in Consumers, NextBegin(c) \/ RecycleBegin(c) \/ ConsumerStep(c)
      PROVE  SignalTypes'
  BY ZenonT(40), <1>2 DEF NextBegin, RecycleBegin, ConsumerStep, NextContinue, NextLock,
       NextWake, NotifyProducer, FinishCall, ReturnFalse, RecycleLock
<1>3. ASSUME \/ BeforeFirstBegin \/ BeforeFirstLock \/ BeforeFirstWake
             \/ DestroyBegin \/ DestroyCleanup \/ Init_ \/ SpuriousWakeup
      PROVE  SignalTypes'
  BY ZenonT(40), <1>3 DEF BeforeFirstBegin, BeforeFirstLock, BeforeFirstWake,
       DestroyBegin, DestroyCleanup, Init_, SpuriousWakeup
<1> QED BY <1>1, <1>2, <1>3 DEF Next

LEMMA ThreadTypesStep == ThreadTypes /\ Next => ThreadTypes'
<1> SUFFICES ASSUME ThreadTypes, Next PROVE ThreadTypes'
  BY Zenon
<1> USE ConstantsAssumption DEF ThreadTypes, ProducerPcs
<1>1. ASSUME ProducerStep PROVE ThreadTypes'
  BY <1>1, Zenon DEF ProducerStep, ProducerLock, ProducerWake, ProducerNext,
       ProducerNextThrows, ProducerPush, ProducerNotify, ProducerCatch,
       ProducerFail, ProducerActs, PopFreeCell, ResetProducer,
       ResetProducerThrows, DestroyThread
<1>2. ASSUME NEW c \in Consumers, NextBegin(c) \/ RecycleBegin(c) \/ ConsumerStep(c)
      PROVE  ThreadTypes'
  <2>1. CASE NextBegin(c) \/ RecycleBegin(c) \/ NextContinue(c) \/ RecycleLock(c)
    BY <2>1 DEF NextBegin, RecycleBegin, NextContinue, RecycleLock, Idle, EnterNext, Return,
       Goto, NextPcs, RecyclePcs, OwnerPcs
  <2>2. CASE NextLock(c) \/ NextWake(c)
    BY <2>2 DEF NextLock, NextWake, Return, Goto, TakeOrEnd, NextPcs, RecyclePcs, OwnerPcs
  <2>3. CASE NotifyProducer(c) \/ FinishCall(c) \/ ReturnFalse(c)
    BY <2>3 DEF NotifyProducer, FinishCall, ReturnFalse, Return, Goto, NextPcs, RecyclePcs,
       OwnerPcs
  <2> QED BY <1>2, <2>1, <2>2, <2>3, Zenon DEF ConsumerStep
<1>3. ASSUME \/ BeforeFirstBegin \/ BeforeFirstLock \/ BeforeFirstWake
             \/ DestroyBegin \/ DestroyCleanup \/ Init_ \/ SpuriousWakeup
      PROVE  ThreadTypes'
  BY <1>3 DEF BeforeFirstBegin, BeforeFirstLock, BeforeFirstWake,
       DestroyBegin, DestroyCleanup, Init_, SpuriousWakeup, Return, Goto,
       NextPcs, RecyclePcs, OwnerPcs
<1> QED BY <1>1, <1>2, <1>3 DEF Next

LEMMA CellTypesStep == Types /\ Next => CellTypes'
<1> SUFFICES ASSUME Types, Next PROVE CellTypes'
  BY Zenon
<1> USE ConstantsAssumption DEF CellTypes
<1>t. CellTypes /\ Transit
  BY Zenon DEF Types
<1>s. /\ <<>> \in Seq(Cells) /\ free_cells_ \o queue_ \in Seq(Cells)
      /\ \A d \in Cells : /\ Append(queue_, d) \in Seq(Cells)
                          /\ Append(free_cells_, d) \in Seq(Cells)
      /\ queue_ /= <<>> => Head(queue_) \in Cells /\ Tail(queue_) \in Seq(Cells)
      /\ free_cells_ /= <<>> =>
            Head(free_cells_) \in Cells /\ Tail(free_cells_) \in Seq(Cells)
  BY <1>t, EmptyIsSeq, AppendRange, TailRange, ConcatRange DEF CellTypes
<1>1. ASSUME ProducerActs, UNCHANGED cellVars PROVE CellTypes'
  BY Zenon, <1>t, <1>s, <1>1 DEF ProducerActs, PopFreeCell, ResetProducer,
       ResetProducerThrows, DestroyThread, ClearQueue
<1>2. ASSUME ProducerLock \/ ProducerWake PROVE CellTypes'
  BY <1>t, <1>1, <1>2, Zenon DEF ProducerLock, ProducerWake
<1>3. ASSUME ProducerNext PROVE CellTypes'
  BY <1>t, <1>3, Zenon DEF ProducerNext
<1>4. ASSUME ProducerPush PROVE CellTypes'
  BY Zenon, <1>t, <1>s, <1>4 DEF ProducerPush, PushFree, Transit
<1>5. ASSUME ProducerFail PROVE CellTypes'
  BY Zenon, <1>t, <1>s, <1>5 DEF ProducerFail, ClearQueue
<1>6. ASSUME ProducerNextThrows \/ ProducerNotify \/ ProducerCatch PROVE CellTypes'
  BY <1>t, <1>6, Zenon DEF ProducerNextThrows, ProducerNotify, ProducerCatch
<1>7. ASSUME NEW c \in Consumers, TakeOrEnd(c), UNCHANGED <<free_cells_, alloc, cell>>
      PROVE  CellTypes'
  <2>1. CASE queue_ = <<>>
    BY Zenon, <1>t, <1>7, <2>1 DEF TakeOrEnd
  <2>2. CASE queue_ /= <<>> /\ c = Owner /\ toOut
    BY Zenon, <1>t, <1>s, <1>7, <2>2 DEF TakeOrEnd
  <2>3. CASE queue_ /= <<>> /\ ~(c = Owner /\ toOut)
    <3>1. held' = [held EXCEPT ![c] = @ \cup {Head(queue_)}]
      BY Zenon, <1>7, <2>3 DEF TakeOrEnd
    <3>2. held' \in [Consumers -> SUBSET Cells]
      BY <1>t, <1>s, <2>3, <3>1
    <3> QED BY Zenon, <1>t, <1>s, <1>7, <2>3, <3>2 DEF TakeOrEnd
  <2> QED BY Zenon, <2>1, <2>2, <2>3
<1>8. ASSUME NEW c \in Consumers, NextLock(c) \/ NextWake(c) PROVE CellTypes'
  BY <1>t, <1>7, <1>8 DEF NextLock, NextWake
<1>9. ASSUME NEW c \in Consumers, RecycleLock(c) PROVE CellTypes'
  <2>1. CASE c = Owner /\ toOut
    BY SMTT(40), <1>t, <1>s, <1>9, <2>1 DEF RecycleLock, Transit
  <2>2. CASE ~(c = Owner /\ toOut)
    BY ZenonT(40), <1>t, <1>s, <1>9, <2>2 DEF RecycleLock
  <2> QED BY <2>1, <2>2
<1>10. ASSUME NEW c \in Consumers,
             \/ NextBegin(c) \/ RecycleBegin(c) \/ NextContinue(c)
             \/ NotifyProducer(c) \/ FinishCall(c) \/ ReturnFalse(c)
      PROVE  CellTypes'
  BY <1>t, <1>10, Zenon DEF NextBegin, RecycleBegin, NextContinue, NotifyProducer,
       FinishCall, ReturnFalse
<1>11. ASSUME BeforeFirstLock PROVE CellTypes'
  BY <1>t, <1>s, <1>11, Zenon DEF BeforeFirstLock, PushFree
<1>12. ASSUME DestroyCleanup PROVE CellTypes'
  BY <1>t, <1>s, <1>12, Zenon DEF DestroyCleanup
<1>13. ASSUME \/ BeforeFirstBegin \/ BeforeFirstWake \/ DestroyBegin
              \/ Init_ \/ SpuriousWakeup
       PROVE  CellTypes'
  BY <1>t, <1>13, Zenon DEF BeforeFirstBegin, BeforeFirstWake, DestroyBegin, Init_,
       SpuriousWakeup
<1> QED BY SMTT(40), <1>2, <1>3, <1>4, <1>5, <1>6, <1>8, <1>9, <1>10, <1>11, <1>12, <1>13
        DEF Next, ProducerStep, ConsumerStep

LEMMA TransitStep == Types /\ Next => Transit'
<1> SUFFICES ASSUME Types, Next PROVE Transit'
  BY Zenon
<1> USE ConstantsAssumption DEF Transit
<1>t. CellTypes /\ Transit /\ ThreadTypes /\ SignalTypes
  BY Zenon DEF Types
<1>1. ASSUME ProducerLock \/ ProducerWake PROVE Transit'
  BY <1>t, <1>1 DEF ProducerLock, ProducerWake, ProducerActs, PopFreeCell,
       ResetProducer, ResetProducerThrows, DestroyThread
<1>2. ASSUME ProducerNext PROVE Transit'
  BY <1>t, <1>2, Zenon DEF ProducerNext, CellTypes
<1>3. ASSUME \/ ProducerPush \/ ProducerFail \/ ProducerNextThrows
             \/ ProducerNotify \/ ProducerCatch
      PROVE  Transit'
  BY <1>t, <1>3 DEF ProducerPush, ProducerFail, ProducerNextThrows,
       ProducerNotify, ProducerCatch
<1>4. ASSUME NEW c \in Consumers, NextLock(c) \/ NextWake(c) PROVE Transit'
  <2>1. queue_ /= <<>> => Head(queue_) \in Cells
    BY <1>t, TailRange, Zenon DEF CellTypes
  <2> QED BY <1>t, <1>4, <2>1
          DEF NextLock, NextWake, TakeOrEnd, Goto, Return, ThreadTypes
<1>5. ASSUME NEW c \in Consumers, RecycleLock(c) PROVE Transit'
  BY <1>t, <1>5, Zenon DEF RecycleLock, Goto, ThreadTypes
<1>6. ASSUME NEW c \in Consumers, NextBegin(c) PROVE Transit'
  BY <1>t, <1>6 DEF NextBegin, EnterNext, Goto, Return, ThreadTypes, Idle, SignalTypes
<1>7. ASSUME NEW c \in Consumers, RecycleBegin(c) PROVE Transit'
  BY <1>t, <1>7, Zenon DEF RecycleBegin, Goto, Return, ThreadTypes, Idle, SignalTypes
<1>8. ASSUME NEW c \in Consumers,
             NextContinue(c) \/ NotifyProducer(c) \/ FinishCall(c) \/ ReturnFalse(c)
      PROVE  Transit'
  BY <1>t, <1>8 DEF NextContinue, NotifyProducer, FinishCall, ReturnFalse,
       EnterNext, Goto, Return, ThreadTypes
<1>9. ASSUME \/ BeforeFirstBegin \/ BeforeFirstLock \/ BeforeFirstWake
             \/ DestroyBegin
      PROVE  Transit'
  BY <1>t, <1>9 DEF BeforeFirstBegin, BeforeFirstLock, BeforeFirstWake,
       DestroyBegin, Goto, Return, ThreadTypes
<1>10. ASSUME DestroyCleanup PROVE Transit'
  BY <1>t, <1>10, Zenon DEF DestroyCleanup, Quiet, Idle, Goto, Return, ThreadTypes
<1>11. ASSUME Init_ \/ SpuriousWakeup PROVE Transit'
  BY <1>t, <1>11 DEF Init_, SpuriousWakeup
<1> QED BY SMTT(40), <1>1, <1>2, <1>3, <1>4, <1>5, <1>6, <1>7, <1>8, <1>9, <1>10, <1>11
        DEF Next, ProducerStep, ConsumerStep

LEMMA DataTypesStep == Types /\ Next => DataTypes'
<1> SUFFICES ASSUME Types, Next PROVE DataTypes'
  BY Zenon
<1> USE ConstantsAssumption DEF DataTypes
<1>t. DataTypes /\ CellTypes
  BY Zenon DEF Types
<1>1. ASSUME ProducerLock \/ ProducerWake PROVE DataTypes'
  BY <1>t, <1>1 DEF ProducerLock, ProducerWake, ProducerActs, PopFreeCell,
       ResetProducer, ResetProducerThrows, DestroyThread
<1>2. ASSUME ProducerNext PROVE DataTypes'
  BY SMTT(40), <1>t, <1>2 DEF ProducerNext, CellTypes
<1>3. ASSUME \/ ProducerPush \/ ProducerFail \/ ProducerNextThrows
             \/ ProducerNotify \/ ProducerCatch
      PROVE  DataTypes'
  BY <1>t, <1>3, Zenon DEF ProducerPush, ProducerFail, ProducerNextThrows,
       ProducerNotify, ProducerCatch
<1>4. ASSUME NEW c \in Consumers, NextLock(c) \/ NextWake(c) PROVE DataTypes'
  <2>1. queue_ /= <<>> => Head(queue_) \in Cells
    BY <1>t, TailRange, Zenon DEF CellTypes
  <2> QED BY <1>t, <1>4, <2>1 DEF NextLock, NextWake, TakeOrEnd
<1>5. ASSUME NEW c \in Consumers,
             \/ NextBegin(c) \/ RecycleBegin(c) \/ NextContinue(c)
             \/ NotifyProducer(c) \/ FinishCall(c) \/ ReturnFalse(c) \/ RecycleLock(c)
      PROVE  DataTypes'
  BY <1>t, <1>5, Zenon DEF NextBegin, RecycleBegin, NextContinue, NotifyProducer,
       FinishCall, ReturnFalse, RecycleLock
<1>6. ASSUME \/ BeforeFirstBegin \/ BeforeFirstLock \/ BeforeFirstWake
             \/ DestroyBegin \/ DestroyCleanup \/ SpuriousWakeup
      PROVE  DataTypes'
  BY <1>t, <1>6, Zenon DEF BeforeFirstBegin, BeforeFirstLock, BeforeFirstWake,
       DestroyBegin, DestroyCleanup, SpuriousWakeup
<1>7. ASSUME Init_ PROVE DataTypes'
  BY <1>t, <1>7 DEF Init_
<1> QED BY SMTT(40), <1>1, <1>2, <1>3, <1>4, <1>5, <1>6, <1>7
        DEF Next, ProducerStep, ConsumerStep

LEMMA TypesStep == Types /\ [Next]_vars => Types'
<1> SUFFICES ASSUME Types, [Next]_vars PROVE Types'
  BY Zenon
<1>1. CASE Next
  BY <1>1, SignalTypesStep, ThreadTypesStep, CellTypesStep, TransitStep,
     DataTypesStep DEF Types
<1>2. CASE UNCHANGED vars
  BY <1>2 DEF Types, SignalTypes, ThreadTypes, CellTypes, Transit, DataTypes
<1> QED BY <1>1, <1>2, Zenon

(***************************************************************************)
(* The wait counters count the threads inside a wait.                      *)
(***************************************************************************)
Waiters == {c \in Consumers : pc[c] = "nwait"}

Counters ==
    /\ nwait_producer_ = IF ppc = "wait" THEN 1 ELSE 0
    /\ nwait_consumer_ = Cardinality(Waiters)

\* A step that changes the program counter of no consumer but c.
OnlyMoves(c) == \A d \in Consumers \ {c} : pc'[d] = pc[d]

\* A consumer's step moves no other consumer and leaves the producer's side alone.
LEMMA ConsumerFrame ==
    ASSUME ThreadTypes, NEW c \in Consumers,
           NextBegin(c) \/ RecycleBegin(c) \/ ConsumerStep(c)
    PROVE  /\ OnlyMoves(c) /\ waiting' \subseteq waiting \cup {c}
           /\ UNCHANGED <<sigVars, iter_exception_, pos, mixed, alloc, prodVars,
                          nwait_producer_>>
<1>1. OnlyMoves(c)
  BY Zenon DEF NextBegin, RecycleBegin, ConsumerStep, NextContinue, NextLock, NextWake,
     NotifyProducer, FinishCall, ReturnFalse, RecycleLock, EnterNext, TakeOrEnd, Goto,
     Return, ThreadTypes, OnlyMoves
<1>2. /\ waiting' \subseteq waiting \cup {c}
      /\ UNCHANGED <<sigVars, iter_exception_, pos, mixed, alloc, prodVars,
                     nwait_producer_>>
  BY Zenon DEF NextBegin, RecycleBegin, ConsumerStep, NextContinue, NextLock, NextWake,
     NotifyProducer, FinishCall, ReturnFalse, RecycleLock
<1> QED BY <1>1, <1>2, Zenon

LEMMA WaitersCount ==
    /\ Cardinality(Waiters) \in Nat /\ (Cardinality(Waiters) = 0 <=> Waiters = {})
    /\ \A x : x \notin Waiters =>
          Cardinality(Waiters \cup {x}) = Cardinality(Waiters) + 1
    /\ \A x \in Waiters : Cardinality(Waiters \ {x}) = Cardinality(Waiters) - 1
<1>1. Waiters \subseteq Consumers
  BY Zenon DEF Waiters
<1>2. IsFiniteSet(Consumers)
  BY ConstantsAssumption, Zenon
<1> QED BY Zenon, <1>1, <1>2, FiniteCount

LEMMA CountersInit == Init => Counters
<1> SUFFICES ASSUME Init PROVE Counters
  BY Zenon
<1>1. Waiters = {}
  BY Zenon DEF Init, Waiters
<1> QED BY <1>1, WaitersCount, Zenon DEF Init, Counters

LEMMA CountersStep == Types /\ Counters /\ [Next]_vars => Counters'
<1> SUFFICES ASSUME Types, Counters, [Next]_vars PROVE Counters'
  BY Zenon
<1>t. ThreadTypes
  BY Zenon DEF Types
<1>u. ASSUME Waiters' = Waiters, nwait_consumer_' = nwait_consumer_
      PROVE  nwait_consumer_' = Cardinality(Waiters')
  BY <1>u, Zenon DEF Counters
<1>1. ASSUME ProducerStep PROVE Counters'
  <2>1. Waiters' = Waiters /\ nwait_consumer_' = nwait_consumer_
    BY <1>1, Zenon DEF Waiters, ProducerStep, ProducerLock, ProducerWake, ProducerNext,
       ProducerNextThrows, ProducerPush, ProducerNotify, ProducerCatch, ProducerFail
  <2>2. ASSUME ProducerActs PROVE ppc' /= "wait"
    BY <2>2, Zenon DEF ProducerActs, PopFreeCell, ResetProducer, ResetProducerThrows,
       DestroyThread
  <2>3. ASSUME ProducerLock PROVE nwait_producer_' = IF ppc' = "wait" THEN 1 ELSE 0
    BY <2>2, <2>3 DEF Counters, ProducerLock
  <2>4. ASSUME ProducerWake PROVE nwait_producer_' = IF ppc' = "wait" THEN 1 ELSE 0
    BY <2>2, <2>4 DEF Counters, ProducerWake
  <2>5. ASSUME \/ ProducerNext \/ ProducerNextThrows \/ ProducerPush
               \/ ProducerNotify \/ ProducerCatch \/ ProducerFail
        PROVE  nwait_producer_' = IF ppc' = "wait" THEN 1 ELSE 0
    BY <2>5, Zenon DEF Counters, ProducerNext, ProducerNextThrows, ProducerPush,
       ProducerNotify, ProducerCatch, ProducerFail
  <2> QED BY <1>1, <2>1, <2>3, <2>4, <2>5, <1>u DEF Counters, ProducerStep
<1>2. ASSUME NEW c \in Consumers, NextBegin(c) \/ RecycleBegin(c) \/ ConsumerStep(c)
      PROVE  Counters'
  <2>1. nwait_producer_' = IF ppc' = "wait" THEN 1 ELSE 0
    BY Zenon, <1>2 DEF Counters, NextBegin, RecycleBegin, ConsumerStep, NextContinue, NextLock,
       NextWake, NotifyProducer, FinishCall, ReturnFalse, RecycleLock
  <2>2. ASSUME c \notin Waiters, Waiters' = Waiters \cup {c},
               nwait_consumer_' = nwait_consumer_ + 1
        PROVE  nwait_consumer_' = Cardinality(Waiters')
    BY <2>2, WaitersCount, Zenon DEF Counters
  <2>3. ASSUME c \in Waiters, Waiters' = Waiters \ {c},
               nwait_consumer_' = nwait_consumer_ - 1
        PROVE  nwait_consumer_' = Cardinality(Waiters')
    BY <2>3, WaitersCount, Zenon DEF Counters
  <2>4. ASSUME OnlyMoves(c), pc'[c] /= "nwait"
        PROVE  Waiters' = Waiters \ {c}
    BY <2>4, <1>t, Zenon DEF Waiters, OnlyMoves
  <2>5. CASE NextLock(c)
    <3>1. c \notin Waiters /\ pc[c] = "nlock"
      BY <2>5, Zenon DEF NextLock, Waiters
    <3>2. CASE nwait_consumer_' = nwait_consumer_ + 1 /\ Goto(c, "nwait")
      <4>1. Waiters' = Waiters \cup {c}
        BY <3>2, <1>t, Zenon DEF Goto, Waiters, ThreadTypes
      <4> QED BY SMTT(40), <2>1, <2>2, <3>1, <3>2, <4>1 DEF Counters
    <3>3. CASE nwait_consumer_' = nwait_consumer_ /\ (Return(c) \/ TakeOrEnd(c))
      <4>1. OnlyMoves(c) /\ pc'[c] /= "nwait"
        BY <1>t, <3>3, Zenon DEF Return, TakeOrEnd, Goto, ThreadTypes, OnlyMoves
      <4>2. Waiters' = Waiters
        BY <2>4, <3>1, <4>1, Zenon
      <4> QED BY <2>1, <3>3, <4>2, <1>u DEF Counters
    <3> QED BY <2>5, <3>2, <3>3, Zenon DEF NextLock
  <2>6. CASE NextWake(c)
    <3>1. c \in Waiters
      BY <2>6, Zenon DEF NextWake, Waiters
    <3>2. CASE nwait_consumer_' = nwait_consumer_ - 1 /\ TakeOrEnd(c)
      <4>1. OnlyMoves(c) /\ pc'[c] /= "nwait"
        BY <1>t, <3>2, Zenon DEF TakeOrEnd, Goto, ThreadTypes, OnlyMoves
      <4>2. Waiters' = Waiters \ {c}
        BY <2>4, <4>1, Zenon
      <4> QED BY <2>1, <2>3, <3>1, <3>2, <4>2 DEF Counters
    <3>3. CASE UNCHANGED <<nwait_consumer_, pc>>
      <4>1. Waiters' = Waiters
        BY <3>3, Zenon DEF Waiters
      <4> QED BY <2>1, <3>3, <4>1, <1>u DEF Counters
    <3> QED BY <2>6, <3>2, <3>3 DEF NextWake
  <2>7. CASE \/ NextBegin(c) \/ RecycleBegin(c) \/ NextContinue(c)
             \/ NotifyProducer(c) \/ FinishCall(c) \/ ReturnFalse(c) \/ RecycleLock(c)
    <3>1. c \notin Waiters /\ nwait_consumer_' = nwait_consumer_
      BY <2>7, Zenon DEF Waiters, NextBegin, RecycleBegin, NextContinue, NotifyProducer,
         FinishCall, ReturnFalse, RecycleLock, Idle
    <3>2. OnlyMoves(c) /\ pc'[c] /= "nwait"
      BY <1>t, <2>7 DEF NextBegin, RecycleBegin, NextContinue, NotifyProducer,
         FinishCall, ReturnFalse, RecycleLock, EnterNext, Return, Goto,
         ThreadTypes, OnlyMoves
    <3>3. Waiters' = Waiters
      BY <2>4, <3>1, <3>2
    <3> QED BY <2>1, <3>1, <3>3, <1>u DEF Counters
  <2> QED BY <1>2, <2>5, <2>6, <2>7 DEF ConsumerStep
<1>3. ASSUME \/ BeforeFirstBegin \/ BeforeFirstLock \/ BeforeFirstWake
             \/ DestroyBegin \/ DestroyCleanup
      PROVE  Counters'
  <2>1. pc[Owner] /= "nwait"
    BY <1>3, ConstantsAssumption DEF BeforeFirstBegin, BeforeFirstLock, BeforeFirstWake,
       DestroyBegin, DestroyCleanup, Quiet, Idle
  <2>2. OnlyMoves(Owner) /\ pc'[Owner] /= "nwait"
    BY <1>t, <1>3, <2>1, ConstantsAssumption DEF BeforeFirstBegin, BeforeFirstLock,
       BeforeFirstWake, DestroyBegin, DestroyCleanup, Return, Goto, ThreadTypes,
       OnlyMoves
  <2>3. Waiters' = Waiters
    BY <2>1, <2>2, ConstantsAssumption DEF Waiters, OnlyMoves
  <2>4. /\ UNCHANGED countVars
        /\ ppc' = ppc \/ (ppc \in {"none", "exit"} /\ ppc' = "none")
    BY <1>3, Zenon DEF BeforeFirstBegin, BeforeFirstLock, BeforeFirstWake,
       DestroyBegin, DestroyCleanup, Types, Transit
  <2> QED BY <2>3, <2>4, <1>u, Zenon DEF Counters
<1>4. ASSUME Init_ \/ SpuriousWakeup \/ UNCHANGED vars PROVE Counters'
  <2>1. Waiters' = Waiters
    BY <1>4, Zenon DEF Waiters, Init_, SpuriousWakeup
  <2> QED BY <1>4, <2>1, <1>u, Zenon DEF Counters, Init_, SpuriousWakeup
<1> QED BY <1>1, <1>2, <1>3, <1>4 DEF Next

\* The code's data keeps its types, and nwait_producer_ and nwait_consumer_
\* count exactly the threads inside a wait, so no notification is skipped
\* because a counter is off.
THEOREM TypeCorrect == Spec => []TypeOK
<1>1. Init => Types /\ Counters
  BY TypesInit, CountersInit, Zenon
<1>2. Types /\ Counters /\ [Next]_vars => (Types /\ Counters)'
  BY TypesStep, CountersStep, Zenon
<1>3. Types /\ Counters => TypeOK
  BY Zenon DEF Types, SignalTypes, ThreadTypes, CellTypes, DataTypes, Counters,
     Waiters, TypeOK
<1> QED BY <1>1, <1>2, <1>3, PTL DEF Spec

-----------------------------------------------------------------------------

(***************************************************************************)
(* Ownership of the cells.  Owned is CellOwnership without the order of    *)
(* the two queues: the sets of cells in queue_, in free_cells_, in the     *)
(* producer's hand, in out_data_ and with the consumers.                   *)
(***************************************************************************)
Owned(Q, F, H, O, h, A) ==
    /\ Q \cap F = {} /\ (Q \cup F) \cap (H \cup O) = {} /\ H \cap O = {}
    /\ \A c \in Consumers :
          /\ h[c] \cap (Q \cup F) = {} /\ h[c] \cap (H \cup O) = {}
          /\ h[c] \subseteq A
          /\ \A d \in Consumers \ {c} : h[c] \cap h[d] = {}
    /\ Q \subseteq A /\ F \subseteq A /\ H \subseteq A /\ O \subseteq A

LEMMA OwnershipAsSets ==
    CellOwnership <=>
        /\ IsInjective(queue_) /\ IsInjective(free_cells_)
        /\ Owned(Range(queue_), Range(free_cells_), Hand, InOut, held, alloc)
  BY DEF CellOwnership, Owned, Reachable

LEMMA OwnershipAsSetsNext ==
    CellOwnership' <=>
        /\ IsInjective(queue_') /\ IsInjective(free_cells_')
        /\ Owned(Range(queue_'), Range(free_cells_'), Hand', InOut', held', alloc')
  BY DEF CellOwnership, Owned, Reachable

\* An element moves from one place to another.
LEMMA OwnedMoves ==
    ASSUME NEW Q, NEW F, NEW H, NEW O, NEW h, NEW A, NEW x, NEW c \in Consumers,
           Owned(Q, F, H, O, h, A), h \in [Consumers -> SUBSET Cells]
    PROVE  /\ x \in F /\ H = {} => Owned(Q, F \ {x}, {x}, O, h, A)
           /\ Owned({}, F \cup Q, H, O, h, A)
           /\ Owned(Q, F, {}, O, h, A)
           /\ x \in H => Owned(Q \cup {x}, F, {}, O, h, A)
           /\ x \in H => Owned(Q, F \cup {x}, {}, O, h, A)
           /\ x \notin A => Owned(Q, F, {x}, O, h, A \cup {x})
           /\ x \in Q => Owned(Q \ {x}, F, H, {x}, h, A)
           /\ x \in Q => Owned(Q \ {x}, F, H, O, [h EXCEPT ![c] = @ \cup {x}], A)
           /\ x \in O => Owned(Q, F \cup {x}, H, {}, h, A)
           /\ x \in h[c] => Owned(Q, F \cup {x}, H, O, [h EXCEPT ![c] = @ \ {x}], A)
           /\ Owned({}, {}, H, {}, h, A \ (Q \cup F \cup O))
<1> USE DEF Owned
<1>1. /\ x \in F /\ H = {} => Owned(Q, F \ {x}, {x}, O, h, A)
      /\ Owned({}, F \cup Q, H, O, h, A)
      /\ Owned(Q, F, {}, O, h, A)
  BY SMTT(40)
<1>2. /\ x \in H => Owned(Q \cup {x}, F, {}, O, h, A)
      /\ x \in H => Owned(Q, F \cup {x}, {}, O, h, A)
      /\ x \notin A => Owned(Q, F, {x}, O, h, A \cup {x})
  BY SMTT(40)
<1>3. /\ x \in Q => Owned(Q \ {x}, F, H, {x}, h, A)
      /\ x \in Q => Owned(Q \ {x}, F, H, O, [h EXCEPT ![c] = @ \cup {x}], A)
  BY SMTT(40)
<1>4. /\ x \in O => Owned(Q, F \cup {x}, H, {}, h, A)
      /\ x \in h[c] => Owned(Q, F \cup {x}, H, O, [h EXCEPT ![c] = @ \ {x}], A)
      /\ Owned({}, {}, H, {}, h, A \ (Q \cup F \cup O))
  BY SMTT(40)
<1> HIDE DEF Owned
<1> QED BY Zenon, <1>1, <1>2, <1>3, <1>4

LEMMA OwnershipInit == Init => CellOwnership
<1> SUFFICES ASSUME Init PROVE CellOwnership
  BY Zenon
<1>1. /\ Range(queue_) = {} /\ Range(free_cells_) = {} /\ Hand = {} /\ InOut = {}
      /\ IsInjective(queue_) /\ IsInjective(free_cells_)
  BY DEF Init, Hand, InOut, IsInjective, Range
<1>2. \A c \in Consumers : held[c] = {}
  BY Zenon DEF Init
<1>3. Owned({}, {}, {}, {}, held, alloc)
  BY <1>2, Zenon DEF Owned
<1> QED BY Zenon, <1>1, <1>3, OwnershipAsSets

LEMMA OwnershipStep == Types /\ CellOwnership /\ [Next]_vars => CellOwnership'
<1> SUFFICES ASSUME Types, CellOwnership, [Next]_vars PROVE CellOwnership'
  BY Zenon
<1> DEFINE Q == Range(queue_)
           F == Range(free_cells_)
<1>t. CellTypes /\ Transit /\ ThreadTypes
  BY Zenon DEF Types
<1>o. /\ IsInjective(queue_) /\ IsInjective(free_cells_)
      /\ Owned(Q, F, Hand, InOut, held, alloc)
  BY OwnershipAsSets, Zenon
<1>m. ASSUME NEW x, NEW c \in Consumers
      PROVE  /\ x \in F /\ Hand = {} => Owned(Q, F \ {x}, {x}, InOut, held, alloc)
             /\ Owned({}, F \cup Q, Hand, InOut, held, alloc)
             /\ Owned(Q, F, {}, InOut, held, alloc)
             /\ x \in Hand => Owned(Q \cup {x}, F, {}, InOut, held, alloc)
             /\ x \in Hand => Owned(Q, F \cup {x}, {}, InOut, held, alloc)
             /\ x \notin alloc => Owned(Q, F, {x}, InOut, held, alloc \cup {x})
             /\ x \in Q => Owned(Q \ {x}, F, Hand, {x}, held, alloc)
             /\ x \in Q => Owned(Q \ {x}, F, Hand, InOut,
                                 [held EXCEPT ![c] = @ \cup {x}], alloc)
             /\ x \in InOut => Owned(Q, F \cup {x}, Hand, {}, held, alloc)
             /\ x \in held[c] => Owned(Q, F \cup {x}, Hand, InOut,
                                       [held EXCEPT ![c] = @ \ {x}], alloc)
             /\ Owned({}, {}, Hand, {}, held, alloc \ (Q \cup F \cup InOut))
  BY Zenon, <1>o, <1>t, OwnedMoves DEF CellTypes
<1>e. IsInjective(<<>>) /\ Range(<<>>) = {}
  BY DEF IsInjective, Range
<1>c. /\ IsInjective(free_cells_ \o queue_)
      /\ Range(free_cells_ \o queue_) = F \cup Q
  BY <1>o, <1>t, ConcatRange DEF Owned, CellTypes
<1>q. queue_ /= <<>> => /\ IsInjective(Tail(queue_)) /\ Head(queue_) \in Q
                        /\ Range(Tail(queue_)) = Q \ {Head(queue_)}
  BY <1>o, <1>t, TailRange DEF CellTypes
<1>f. free_cells_ /= <<>> => /\ IsInjective(Tail(free_cells_))
                             /\ Head(free_cells_) \in F
                             /\ Range(Tail(free_cells_)) = F \ {Head(free_cells_)}
  BY <1>o, <1>t, TailRange DEF CellTypes
<1>a. ASSUME NEW x \in Cells, x \notin F
      PROVE  /\ IsInjective(Append(free_cells_, x))
             /\ Range(Append(free_cells_, x)) = F \cup {x}
  BY <1>o, <1>t, <1>a, AppendRange DEF CellTypes
<1>u. ASSUME UNCHANGED <<queueVars, cellVars, cell>> PROVE CellOwnership'
  <2>1. /\ Hand' = Hand /\ InOut' = InOut
        /\ UNCHANGED <<queue_, free_cells_, held, alloc>>
    BY <1>u, Zenon DEF Hand, InOut
  <2> QED BY <2>1 DEF CellOwnership, Reachable
<1> HIDE DEF Q, F
<1>z. ASSUME UNCHANGED <<cellVars>> PROVE InOut' = InOut
  BY <1>z, Zenon DEF InOut
<1>1. ASSUME ProducerActs, UNCHANGED cellVars, ppc \in {"lock", "wait"}
      PROVE  CellOwnership'
  <2>1. Hand = {}
    BY <1>1, <1>t DEF Transit, Hand
  <2>2. CASE PopFreeCell /\ free_cells_ /= <<>>
    <3>1. Hand' = {Head(free_cells_)}
      BY SMTT(40), <2>2, <1>t, <1>f, ConstantsAssumption, TailRange
         DEF PopFreeCell, Hand, CellTypes
    <3> QED BY Zenon, <1>1, <1>o, <1>m, <1>f, <1>z, <2>1, <2>2, <3>1, ConstantsAssumption,
               OwnershipAsSetsNext DEF PopFreeCell, Q, F
  <2>3. CASE ResetProducer
    <3>1. Hand' = {}
      BY <2>3, Zenon DEF ResetProducer, Hand
    <3> QED BY Zenon, <1>1, <1>m, <1>c, <1>e, <1>z, <2>1, <2>3, <3>1, ConstantsAssumption,
               OwnershipAsSetsNext DEF ResetProducer, ClearQueue
  <2>4. CASE \/ PopFreeCell /\ free_cells_ = <<>>
             \/ ResetProducerThrows \/ DestroyThread
    BY <1>1, <1>t, <1>u, <2>4
       DEF PopFreeCell, ResetProducerThrows, DestroyThread, Transit
  <2> QED BY SMTT(40), <1>1, <2>2, <2>3, <2>4 DEF ProducerActs
<1>2. ASSUME ProducerLock \/ ProducerWake PROVE CellOwnership'
  BY <1>u, <1>1, <1>2 DEF ProducerLock, ProducerWake
<1>3. ASSUME ProducerNext PROVE CellOwnership'
  <2>1. CASE cell' \in Cells \ alloc /\ alloc' = alloc \cup {cell'}
    <3>1. Hand' = {cell'} /\ InOut' = InOut
      BY <1>3, <2>1, ConstantsAssumption DEF ProducerNext, Hand, InOut
    <3> QED BY Zenon, <1>3, <1>o, <1>m, <2>1, <3>1, ConstantsAssumption, OwnershipAsSetsNext
            DEF ProducerNext, Q, F
  <2>2. CASE cell' = cell /\ cell \in alloc \cup {NULL}
    <3>1. Hand' = Hand /\ InOut' = InOut /\ alloc' = alloc
      BY ZenonT(40), <1>3, <2>2, <1>t, ConstantsAssumption
         DEF ProducerNext, Hand, InOut, CellTypes
    <3> QED BY SMTT(40), <1>3, <1>u, <2>2, <3>1 DEF ProducerNext
  <2>3. cell \in alloc \cup {NULL}
    BY <1>o, <1>t DEF Owned, Hand, CellTypes
  <2> QED BY SMTT(40), <1>3, <2>1, <2>2, <2>3 DEF ProducerNext
<1>4. ASSUME ProducerNextThrows PROVE CellOwnership'
  <2>1. Hand' = {} /\ InOut' = InOut
    BY <1>4, Zenon DEF ProducerNextThrows, Hand, InOut
  <2> QED BY Zenon, <1>4, <1>o, <1>m, <2>1, ConstantsAssumption, OwnershipAsSetsNext
          DEF ProducerNextThrows, Q, F
<1>5. ASSUME ProducerPush PROVE CellOwnership'
  <2>1. Hand' = {} /\ InOut' = InOut
    BY <1>5, Zenon DEF ProducerPush, Hand, InOut
  <2>2. CASE cell = NULL
    <3>1. UNCHANGED queueVars
      BY <1>5, <1>t, <2>2 DEF ProducerPush, PushFree, Transit
    <3> QED BY <1>5, <1>u, <2>2, <3>1 DEF ProducerPush
  <2>3. CASE cell /= NULL
    <3>1. cell \in Cells /\ cell \in Hand /\ cell \notin F /\ cell \notin Q
      BY <1>o, <1>t, <2>3 DEF CellTypes, Owned, Hand
    <3>2. /\ IsInjective(Append(queue_, cell))
          /\ Range(Append(queue_, cell)) = Q \cup {cell}
      BY SMTT(40), <1>o, <1>t, <3>1, AppendRange DEF CellTypes, Q
    <3>3. /\ Owned(Q \cup {cell}, F, {}, InOut, held, alloc)
          /\ Owned(Q, F \cup {cell}, {}, InOut, held, alloc)
      BY Zenon, <1>m, <3>1, ConstantsAssumption
    <3>4. /\ IsInjective(Append(free_cells_, cell))
          /\ Range(Append(free_cells_, cell)) = F \cup {cell}
      BY <1>a, <3>1, Zenon
    <3>5. held' = held /\ alloc' = alloc
      BY <1>5, Zenon DEF ProducerPush
    <3>6. CASE ~produce_end_
      <4>1. queue_' = Append(queue_, cell) /\ free_cells_' = free_cells_
        BY <1>5, <3>6, Zenon DEF ProducerPush
      <4> QED BY SMTT(40), <4>1, <1>o, <2>1, <3>2, <3>3, <3>5, OwnershipAsSetsNext DEF F
    <3>7. CASE produce_end_
      <4>1. queue_' = queue_ /\ free_cells_' = Append(free_cells_, cell)
        BY <1>5, <2>3, <3>7 DEF ProducerPush, PushFree
      <4> QED BY SMTT(40), <4>1, <1>o, <2>1, <3>3, <3>4, <3>5, OwnershipAsSetsNext DEF Q
    <3> QED BY <3>6, <3>7
  <2> QED BY <2>2, <2>3
<1>6. ASSUME ProducerFail PROVE CellOwnership'
  <2>1. CASE ClearQueue
    <3>1. Hand' = Hand /\ InOut' = InOut
      BY <1>6, Zenon DEF ProducerFail, Hand, InOut
    <3> QED BY Zenon, <1>6, <1>m, <1>c, <1>e, <2>1, <3>1, ConstantsAssumption,
               OwnershipAsSetsNext DEF ProducerFail, ClearQueue
  <2>2. CASE UNCHANGED queueVars
    BY <1>6, <1>u, <2>2 DEF ProducerFail
  <2> QED BY <1>6, <2>1, <2>2 DEF ProducerFail
<1>7. ASSUME ProducerNotify \/ ProducerCatch PROVE CellOwnership'
  BY <1>7, <1>u DEF ProducerNotify, ProducerCatch
<1>8. ASSUME NEW c \in Consumers, TakeOrEnd(c), UNCHANGED <<free_cells_, alloc, cell>>
      PROVE  CellOwnership'
  <2>1. Hand' = Hand
    BY <1>8, Zenon DEF Hand
  <2>2. CASE queue_ = <<>>
    BY <1>8, <1>u, <2>2 DEF TakeOrEnd
  <2>3. CASE queue_ /= <<>> /\ c = Owner /\ toOut
    <3>1. InOut' = {Head(queue_)}
      BY <1>8, <1>t, <2>3, TailRange, ConstantsAssumption DEF TakeOrEnd, InOut, CellTypes
    <3> QED BY Zenon, <1>8, <1>o, <1>m, <1>q, <2>1, <2>3, <3>1, OwnershipAsSetsNext
            DEF TakeOrEnd, F
  <2>4. CASE queue_ /= <<>> /\ ~(c = Owner /\ toOut)
    <3>1. InOut' = InOut
      BY Zenon, <1>8, <2>4 DEF TakeOrEnd, InOut
    <3>2. Owned(Q \ {Head(queue_)}, F, Hand, InOut,
                [held EXCEPT ![c] = @ \cup {Head(queue_)}], alloc)
      BY Zenon, <1>m, <1>q, <2>4
    <3>3. /\ queue_' = Tail(queue_) /\ free_cells_' = free_cells_ /\ alloc' = alloc
          /\ held' = [held EXCEPT ![c] = @ \cup {Head(queue_)}]
      BY <1>8, <2>4, Zenon DEF TakeOrEnd
    <3> QED BY Zenon, <1>o, <1>q, <2>1, <2>4, <3>1, <3>2, <3>3, OwnershipAsSetsNext DEF F
  <2> QED BY <2>2, <2>3, <2>4
<1>9. ASSUME NEW c \in Consumers, NextLock(c) \/ NextWake(c) PROVE CellOwnership'
  BY SMTT(40), <1>8, <1>9, <1>u DEF NextLock, NextWake
<1>10. ASSUME NEW c \in Consumers, RecycleLock(c) PROVE CellOwnership'
  <2>1. Hand' = Hand
    BY <1>10, Zenon DEF RecycleLock, Hand
  <2>2. CASE c = Owner /\ toOut
    <3>1. /\ InOut' = {} /\ out_data_ \in Cells /\ out_data_ \in InOut
          /\ out_data_ \notin F
      BY <1>10, <1>o, <1>t, <2>2 DEF RecycleLock, InOut, Transit, CellTypes, Owned
    <3>2. Owned(Q, F \cup {out_data_}, Hand, {}, held, alloc)
      BY Zenon, <1>m, <3>1
    <3>3. /\ IsInjective(Append(free_cells_, out_data_))
          /\ Range(Append(free_cells_, out_data_)) = F \cup {out_data_}
      BY <1>a, <3>1, Zenon
    <3>4. /\ queue_' = queue_ /\ free_cells_' = Append(free_cells_, out_data_)
          /\ held' = held /\ alloc' = alloc
      BY <1>10, <2>2, Zenon DEF RecycleLock
    <3> QED BY Zenon, <1>o, <2>1, <3>1, <3>2, <3>3, <3>4, OwnershipAsSetsNext DEF Q
  <2>3. CASE ~(c = Owner /\ toOut)
    <3>1. InOut' = InOut
      BY Zenon, <1>10, <2>3 DEF RecycleLock, InOut
    <3>2. PICK d \in held[c] : /\ free_cells_' = Append(free_cells_, d)
                               /\ held' = [held EXCEPT ![c] = @ \ {d}]
      BY <1>10, <2>3, Zenon DEF RecycleLock
    <3>3. d \in Cells /\ d \notin F
      BY <1>o, <1>t, Zenon DEF CellTypes, Owned
    <3>4. Owned(Q, F \cup {d}, Hand, InOut, [held EXCEPT ![c] = @ \ {d}], alloc)
      BY Zenon, <1>m, <3>2
    <3>5. /\ IsInjective(Append(free_cells_, d))
          /\ Range(Append(free_cells_, d)) = F \cup {d}
      BY <1>a, <3>3
    <3>6. queue_' = queue_ /\ alloc' = alloc
      BY <1>10, Zenon DEF RecycleLock
    <3> QED BY SMTT(40), <1>o, <2>1, <3>1, <3>2, <3>4, <3>5, <3>6, OwnershipAsSetsNext DEF Q
  <2> QED BY <2>2, <2>3, Zenon
<1>11. ASSUME NEW c \in Consumers,
              \/ NextBegin(c) \/ RecycleBegin(c) \/ NextContinue(c)
              \/ NotifyProducer(c) \/ FinishCall(c) \/ ReturnFalse(c)
       PROVE  CellOwnership'
  BY <1>11, <1>u DEF NextBegin, RecycleBegin, NextContinue, NotifyProducer,
     FinishCall, ReturnFalse
<1>12. ASSUME BeforeFirstLock PROVE CellOwnership'
  <2>1. Hand' = Hand /\ InOut' = {}
    BY <1>12, Zenon DEF BeforeFirstLock, Hand, InOut
  <2>2. CASE out_data_ = NULL
    BY <1>12, <1>u, <2>2 DEF BeforeFirstLock, PushFree
  <2>3. CASE out_data_ /= NULL
    <3>1. out_data_ \in Cells /\ out_data_ \in InOut /\ out_data_ \notin F
      BY <1>o, <1>t, <2>3 DEF InOut, CellTypes, Owned
    <3>2. Owned(Q, F \cup {out_data_}, Hand, {}, held, alloc)
      BY Zenon, <1>m, <3>1, ConstantsAssumption
    <3>3. /\ IsInjective(Append(free_cells_, out_data_))
          /\ Range(Append(free_cells_, out_data_)) = F \cup {out_data_}
      BY <1>a, <3>1, Zenon
    <3>4. /\ queue_' = queue_ /\ free_cells_' = Append(free_cells_, out_data_)
          /\ held' = held /\ alloc' = alloc
      BY <1>12, <2>3, Zenon DEF BeforeFirstLock, PushFree
    <3> QED BY Zenon, <1>o, <2>1, <3>2, <3>3, <3>4, OwnershipAsSetsNext DEF Q
  <2> QED BY <2>2, <2>3, Zenon
<1>13. ASSUME DestroyCleanup PROVE CellOwnership'
  <2>1. Hand' = Hand /\ InOut' = {}
    BY <1>13, Zenon DEF DestroyCleanup, Hand, InOut
  <2>2. Owned({}, {}, Hand, {}, held, alloc \ (Q \cup F \cup InOut))
    BY Zenon, <1>m, ConstantsAssumption
  <2>3. /\ queue_' = <<>> /\ free_cells_' = <<>> /\ held' = held
        /\ alloc' = alloc \ (Q \cup F \cup InOut)
    BY <1>13, Zenon DEF DestroyCleanup, Q, F
  <2>4. Owned(Range(queue_'), Range(free_cells_'), Hand', InOut', held', alloc')
    BY Zenon, <1>e, <2>1, <2>2, <2>3
  <2> QED BY Zenon, <1>e, <2>3, <2>4, OwnershipAsSetsNext
<1>14. ASSUME \/ BeforeFirstBegin \/ BeforeFirstWake \/ DestroyBegin
              \/ Init_ \/ SpuriousWakeup \/ UNCHANGED vars
       PROVE  CellOwnership'
  BY <1>14, <1>u, Zenon DEF BeforeFirstBegin, BeforeFirstWake, DestroyBegin, Init_,
     SpuriousWakeup
<1> QED BY SMTT(40), <1>2, <1>3, <1>4, <1>5, <1>6, <1>7, <1>9, <1>10, <1>11, <1>12, <1>13,
           <1>14 DEF Next, ProducerStep, ConsumerStep

\* Every cell has exactly one owner and is not deleted while it has one, for
\* any number of consumers, cells and items: next() never writes into a cell
\* a consumer reads, and no cell is deleted twice.
THEOREM CellsOwned == Spec => []CellOwnership
<1>1. Init => Types /\ CellOwnership
  BY TypesInit, OwnershipInit, Zenon
<1>2. Types /\ CellOwnership /\ [Next]_vars => (Types /\ CellOwnership)'
  BY TypesStep, OwnershipStep, Zenon
<1> QED BY <1>1, <1>2, PTL DEF Spec

(***************************************************************************)
(* Lost cells.                                                             *)
(***************************************************************************)
\* Next(void) runs with out_data_ empty until it takes an item.
OutFree ==
    toOut /\ pc[Owner] \in {"rnot", "rpost", "nbegin", "nlock", "nwait"}
        => out_data_ = NULL

LEMMA OutFreeStep == Types /\ OutFree /\ [Next]_vars => OutFree'
<1> SUFFICES ASSUME Types, OutFree, [Next]_vars PROVE OutFree'
  BY Zenon
<1>t. ThreadTypes /\ SignalTypes
  BY Zenon DEF Types
<1> USE ConstantsAssumption DEF OutFree
<1>1. ASSUME ProducerStep \/ SpuriousWakeup \/ UNCHANGED vars PROVE OutFree'
  BY Zenon, <1>1 DEF ProducerStep, ProducerLock, ProducerWake, ProducerNext,
     ProducerNextThrows, ProducerPush, ProducerNotify, ProducerCatch, ProducerFail,
     SpuriousWakeup
<1>2. ASSUME NEW c \in Consumers, NextBegin(c) \/ RecycleBegin(c) PROVE OutFree'
  BY Zenon, <1>2, <1>t DEF NextBegin, RecycleBegin, EnterNext, Goto, Return, ThreadTypes,
     SignalTypes
<1>3. ASSUME NEW c \in Consumers, NextLock(c) \/ NextWake(c) PROVE OutFree'
  <2>1. CASE c = Owner
    BY Zenon, <1>3, <1>t, <2>1 DEF NextLock, NextWake, TakeOrEnd, Goto, Return, ThreadTypes
  <2>2. CASE c /= Owner
    BY Zenon, <1>3, <1>t, <2>2 DEF NextLock, NextWake, TakeOrEnd, Goto, Return, ThreadTypes
  <2> QED BY <2>1, <2>2
<1>4. ASSUME NEW c \in Consumers, NextContinue(c) \/ NotifyProducer(c) \/ ReturnFalse(c)
      PROVE  OutFree'
  BY Zenon, <1>4, <1>t DEF NextContinue, NotifyProducer, ReturnFalse, EnterNext, Goto, Return,
     ThreadTypes
<1>5. ASSUME NEW c \in Consumers, RecycleLock(c) PROVE OutFree'
  BY <1>5, <1>t, Zenon DEF RecycleLock, Goto, ThreadTypes
<1>6. ASSUME NEW c \in Consumers, FinishCall(c) PROVE OutFree'
  <2>1. CASE c /= Owner
    <3>1. pc'[Owner] = pc[Owner]
      BY <1>6, <1>t, <2>1 DEF FinishCall, Goto, Return, ThreadTypes
    <3> QED BY <1>6, <3>1, Zenon DEF FinishCall
  <2>2. CASE c = Owner
    <3>1. \/ pc' = [pc EXCEPT ![Owner] = "idle"] \/ pc' = [pc EXCEPT ![Owner] = "false"]
          \/ pc[Owner] = "rpost" /\ pc' = [pc EXCEPT ![Owner] = "nbegin"]
      BY Zenon, <1>6, <2>2 DEF FinishCall, Goto, Return
    <3>2. \/ pc'[Owner] \in {"idle", "false"}
          \/ pc[Owner] = "rpost" /\ pc'[Owner] = "nbegin"
      BY <1>t, <3>1 DEF ThreadTypes
    <3> QED BY <1>6, <3>2, Zenon DEF FinishCall
  <2> QED BY <2>1, <2>2, Zenon
<1>7. ASSUME \/ BeforeFirstBegin \/ BeforeFirstLock \/ BeforeFirstWake \/ DestroyBegin
             \/ DestroyCleanup \/ Init_
      PROVE  OutFree'
  BY Zenon, <1>7, <1>t DEF BeforeFirstBegin, BeforeFirstLock, BeforeFirstWake, DestroyBegin,
     DestroyCleanup, Init_, Goto, Return, ThreadTypes
<1> QED BY Zenon, <1>1, <1>2, <1>3, <1>4, <1>5, <1>6, <1>7 DEF Next, ConsumerStep

\* Some part of the iterator or some caller has the cell.
Home(x) == \/ x \in Range(queue_) \/ x \in Range(free_cells_) \/ x \in Hand
           \/ x \in InOut \/ \E c \in Consumers : x \in held[c]

\* A step that loses no cell.
Kept == \A x \in alloc' : /\ x \notin alloc => Home(x)'
                          /\ Home(x) => Home(x)'

LEMMA KeptLeaksNothing == Kept => Leaked' \subseteq Leaked
<1>1. \A x : x \in Reachable <=> Home(x)
  BY Zenon DEF Reachable, Home
<1>2. \A x : x \in Reachable' <=> Home(x)'
  BY Zenon DEF Reachable, Home
<1> QED BY <1>1, <1>2, Zenon DEF Kept, Leaked

LEMMA KeptStep ==
    Types /\ OutFree /\ [Next]_vars => Kept \/ (ppc = "next" /\ ppc' = "catch")
<1> SUFFICES ASSUME Types, OutFree, [Next]_vars, ~(ppc = "next" /\ ppc' = "catch")
             PROVE  Kept
  BY Zenon
<1>t. CellTypes /\ Transit /\ ThreadTypes
  BY Zenon DEF Types
<1>c. /\ Range(free_cells_ \o queue_) = Range(free_cells_) \cup Range(queue_)
      /\ \A x \in Cells : /\ Range(Append(queue_, x)) = Range(queue_) \cup {x}
                          /\ Range(Append(free_cells_, x)) = Range(free_cells_) \cup {x}
  BY <1>t, ConcatRange, AppendRange DEF CellTypes
<1>q. queue_ /= <<>> => /\ Head(queue_) \in Cells
                        /\ Range(queue_) = Range(Tail(queue_)) \cup {Head(queue_)}
  BY <1>t, TailRange DEF CellTypes
<1>f. free_cells_ /= <<>> =>
         /\ Head(free_cells_) \in Cells
         /\ Range(free_cells_) = Range(Tail(free_cells_)) \cup {Head(free_cells_)}
  BY <1>t, TailRange, Zenon DEF CellTypes
<1>e. Range(<<>>) = {}
  BY DEF Range
<1>u. ASSUME UNCHANGED <<queueVars, cellVars, cell>> PROVE Kept
  BY Zenon, <1>u DEF Kept, Home, Hand, InOut
<1>d. ASSUME ClearQueue, UNCHANGED <<cellVars, cell>> PROVE Kept
  <2>1. Range(free_cells_') = Range(free_cells_) \cup Range(queue_)
    BY <1>d, <1>c DEF ClearQueue
  <2> QED BY Zenon, <1>d, <2>1 DEF Kept, Home, Hand, InOut
<1>1. ASSUME ProducerActs, UNCHANGED cellVars, ppc \in {"lock", "wait"} PROVE Kept
  <2>1. cell = NULL
    BY <1>1, <1>t, Zenon DEF Transit
  <2>2. CASE PopFreeCell /\ free_cells_ /= <<>>
    <3>1. /\ queue_' = queue_ /\ held' = held /\ InOut' = InOut /\ alloc' = alloc
          /\ Hand = {} /\ Hand' = {Head(free_cells_)}
          /\ free_cells_' = Tail(free_cells_)
      BY SMTT(40), <1>1, <1>f, <2>1, <2>2, ConstantsAssumption DEF PopFreeCell, Hand, InOut
    <3> QED BY <1>f, <2>2, <3>1 DEF Kept, Home
  <2>3. CASE ResetProducer
    BY <1>1, <1>d, <2>1, <2>3 DEF ResetProducer
  <2>4. CASE \/ PopFreeCell /\ free_cells_ = <<>>
             \/ ResetProducerThrows \/ DestroyThread
    BY <1>1, <1>u, <2>1, <2>4 DEF PopFreeCell, ResetProducerThrows, DestroyThread
  <2> QED BY <1>1, <2>2, <2>3, <2>4 DEF ProducerActs
<1>2. ASSUME ProducerLock \/ ProducerWake PROVE Kept
  <2>1. CASE ProducerActs
    BY <1>1, <1>2, <2>1 DEF ProducerLock, ProducerWake
  <2>2. CASE ~ProducerActs
    BY <1>2, <1>u, <2>2 DEF ProducerLock, ProducerWake
  <2> QED BY <2>1, <2>2, Zenon
<1>3. ASSUME ProducerNext PROVE Kept
  <2>1. CASE UNCHANGED <<cell, alloc>>
    BY <1>3, <1>u, <2>1 DEF ProducerNext
  <2>2. CASE ~UNCHANGED <<cell, alloc>>
    <3>1. /\ alloc' = alloc \cup {cell'} /\ cell' /= NULL
          /\ cell /= NULL => cell' = cell
      BY <1>3, <1>t, <2>2, ConstantsAssumption DEF ProducerNext, CellTypes
    <3>2. Hand' = {cell'} /\ Hand \subseteq Hand'
      BY <3>1, Zenon DEF Hand
    <3>3. UNCHANGED <<queueVars, held, InOut>>
      BY <1>3, Zenon DEF ProducerNext, InOut
    <3> QED BY <3>1, <3>2, <3>3 DEF Kept, Home
  <2> QED BY <2>1, <2>2, Zenon
<1>4. ASSUME ProducerPush PROVE Kept
  <2>1. CASE cell = NULL
    BY <1>4, <1>t, <1>u, <2>1 DEF ProducerPush, PushFree, Transit
  <2>2. CASE cell /= NULL
    <3>1. /\ Hand = {cell} /\ Hand' = {} /\ UNCHANGED <<held, InOut, alloc>>
      BY <1>4, <2>2, Zenon DEF ProducerPush, Hand, InOut
    <3>2. \/ /\ Range(queue_') = Range(queue_) \cup {cell} /\ free_cells_' = free_cells_
          \/ /\ Range(free_cells_') = Range(free_cells_) \cup {cell} /\ queue_' = queue_
      BY Zenon, <1>4, <1>c, <1>t, <2>2 DEF ProducerPush, PushFree, CellTypes
    <3> QED BY <3>1, <3>2, Zenon DEF Kept, Home
  <2> QED BY <2>1, <2>2
<1>5. ASSUME ProducerFail PROVE Kept
  BY <1>5, <1>d, <1>u DEF ProducerFail
<1>6. ASSUME ProducerNextThrows PROVE Kept
  BY <1>6, Zenon DEF ProducerNextThrows
<1>7. ASSUME NEW c \in Consumers, NextLock(c) \/ NextWake(c) PROVE Kept
  <2>1. CASE UNCHANGED <<queue_, held, out_data_>>
    BY <1>7, <1>u, <2>1 DEF NextLock, NextWake
  <2>2. CASE ~UNCHANGED <<queue_, held, out_data_>>
    <3>1. /\ queue_ /= <<>> /\ queue_' = Tail(queue_)
          /\ \/ c = Owner /\ toOut /\ out_data_' = Head(queue_) /\ held' = held
             \/ /\ held' = [held EXCEPT ![c] = @ \cup {Head(queue_)}]
                /\ out_data_' = out_data_
      BY Zenon, <1>7, <2>2 DEF NextLock, NextWake, TakeOrEnd
    <3>2. UNCHANGED <<free_cells_, alloc, Hand>>
      BY <1>7, Zenon DEF NextLock, NextWake, Hand
    <3>3. CASE c = Owner /\ toOut /\ out_data_' = Head(queue_) /\ held' = held
      <4>1. out_data_ = NULL
        BY Zenon, <1>7, <3>3 DEF OutFree, NextLock, NextWake
      <4>2. InOut = {} /\ InOut' = {Head(queue_)}
        BY SMTT(40), <1>q, <3>1, <3>3, <4>1, ConstantsAssumption DEF InOut
      <4> QED BY <1>q, <3>1, <3>2, <3>3, <4>2 DEF Kept, Home
    <3>4. CASE /\ held' = [held EXCEPT ![c] = @ \cup {Head(queue_)}]
               /\ out_data_' = out_data_
      <4>1. /\ \A d \in Consumers : held[d] \subseteq held'[d]
            /\ Head(queue_) \in held'[c] /\ InOut' = InOut
        BY <1>t, <3>4 DEF CellTypes, InOut
      <4> QED BY <1>q, <3>1, <3>2, <4>1 DEF Kept, Home
    <3> QED BY <3>1, <3>3, <3>4
  <2> QED BY <2>1, <2>2, Zenon
<1>8. ASSUME NEW c \in Consumers, RecycleLock(c) PROVE Kept
  <2>1. UNCHANGED <<queue_, alloc, Hand>>
    BY <1>8, Zenon DEF RecycleLock, Hand
  <2>2. CASE c = Owner /\ toOut
    <3>1. /\ out_data_ \in Cells /\ free_cells_' = Append(free_cells_, out_data_)
          /\ out_data_' = NULL /\ held' = held
      BY <1>8, <1>t, <2>2 DEF RecycleLock, Transit, CellTypes
    <3>2. /\ Range(free_cells_') = Range(free_cells_) \cup {out_data_}
          /\ InOut \subseteq {out_data_}
      BY <1>c, <3>1, Zenon DEF InOut
    <3> QED BY <2>1, <3>1, <3>2 DEF Kept, Home
  <2>3. CASE ~(c = Owner /\ toOut)
    <3>1. PICK d \in held[c] : /\ free_cells_' = Append(free_cells_, d)
                               /\ held' = [held EXCEPT ![c] = @ \ {d}]
                               /\ out_data_' = out_data_
      BY Zenon, <1>8, <2>3 DEF RecycleLock
    <3>2. d \in Cells
      BY <1>t, Zenon DEF CellTypes
    <3>3. Range(free_cells_') = Range(free_cells_) \cup {d} /\ InOut' = InOut
      BY <1>c, <3>1, <3>2 DEF InOut
    <3>4. \A b \in Consumers : held[b] \subseteq held'[b] \cup {d}
      BY <1>t, <3>1, Zenon DEF CellTypes
    <3> QED BY <2>1, <3>3, <3>4 DEF Kept, Home
  <2> QED BY <2>2, <2>3, Zenon
<1>9. ASSUME BeforeFirstLock PROVE Kept
  <2>1. UNCHANGED <<queue_, alloc, Hand, held>>
    BY <1>9, Zenon DEF BeforeFirstLock, Hand
  <2>2. Range(free_cells_') = Range(free_cells_) \cup InOut
    BY <1>9, <1>c, <1>t DEF BeforeFirstLock, PushFree, InOut, CellTypes
  <2> QED BY <2>1, <2>2, Zenon DEF Kept, Home
<1>10. ASSUME DestroyCleanup PROVE Kept
  <2>1. /\ alloc' = alloc \ (Range(queue_) \cup Range(free_cells_) \cup InOut)
        /\ UNCHANGED <<Hand, held>>
    BY <1>10, Zenon DEF DestroyCleanup, Hand
  <2> QED BY <2>1, Zenon DEF Kept, Home
<1>11. ASSUME \/ BeforeFirstBegin \/ BeforeFirstWake \/ DestroyBegin \/ Init_
              \/ SpuriousWakeup \/ ProducerNotify \/ ProducerCatch \/ UNCHANGED vars
       PROVE  Kept
  BY Zenon, <1>11, <1>u DEF BeforeFirstBegin, BeforeFirstWake, DestroyBegin, Init_,
     SpuriousWakeup, ProducerNotify, ProducerCatch
<1>12. ASSUME NEW c \in Consumers,
              \/ NextBegin(c) \/ RecycleBegin(c) \/ NextContinue(c)
              \/ NotifyProducer(c) \/ FinishCall(c) \/ ReturnFalse(c)
       PROVE  Kept
  BY Zenon, <1>12, <1>u DEF NextBegin, RecycleBegin, NextContinue, NotifyProducer,
     FinishCall, ReturnFalse
<1> QED BY SMTT(40), <1>2, <1>3, <1>4, <1>5, <1>6, <1>7, <1>8, <1>9, <1>10, <1>11,
           <1>12 DEF Next, ProducerStep, ConsumerStep

\* LeakOnlyOnThrow: the cell in the producer's hand when next() raises is the
\* only one the iterator ever loses track of.
THEOREM LostCells == Spec => LeakOnlyOnThrow
<1>1. Init => Types /\ OutFree
  BY TypesInit, Zenon DEF Init, OutFree
<1>2. Types /\ OutFree /\ [Next]_vars => (Types /\ OutFree)'
  BY TypesStep, OutFreeStep
<1>3. Types /\ OutFree /\ [Next]_vars =>
         [Leaked' \subseteq Leaked \/ (ppc = "next" /\ ppc' = "catch")]_vars
  BY Zenon, KeptStep, KeptLeaksNothing
<1> QED BY <1>1, <1>2, <1>3, PTL DEF Spec, LeakOnlyOnThrow
=============================================================================
