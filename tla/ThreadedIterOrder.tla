------------------------- MODULE ThreadedIterOrder -------------------------
(* The request protocol of ThreadedIter and its condition variables, and what its
   callers get: the items in order, to the end. *)
EXTENDS ThreadedIterProofs

USE DEF vars, queueVars, sigVars, countVars, cellVars, dataVars, prodVars,
        callVars

(***************************************************************************)
(* The protocol between the callers and the producer: who may be inside    *)
(* which call, and what a pending or answered request implies.             *)
(***************************************************************************)
Calls ==
    /\ pc[Owner] \in OwnerPcs => \A c \in Consumers : pc[c] \notin NextPcs
    /\ pc[Owner] = "djoin" =>
          /\ producer_sig_ = "kDestroy"
          /\ \A c \in Consumers \ {Owner} : pc[c] = "idle"
    /\ producer_sig_ = "none" => \A c \in Consumers : pc[c] = "idle"
    /\ \A c \in Consumers : pc[c] \in NextPcs \ {"nbegin"} => producer_sig_ = "kProduce"

Request ==
    /\ producer_sig_processed_ /\ producer_sig_ /= "kDestroy" => pc[Owner] = "bwait"
    /\ producer_sig_ = "kBeforeFirst" =>
          /\ pc[Owner] = "bwait" \/ iter_exception_
          /\ producer_sig_processed_ => iter_exception_
          /\ ppc \notin {"enotify", "exit"} =>
                pc[Owner] = "bwait" /\ ~producer_sig_processed_

Termination ==
    /\ ppc \in {"catch2", "enotify"} => iter_exception_
    /\ ppc = "exit" => iter_exception_ \/ producer_sig_ = "kDestroy"
    /\ ppc = "none" => producer_sig_ \in {"none", "kDestroy"}
    /\ ppc = "dnotify" => producer_sig_ = "kDestroy"
    /\ (produce_end_ /\ ~iter_exception_ /\ producer_sig_ = "kProduce") =>
          pos = NItems /\ ppc \in {"push", "notify", "lock", "wait"}

Asleep ==
    /\ Producer \in waiting => ppc = "wait"
    /\ \A c \in Consumers : c \in waiting => pc[c] \in {"nwait", "bwait"}

Protocol == Calls /\ Request /\ Termination /\ Asleep

LEMMA CallsStep == Types /\ Protocol /\ Next => Calls'
<1> SUFFICES ASSUME Types, Protocol, Next PROVE Calls'
  BY Zenon
<1>t. Calls /\ Request /\ ThreadTypes /\ SignalTypes
  BY Zenon DEF Types, Protocol
<1> USE ConstantsAssumption DEF Calls
<1>1. ASSUME ProducerStep PROVE Calls'
  BY ZenonT(40), <1>t, <1>1 DEF ProducerStep, ProducerLock, ProducerWake, ProducerNext,
     ProducerNextThrows, ProducerPush, ProducerNotify, ProducerCatch,
     ProducerFail, ProducerActs, PopFreeCell, ResetProducer,
     ResetProducerThrows, DestroyThread, Request
<1>2. ASSUME NEW c \in Consumers, NextBegin(c) \/ RecycleBegin(c) \/ ConsumerStep(c)
      PROVE  Calls'
  <2>1. CASE NextBegin(c) \/ RecycleBegin(c) \/ NextContinue(c) \/ RecycleLock(c)
    BY <1>t, <2>1 DEF NextBegin, RecycleBegin, NextContinue, RecycleLock, EnterNext, Goto, Return,
       Idle, OwnerCall, Request, ThreadTypes, NextPcs, RecyclePcs, OwnerPcs, SignalTypes
  <2>2. CASE NextLock(c)
    BY <1>t, <2>2 DEF NextLock, TakeOrEnd, Goto, Return, OwnerCall, Request,
       ThreadTypes, NextPcs, RecyclePcs, OwnerPcs, SignalTypes
  <2>4. CASE NextWake(c)
    BY <1>t, <2>4 DEF NextWake, TakeOrEnd, Goto, Return, OwnerCall, Request,
       ThreadTypes, NextPcs, RecyclePcs, OwnerPcs, SignalTypes
  <2>3. CASE NotifyProducer(c) \/ FinishCall(c) \/ ReturnFalse(c)
    BY <1>t, <2>3 DEF NotifyProducer, FinishCall, ReturnFalse, Goto, Return, OwnerCall, Request,
       ThreadTypes, NextPcs, RecyclePcs, OwnerPcs, SignalTypes
  <2> HIDE DEF Calls
  <2> QED BY <1>2, <2>1, <2>2, <2>3, <2>4, Zenon DEF ConsumerStep
<1>3. ASSUME \/ BeforeFirstBegin \/ BeforeFirstLock \/ BeforeFirstWake
             \/ DestroyBegin \/ DestroyCleanup \/ Init_ \/ SpuriousWakeup
      PROVE  Calls'
  BY <1>t, <1>3 DEF BeforeFirstBegin, BeforeFirstLock, BeforeFirstWake,
     DestroyBegin, DestroyCleanup, Init_, SpuriousWakeup, Goto, Return, Idle,
     Quiet, Request, ThreadTypes, NextPcs, RecyclePcs, OwnerPcs
<1> QED BY <1>1, <1>2, <1>3 DEF Next

LEMMA RequestStep == Types /\ Protocol /\ Next => Request'
<1> SUFFICES ASSUME Types, Protocol, Next PROVE Request'
  BY Zenon
<1>t. Calls /\ Request /\ Termination /\ ThreadTypes /\ SignalTypes
  BY Zenon DEF Types, Protocol
<1> USE ConstantsAssumption DEF Request
<1>u. ASSUME UNCHANGED <<sigVars, iter_exception_, ppc>>, pc'[Owner] = pc[Owner]
      PROVE  Request'
  BY <1>t, <1>u
<1>1. ASSUME ProducerActs, UNCHANGED <<pc, iter_exception_>>, ppc \in {"lock", "wait"}
      PROVE  Request'
  BY <1>t, <1>1 DEF ProducerActs, PopFreeCell, ResetProducer,
     ResetProducerThrows, DestroyThread
<1>2. ASSUME ProducerLock \/ ProducerWake PROVE Request'
  <2>1. CASE ProducerActs
    BY <1>1, <1>2, <2>1 DEF ProducerLock, ProducerWake
  <2>2. CASE UNCHANGED sigVars /\ ppc' = "wait"
    BY <1>t, <1>2, <2>2 DEF ProducerLock, ProducerWake
  <2> QED BY <1>2, <2>1, <2>2 DEF ProducerLock, ProducerWake
<1>3. ASSUME ProducerNext \/ ProducerNextThrows \/ ProducerPush PROVE Request'
  BY <1>t, <1>3 DEF ProducerNext, ProducerNextThrows, ProducerPush
<1>4. ASSUME ProducerNotify PROVE Request'
  BY <1>t, <1>4 DEF ProducerNotify, Termination
<1>5. ASSUME ProducerCatch PROVE Request'
  BY <1>t, <1>5 DEF ProducerCatch
<1>6. ASSUME ProducerFail PROVE Request'
  BY <1>t, <1>6 DEF ProducerFail, Termination
<1>7. ASSUME NEW c \in Consumers, NextBegin(c) \/ RecycleBegin(c) \/ ConsumerStep(c)
      PROVE  Request'
  <2>1. UNCHANGED <<sigVars, iter_exception_, ppc>>
    BY <1>t, <1>7, ConsumerFrame
  <2>2. pc'[Owner] /= pc[Owner] => pc[Owner] /= "bwait"
    BY ZenonT(40), <1>t, <1>7 DEF NextBegin, RecycleBegin, ConsumerStep, NextContinue, NextLock,
       NextWake, NotifyProducer, FinishCall, ReturnFalse, RecycleLock, TakeOrEnd,
       EnterNext, Goto, Return, Idle, ThreadTypes
  <2> QED BY <1>t, <2>1, <2>2
<1>8. ASSUME BeforeFirstBegin PROVE Request'
  BY <1>t, <1>8 DEF BeforeFirstBegin, Idle, Goto, Return, ThreadTypes
<1>9. ASSUME BeforeFirstLock PROVE Request'
  BY <1>t, <1>9 DEF BeforeFirstLock, Goto, Return, ThreadTypes
<1>10. ASSUME BeforeFirstWake PROVE Request'
  BY <1>t, <1>10 DEF BeforeFirstWake, Goto, ThreadTypes
<1>11. ASSUME DestroyBegin PROVE Request'
  BY <1>t, <1>11 DEF DestroyBegin
<1>12. ASSUME DestroyCleanup PROVE Request'
  BY <1>t, <1>12, Zenon DEF DestroyCleanup, Goto, Return, ThreadTypes, Quiet, Idle, Calls,
     Transit, Types
<1>13. ASSUME Init_ PROVE Request'
  BY <1>13, Zenon DEF Init_
<1>14. ASSUME SpuriousWakeup PROVE Request'
  BY <1>14, <1>u DEF SpuriousWakeup
<1> HIDE DEF Request
<1>15. CASE ProducerStep
  BY <1>2, <1>3, <1>4, <1>5, <1>6, <1>15, Zenon DEF ProducerStep
<1> QED BY <1>7, <1>8, <1>9, <1>10, <1>11, <1>12, <1>13, <1>14, <1>15, ZenonT(40) DEF Next

LEMMA TerminationStep == Types /\ Protocol /\ Next => Termination'
<1> SUFFICES ASSUME Types, Protocol, Next PROVE Termination'
  BY Zenon
<1>t. Calls /\ Request /\ Termination /\ ThreadTypes /\ SignalTypes /\ Transit
  BY Zenon DEF Types, Protocol
<1> USE ConstantsAssumption DEF Termination
<1>u. ASSUME UNCHANGED <<sigVars, iter_exception_, ppc, pos>> PROVE Termination'
  BY <1>t, <1>u
<1>1. ASSUME ProducerActs, ProducerPredicate, UNCHANGED iter_exception_,
             ppc \in {"lock", "wait"}
      PROVE  Termination'
  BY <1>t, <1>1 DEF ProducerActs, PopFreeCell, ResetProducer,
     ResetProducerThrows, DestroyThread, ProducerPredicate
<1>2. ASSUME ProducerLock \/ ProducerWake PROVE Termination'
  <2>1. CASE ProducerActs /\ ProducerPredicate
    BY <1>1, <1>2, <2>1 DEF ProducerLock, ProducerWake
  <2>2. CASE UNCHANGED <<sigVars, dataVars>> /\ ppc' = "wait"
    BY <1>t, <1>2, <2>2 DEF ProducerLock, ProducerWake
  <2> QED BY <1>2, <2>1, <2>2 DEF ProducerLock, ProducerWake
<1>3. ASSUME ProducerNext PROVE Termination'
  BY <1>t, <1>3, Zenon DEF ProducerNext
<1>4. ASSUME ProducerNextThrows \/ ProducerPush PROVE Termination'
  BY <1>t, <1>4 DEF ProducerNextThrows, ProducerPush
<1>5. ASSUME ProducerNotify PROVE Termination'
  BY <1>t, <1>5, Zenon DEF ProducerNotify
<1>6. ASSUME ProducerCatch \/ ProducerFail PROVE Termination'
  BY <1>t, <1>6 DEF ProducerCatch, ProducerFail
<1>7. ASSUME NEW c \in Consumers, NextBegin(c) \/ RecycleBegin(c) \/ ConsumerStep(c)
      PROVE  Termination'
  <2>1. UNCHANGED <<sigVars, iter_exception_, ppc, pos>>
    BY <1>t, <1>7, ConsumerFrame
  <2> QED BY <1>u, <2>1, Zenon
<1>8. ASSUME BeforeFirstBegin \/ SpuriousWakeup PROVE Termination'
  BY <1>u, <1>8 DEF BeforeFirstBegin, SpuriousWakeup
<1>9. ASSUME BeforeFirstLock PROVE Termination'
  BY <1>t, <1>9, Zenon DEF BeforeFirstLock, Calls
<1>10. ASSUME BeforeFirstWake PROVE Termination'
  BY <1>t, <1>10, Zenon DEF BeforeFirstWake
<1>11. ASSUME DestroyBegin PROVE Termination'
  BY <1>t, <1>11 DEF DestroyBegin
<1>12. ASSUME DestroyCleanup PROVE Termination'
  BY <1>t, <1>12, Zenon DEF DestroyCleanup, Calls, Transit
<1>13. ASSUME Init_ PROVE Termination'
  BY <1>13, Zenon DEF Init_
<1> HIDE DEF Termination
<1>14. CASE ProducerStep
  BY <1>2, <1>3, <1>4, <1>5, <1>6, <1>14, Zenon DEF ProducerStep
<1> QED BY <1>7, <1>8, <1>9, <1>10, <1>11, <1>12, <1>13, <1>14, ZenonT(40) DEF Next

LEMMA AsleepStep == Types /\ Protocol /\ Next => Asleep'
<1> SUFFICES ASSUME Types, Protocol, Next PROVE Asleep'
  BY Zenon
<1>t. Calls /\ Asleep /\ Transit /\ ThreadTypes
  BY Zenon DEF Types, Protocol
<1> USE ConstantsAssumption DEF Asleep
<1>1. ASSUME ProducerStep PROVE Asleep'
  BY ZenonT(40), <1>t, <1>1 DEF ProducerStep, ProducerLock, ProducerWake, ProducerNext,
     ProducerNextThrows, ProducerPush, ProducerNotify, ProducerCatch,
     ProducerFail, ProducerActs, PopFreeCell, ResetProducer,
     ResetProducerThrows, DestroyThread, ThreadTypes, Producer, ProducerPcs
<1>2. ASSUME NEW c \in Consumers, NextBegin(c) \/ RecycleBegin(c) \/ ConsumerStep(c)
      PROVE  Asleep'
  <2>1. ppc' = ppc /\ OnlyMoves(c)
    BY <1>t, <1>2, ConsumerFrame
  <2>2. waiting' \subseteq waiting \cup {c}
    BY <1>t, <1>2, ConsumerFrame
  <2>3. c \in waiting' => pc'[c] \in {"nwait", "bwait"}
    <3>1. CASE NextLock(c)
      BY <1>t, <3>1, Zenon DEF NextLock, Goto, ThreadTypes
    <3>2. CASE NextWake(c)
      BY <1>t, <3>2 DEF NextWake
    <3>3. CASE ~NextLock(c) /\ ~NextWake(c)
      <4>1. pc[c] \notin {"nwait", "bwait"} /\ waiting' \subseteq waiting
        BY <1>2, <3>3 DEF NextBegin, RecycleBegin, ConsumerStep, NextContinue,
           NotifyProducer, FinishCall, ReturnFalse, RecycleLock, Idle
      <4> QED BY <1>t, <4>1, Zenon
    <3> QED BY <3>1, <3>2, <3>3
  <2> QED BY <1>t, <2>1, <2>2, <2>3 DEF Producer, OnlyMoves
<1>3. ASSUME \/ BeforeFirstBegin \/ BeforeFirstLock \/ BeforeFirstWake
             \/ DestroyBegin \/ DestroyCleanup \/ Init_ \/ SpuriousWakeup
      PROVE  Asleep'
  <2>1. CASE BeforeFirstBegin
    BY <1>t, <2>1 DEF BeforeFirstBegin, Goto, Return, Idle, Quiet, Calls, Producer, ThreadTypes
  <2>4. CASE BeforeFirstLock
    BY <1>t, <2>4 DEF BeforeFirstLock, Goto, Return, Calls, Producer, ThreadTypes
  <2>5. CASE BeforeFirstWake
    BY <1>t, <2>5 DEF BeforeFirstWake, Goto, Return, Calls, Producer, ThreadTypes
  <2>2. CASE DestroyBegin \/ DestroyCleanup
    BY <1>t, <2>2 DEF DestroyBegin, DestroyCleanup, Goto, Return, Idle, Quiet, Calls, Transit,
       Producer, ThreadTypes, NextPcs, RecyclePcs, OwnerPcs
  <2>3. CASE Init_ \/ SpuriousWakeup
    BY <1>t, <2>3 DEF Init_, SpuriousWakeup, Goto, Return, Idle, Quiet, Calls, Transit, Producer,
       ThreadTypes, OwnerPcs
  <2> QED BY <1>3, <2>1, <2>2, <2>3, <2>4, <2>5
<1> QED BY <1>1, <1>2, <1>3 DEF Next

LEMMA ProtocolInit == Init => Protocol
  BY ConstantsAssumption, Zenon DEF Init, Protocol, Calls, Request, Termination, Asleep,
     OwnerPcs, NextPcs

LEMMA ProtocolStep == Types /\ Protocol /\ [Next]_vars => Protocol'
<1>1. Types /\ Protocol /\ Next => Protocol'
  BY CallsStep, RequestStep, TerminationStep, AsleepStep DEF Protocol
<1>2. Protocol /\ UNCHANGED vars => Protocol'
  BY DEF Protocol, Calls, Request, Termination, Asleep
<1> QED BY <1>1, <1>2, Zenon

(***************************************************************************)
(* No lost wake-up.                                                        *)
(***************************************************************************)
Notifying == \E c \in Consumers : pc[c] \in {"nnot", "rnot", "bnot"}

ProducerWoken == (Producer \in waiting /\ ProducerPredicate) => Notifying

ConsumersWoken ==
    \A c \in Consumers :
        (c \in waiting /\ pc[c] = "nwait" /\ NextPredicate)
            => \/ ppc \in {"notify", "bfnotify", "dnotify", "enotify"}
               \/ ppc = "push" /\ produce_end_

OwnerWoken ==
    (Owner \in waiting /\ pc[Owner] = "bwait" /\ producer_sig_processed_)
        => ppc \in {"bfnotify", "dnotify", "enotify"}

LEMMA ProducerWokenStep ==
    Types /\ Counters /\ Protocol /\ ProducerWoken /\ Next => ProducerWoken'
<1> SUFFICES ASSUME Types, Counters, Protocol, ProducerWoken, Next,
                    Producer \in waiting', ProducerPredicate'
             PROVE  Notifying'
  BY Zenon DEF ProducerWoken
<1>t. /\ ThreadTypes /\ Calls /\ Request /\ Asleep /\ Transit /\ CellTypes
      /\ SignalTypes
  BY Zenon DEF Types, Protocol
<1> USE ConstantsAssumption
<1>w. Producer \in waiting => nwait_producer_ /= 0 /\ ppc = "wait"
  BY <1>t DEF Asleep, Counters
<1>n. ASSUME NEW c \in Consumers, pc'[c] \in {"nnot", "rnot", "bnot"} PROVE Notifying'
  BY <1>n, Zenon DEF Notifying
<1>k. ASSUME NEW c \in Consumers, pc[c] \notin {"nnot", "rnot", "bnot"},
             OnlyMoves(c), Notifying
      PROVE  Notifying'
  BY <1>k, Zenon DEF Notifying, OnlyMoves
<1>1. ASSUME ProducerStep PROVE FALSE
  <2>1. ppc' = "wait"
    <3>1. Asleep'
      BY ProtocolStep, Zenon DEF Protocol
    <3> QED BY <3>1, Zenon DEF Asleep
  <2>2. ~ProducerPredicate /\ UNCHANGED <<queueVars, sigVars>>
    BY ZenonT(40), <1>1, <2>1 DEF ProducerStep, ProducerLock, ProducerWake, ProducerNext,
       ProducerNextThrows, ProducerPush, ProducerNotify, ProducerCatch, ProducerFail,
       ProducerActs, PopFreeCell, ResetProducer, ResetProducerThrows, DestroyThread
  <2> QED BY <2>2, Zenon DEF ProducerPredicate
<1>2. ASSUME NEW c \in Consumers, TakeOrEnd(c), pc[c] \in {"nlock", "nwait"},
             UNCHANGED <<free_cells_, sigVars, nwait_producer_, waiting>>
      PROVE  Notifying'
  <2>1. OnlyMoves(c)
    BY <1>2, <1>t DEF TakeOrEnd, Goto, OnlyMoves, ThreadTypes
  <2>2. CASE ProducerPredicate
    BY <1>2, <1>k, <2>1, <2>2 DEF ProducerWoken
  <2>3. CASE ~ProducerPredicate
    <3>1. queue_ /= <<>> /\ ~produce_end_
      BY <1>2, <2>3, Zenon DEF TakeOrEnd, ProducerPredicate
    <3>2. pc'[c] = "nnot"
      BY <1>2, <1>t, <1>w, <3>1 DEF TakeOrEnd, NotifyNeeded, Goto, ThreadTypes
    <3> QED BY <3>2, <1>n, Zenon
  <2> QED BY <2>2, <2>3, Zenon
<1>3. ASSUME NEW c \in Consumers, NextLock(c) \/ NextWake(c) PROVE Notifying'
  <2>1. CASE TakeOrEnd(c) /\ UNCHANGED waiting
    BY <1>2, <1>3, <2>1 DEF NextLock, NextWake
  <2>2. CASE ~TakeOrEnd(c) \/ waiting' /= waiting
    <3>1. UNCHANGED <<queueVars, sigVars>> /\ waiting' \subseteq waiting \cup {c}
      BY <1>3, <2>2, Zenon DEF NextLock, NextWake
    <3>2. OnlyMoves(c) /\ pc[c] \notin {"nnot", "rnot", "bnot"}
      <4>1. OnlyMoves(c)
        BY <1>3, <1>t, ConsumerFrame, Zenon DEF ConsumerStep
      <4>2. pc[c] \notin {"nnot", "rnot", "bnot"}
        BY <1>3, Zenon DEF NextLock, NextWake
      <4> QED BY <4>1, <4>2, Zenon
    <3>3. Producer \in waiting
      BY <3>1, Zenon DEF Producer
    <3> QED BY SMTT(40), <3>1, <3>2, <3>3, <1>k DEF ProducerWoken, ProducerPredicate
  <2> QED BY <2>1, <2>2, Zenon
<1>4. ASSUME NEW c \in Consumers, RecycleLock(c) PROVE Notifying'
  <2>1. OnlyMoves(c) /\ pc[c] = "rlock"
    BY <1>4, <1>t, Zenon DEF RecycleLock, Goto, OnlyMoves, ThreadTypes
  <2>2. CASE ProducerPredicate
    BY <1>4, <1>k, <2>1, <2>2 DEF ProducerWoken, RecycleLock
  <2>3. CASE ~ProducerPredicate
    <3>1. ~produce_end_
      BY <1>4, <2>3 DEF RecycleLock, ProducerPredicate
    <3>2. pc'[c] = "rnot"
      BY <1>4, <1>t, <1>w, <3>1 DEF RecycleLock, NotifyNeeded, Goto, ThreadTypes
    <3> QED BY <3>2, <1>n, Zenon
  <2> QED BY <2>2, <2>3, Zenon
<1>5. ASSUME NEW c \in Consumers, NotifyProducer(c) PROVE FALSE
  BY <1>5, Zenon DEF NotifyProducer
<1>6. ASSUME NEW c \in Consumers,
             \/ NextBegin(c) \/ RecycleBegin(c) \/ NextContinue(c)
             \/ FinishCall(c) \/ ReturnFalse(c)
      PROVE  Notifying'
  <2>1. OnlyMoves(c) /\ pc[c] \notin {"nnot", "rnot", "bnot"}
    <3>1. OnlyMoves(c)
      BY <1>6, <1>t, ConsumerFrame, Zenon DEF ConsumerStep
    <3>2. pc[c] \notin {"nnot", "rnot", "bnot"}
      BY <1>6, Zenon DEF NextBegin, RecycleBegin, NextContinue, FinishCall, ReturnFalse, Idle
    <3> QED BY <3>1, <3>2, Zenon
  <2>2. UNCHANGED <<queueVars, sigVars, waiting>>
    BY <1>6, Zenon DEF NextBegin, RecycleBegin, NextContinue, FinishCall, ReturnFalse
  <2> QED BY <2>1, <2>2, <1>k DEF ProducerWoken, ProducerPredicate
<1>7. ASSUME BeforeFirstBegin \/ BeforeFirstWake PROVE Notifying'
  <2>1. OnlyMoves(Owner) /\ pc[Owner] \notin {"nnot", "rnot", "bnot"}
    BY <1>7, <1>t DEF BeforeFirstBegin, BeforeFirstWake, Idle, Goto, Return, OnlyMoves,
       ThreadTypes
  <2>2. /\ UNCHANGED <<queueVars, producer_sig_, produce_end_>>
        /\ waiting' \subseteq waiting \cup {Owner}
    BY <1>7, Zenon DEF BeforeFirstBegin, BeforeFirstWake
  <2>3. Producer \in waiting
    BY <2>2, Zenon DEF Producer
  <2> QED BY SMTT(40), <2>1, <2>2, <2>3, <1>k DEF ProducerWoken, ProducerPredicate
<1>8. ASSUME BeforeFirstLock PROVE Notifying'
  <2>1. CASE producer_sig_ = "kDestroy"
    <3>1. OnlyMoves(Owner) /\ pc[Owner] = "block"
      BY <1>8, <2>1, <1>t DEF BeforeFirstLock, Goto, Return, OnlyMoves, ThreadTypes
    <3> QED BY <1>8, <2>1, <3>1, <1>k DEF BeforeFirstLock, ProducerWoken, ProducerPredicate
  <2>2. CASE producer_sig_ /= "kDestroy"
    <3>1. ~producer_sig_processed_
      BY <1>8, <1>t, <2>2 DEF BeforeFirstLock, Request
    <3> QED BY <1>8, <1>w, <2>2, <3>1 DEF BeforeFirstLock, Producer
  <2> QED BY <2>1, <2>2
<1>9. ASSUME DestroyBegin PROVE FALSE
  BY <1>9, <1>w DEF DestroyBegin
<1>10. ASSUME DestroyCleanup \/ Init_ PROVE FALSE
  BY <1>10, <1>t DEF DestroyCleanup, Init_, Asleep, Transit
<1>11. ASSUME SpuriousWakeup PROVE Notifying'
  <2>1. Producer \in waiting /\ ProducerPredicate /\ pc' = pc
    BY <1>11 DEF SpuriousWakeup, ProducerPredicate
  <2> QED BY <2>1, Zenon DEF ProducerWoken, Notifying
<1> QED BY SMTT(40), <1>1, <1>3, <1>4, <1>5, <1>6, <1>7, <1>8, <1>9, <1>10, <1>11
        DEF Next, ConsumerStep

LEMMA ConsumersWokenStep ==
    Types /\ Counters /\ Protocol /\ ConsumersWoken /\ Next => ConsumersWoken'
<1> SUFFICES ASSUME Types, Counters, Protocol, ConsumersWoken, Next,
                    NEW w \in Consumers,
                    w \in waiting', pc'[w] = "nwait", NextPredicate'
             PROVE  \/ ppc' \in {"notify", "bfnotify", "dnotify", "enotify"}
                    \/ ppc' = "push" /\ produce_end_'
  BY Zenon DEF ConsumersWoken
<1> DEFINE Goal == \/ ppc' \in {"notify", "bfnotify", "dnotify", "enotify"}
                   \/ ppc' = "push" /\ produce_end_'
<1>t. /\ ThreadTypes /\ Calls /\ Request /\ Asleep /\ Transit /\ CellTypes
      /\ SignalTypes
  BY Zenon DEF Types, Protocol
<1> USE ConstantsAssumption
<1>n. ASSUME pc[w] = "nwait" PROVE nwait_consumer_ /= 0
  <2>1. w \in Waiters
    BY <1>n, Zenon DEF Waiters
  <2>2. Cardinality(Waiters) /= 0
    BY <2>1, WaitersCount
  <2> QED BY <2>2, Zenon DEF Counters
<1>k. ASSUME w \in waiting, pc[w] = "nwait", NextPredicate, UNCHANGED <<ppc, produce_end_>>
      PROVE  Goal
  BY <1>k, Zenon DEF ConsumersWoken
<1>1. ASSUME ProducerStep PROVE Goal
  <2>1. w \in waiting /\ pc[w] = "nwait"
    BY <1>1, Zenon DEF ProducerStep, ProducerLock, ProducerWake, ProducerNext,
       ProducerNextThrows, ProducerPush, ProducerNotify, ProducerCatch, ProducerFail,
       Producer
  <2>2. NextPredicate => \/ ppc \in {"notify", "bfnotify", "dnotify", "enotify"}
                         \/ ppc = "push" /\ produce_end_
    BY <2>1, Zenon DEF ConsumersWoken
  <2>3. CASE ProducerLock \/ ProducerWake
    <3>1. CASE ProducerLock
      BY <2>2, <3>1 DEF ProducerLock, ProducerActs, PopFreeCell, ResetProducer,
         ResetProducerThrows, DestroyThread, NextPredicate
    <3>2. CASE ProducerWake
      BY <2>2, <3>2 DEF ProducerWake, ProducerActs, PopFreeCell, ResetProducer,
         ResetProducerThrows, DestroyThread, NextPredicate
    <3> QED BY <2>3, <3>1, <3>2, Zenon
  <2>4. CASE ProducerNext \/ ProducerNextThrows
    BY <2>2, <2>4 DEF ProducerNext, ProducerNextThrows, NextPredicate
  <2>5. CASE ProducerPush
    BY <1>n, <2>1, <2>5 DEF ProducerPush
  <2>6. CASE ProducerNotify
    BY <2>6, Zenon DEF ProducerNotify
  <2>7. CASE ProducerCatch
    BY <2>2, <2>7 DEF ProducerCatch, NextPredicate
  <2>8. CASE ProducerFail
    BY SMTT(40), <1>n, <2>1, <2>2, <2>8 DEF ProducerFail, NextPredicate
  <2> QED BY SMTT(40), <1>1, <2>3, <2>4, <2>5, <2>6, <2>7, <2>8 DEF ProducerStep
<1>2. ASSUME NEW c \in Consumers, NextBegin(c) \/ RecycleBegin(c) \/ ConsumerStep(c)
      PROVE  Goal
  <2>1. UNCHANGED <<ppc, produce_end_>>
    BY <1>2, <1>t, ConsumerFrame
  <2>2. NextPredicate
    <3>1. queue_ = <<>> => queue_' = <<>>
      BY Zenon, <1>2 DEF NextBegin, RecycleBegin, ConsumerStep, NextContinue, NextLock,
         NextWake, NotifyProducer, FinishCall, ReturnFalse, RecycleLock, TakeOrEnd
    <3> QED BY <2>1, <3>1 DEF NextPredicate
  <2>3. CASE w /= c
    <3>1. w \in waiting /\ pc[w] = "nwait"
      BY SMTT(40), <1>2, <1>t, <2>3, ConsumerFrame DEF OnlyMoves
    <3> QED BY SMTT(40), <3>1, <2>1, <2>2, <1>k
  <2>4. CASE w = c
    <3>1. NextLock(c) \/ NextWake(c)
      BY ZenonT(40), <1>2, <1>t, <2>4 DEF NextBegin, RecycleBegin, ConsumerStep, NextContinue,
         NotifyProducer, FinishCall, ReturnFalse, RecycleLock, EnterNext, Goto, Return,
         ThreadTypes
    <3>2. ~TakeOrEnd(c) /\ pc' /= [pc EXCEPT ![c] = "idle"]
      BY <1>t, <2>4 DEF TakeOrEnd, Goto, ThreadTypes
    <3>3. ~NextPredicate
      BY <3>1, <3>2 DEF NextLock, NextWake, Goto, Return
    <3> QED BY <2>2, <3>3, Zenon
  <2> QED BY <2>3, <2>4, Zenon
<1>3. ASSUME BeforeFirstBegin \/ BeforeFirstLock \/ BeforeFirstWake PROVE Goal
  <2>1. UNCHANGED <<ppc, produce_end_, queue_>>
    BY <1>3, Zenon DEF BeforeFirstBegin, BeforeFirstLock, BeforeFirstWake
  <2>2. w /= Owner
    <3>1. CASE BeforeFirstBegin
      BY <3>1, <1>t DEF BeforeFirstBegin, Goto, Return, ThreadTypes
    <3>2. CASE BeforeFirstLock
      BY <3>2, <1>t DEF BeforeFirstLock, Goto, Return, ThreadTypes
    <3>3. CASE BeforeFirstWake
      BY <3>3, <1>t DEF BeforeFirstWake, Goto, Return, ThreadTypes
    <3> QED BY <1>3, <3>1, <3>2, <3>3, Zenon
  <2>3. w \in waiting /\ pc[w] = "nwait"
    BY <1>3, <1>t, <2>2 DEF BeforeFirstBegin, BeforeFirstLock, BeforeFirstWake, Goto,
       Return, ThreadTypes
  <2> QED BY <2>1, <2>3, <1>k DEF NextPredicate
<1>4. ASSUME DestroyBegin \/ DestroyCleanup \/ Init_ PROVE FALSE
  <2>1. pc'[w] \in {"idle", "djoin"}
    <3>1. CASE DestroyBegin
      BY <3>1, <1>t DEF DestroyBegin, Quiet, Idle, Goto, Return, ThreadTypes
    <3>2. CASE DestroyCleanup
      BY <3>2, <1>t DEF DestroyCleanup, Quiet, Idle, Calls, Goto, Return, ThreadTypes
    <3>3. CASE Init_
      BY <3>3, <1>t DEF Init_, Quiet, Idle, Calls, Goto, Return, ThreadTypes
    <3> QED BY <1>4, <3>1, <3>2, <3>3, Zenon
  <2> QED BY <2>1, Zenon
<1>5. ASSUME SpuriousWakeup PROVE Goal
  BY <1>5, <1>k, Zenon DEF SpuriousWakeup, NextPredicate
<1> QED BY SMTT(40), <1>1, <1>2, <1>3, <1>4, <1>5 DEF Next

LEMMA OwnerWokenStep == Types /\ Protocol /\ OwnerWoken /\ Next => OwnerWoken'
<1> SUFFICES ASSUME Types, Protocol, OwnerWoken, Next, Owner \in waiting',
                    pc'[Owner] = "bwait", producer_sig_processed_'
             PROVE  ppc' \in {"bfnotify", "dnotify", "enotify"}
  BY Zenon DEF OwnerWoken
<1>t. ThreadTypes /\ Calls /\ Request /\ Transit /\ SignalTypes
  BY Zenon DEF Types, Protocol
<1> USE ConstantsAssumption DEF OwnerWoken
<1>1. ASSUME ProducerStep PROVE ppc' \in {"bfnotify", "dnotify", "enotify"}
  BY Zenon, <1>1 DEF ProducerStep, ProducerLock, ProducerWake, ProducerNext,
       ProducerNextThrows, ProducerPush, ProducerNotify, ProducerCatch, ProducerFail,
       ProducerActs, PopFreeCell, ResetProducer, ResetProducerThrows, DestroyThread,
       Producer
<1>2. ASSUME NEW c \in Consumers, NextBegin(c) \/ RecycleBegin(c) \/ ConsumerStep(c)
      PROVE  ppc' \in {"bfnotify", "dnotify", "enotify"}
  <2>1. UNCHANGED <<ppc, producer_sig_processed_>>
    BY Zenon, <1>2, <1>t, ConsumerFrame
  <2>2. c /= Owner
    BY ZenonT(40), <1>2, <1>t DEF NextBegin, RecycleBegin, ConsumerStep, NextContinue, NextLock,
       NextWake, NotifyProducer, FinishCall, ReturnFalse, RecycleLock, TakeOrEnd,
       EnterNext, Goto, Return, ThreadTypes
  <2>3. Owner \in waiting /\ pc[Owner] = "bwait"
    BY Zenon, <1>2, <1>t, <2>2, ConsumerFrame DEF OnlyMoves
  <2> QED BY <2>1, <2>3, Zenon
<1>3. ASSUME BeforeFirstLock PROVE FALSE
  BY <1>3, <1>t, Zenon DEF BeforeFirstLock, Goto, Return, ThreadTypes
<1>4. ASSUME BeforeFirstWake PROVE FALSE
  BY Zenon, <1>4, <1>t DEF BeforeFirstWake, Goto, ThreadTypes
<1>5. ASSUME BeforeFirstBegin \/ DestroyBegin \/ DestroyCleanup \/ Init_ PROVE FALSE
  BY Zenon, <1>5, <1>t DEF BeforeFirstBegin, DestroyBegin, DestroyCleanup, Init_, Quiet, Idle,
     Goto, Return, ThreadTypes
<1>6. ASSUME SpuriousWakeup PROVE ppc' \in {"bfnotify", "dnotify", "enotify"}
  BY <1>6, Zenon DEF SpuriousWakeup
<1> QED BY SMTT(40), <1>1, <1>2, <1>3, <1>4, <1>5, <1>6 DEF Next

\* No wake-up is lost: a producer that has room, a consumer that has an item
\* or an end, and a BeforeFirst whose request is answered never sleep on
\* without a notification on its way, although every notification of the
\* code is sent after the lock is released and only if a counter says so.
THEOREM WakeupsKept == Spec => []NoLostWakeup
<1> DEFINE Inv == /\ Types /\ Counters /\ Protocol
                  /\ ProducerWoken /\ ConsumersWoken /\ OwnerWoken
<1>1. Init => Inv
  <2>1. Init => ProducerWoken /\ ConsumersWoken /\ OwnerWoken
    BY Zenon DEF Init, ProducerWoken, ConsumersWoken, OwnerWoken
  <2> QED BY <2>1, TypesInit, CountersInit, ProtocolInit
<1>2. Inv /\ [Next]_vars => Inv'
  <2>1. ASSUME Inv, UNCHANGED vars PROVE (ProducerWoken /\ ConsumersWoken /\ OwnerWoken)'
    BY <2>1, Zenon DEF ProducerWoken, ConsumersWoken, OwnerWoken, Notifying, ProducerPredicate,
       NextPredicate
  <2> QED BY <2>1, TypesStep, CountersStep, ProtocolStep, ProducerWokenStep,
             ConsumersWokenStep, OwnerWokenStep
<1>3. Inv => NoLostWakeup
  BY Zenon DEF ProducerWoken, ConsumersWoken, OwnerWoken, Notifying, NoLostWakeup
<1> QED BY <1>1, <1>2, <1>3, PTL DEF Spec

\* The CHECKs of Next and BeforeFirst and the DCHECK after next() hold.
THEOREM AssertionsHold == Spec => []ChecksHold
<1>1. Init => Types /\ Protocol
  BY TypesInit, ProtocolInit, Zenon
<1>2. Types /\ Protocol /\ [Next]_vars => (Types /\ Protocol)'
  BY TypesStep, ProtocolStep, Zenon
<1>3. Types /\ Protocol => ChecksHold
  BY Zenon DEF Types, SignalTypes, Transit, Protocol, Calls, Request, ChecksHold, NextPcs
<1> QED BY <1>1, <1>2, <1>3, PTL DEF Spec

-----------------------------------------------------------------------------

(***************************************************************************)
(* The order of the items.                                                 *)
(***************************************************************************)
Valid == ~mixed /\ ~iter_exception_ /\ producer_sig_ \notin {"none", "kDestroy"}

\* queue_ holds the items from position n on.
Holds(q, v, n) == \A i \in 1..Len(q) : v[q[i]] = n + i - 1

LEMMA HoldsAppend ==
    ASSUME NEW q \in Seq(Cells), NEW v, NEW n \in Nat, NEW x \in Cells,
           Holds(q, v, n), v[x] = n + Len(q)
    PROVE  Holds(Append(q, x), v, n) /\ Len(Append(q, x)) = Len(q) + 1
<1>1. /\ Len(Append(q, x)) = Len(q) + 1 /\ Len(q) \in Nat
      /\ \A i \in 1..Len(q) : Append(q, x)[i] = q[i]
      /\ Append(q, x)[Len(q) + 1] = x
  BY AppendIndex, SeqFacts
<1> QED BY <1>1 DEF Holds

LEMMA HoldsTail ==
    ASSUME NEW q \in Seq(Cells), NEW v \in [Cells -> Int], NEW n \in Nat, NEW s \in Int,
           q /= <<>>, IsInjective(q), Holds(q, v, n)
    PROVE  /\ v[Head(q)] = n /\ Len(Tail(q)) = Len(q) - 1 /\ Len(q) \in Nat
           /\ Holds(Tail(q), [v EXCEPT ![Head(q)] = s], n + 1)
<1>1. /\ Len(Tail(q)) = Len(q) - 1 /\ Len(q) \in Nat \ {0}
      /\ \A i \in 1..Len(Tail(q)) : Tail(q)[i] = q[i + 1]
      /\ Head(q) = q[1] /\ DOMAIN q = 1..Len(q)
      /\ \A i \in 1..Len(q) : q[i] \in Cells
  BY TailIndex, SeqFacts
<1>2. v[Head(q)] = n
  BY <1>1 DEF Holds
<1>3. ASSUME NEW i \in 1..Len(Tail(q))
      PROVE  [v EXCEPT ![Head(q)] = s][Tail(q)[i]] = n + 1 + i - 1
  <2>1. i + 1 \in 1..Len(q) /\ 1 \in 1..Len(q) /\ i + 1 /= 1 /\ Tail(q)[i] = q[i + 1]
    BY <1>1
  <2>2. q[i + 1] /= q[1]
    BY <1>1, <2>1 DEF IsInjective
  <2>3. v[q[i + 1]] = n + (i + 1) - 1
    BY <2>1, Zenon DEF Holds
  <2> QED BY <1>1, <2>1, <2>2, <2>3
<1> QED BY <1>1, <1>2, <1>3 DEF Holds

LEMMA HoldsOther ==
    ASSUME NEW q \in Seq(Cells), NEW v \in [Cells -> Int], NEW n \in Nat, NEW s \in Int,
           NEW x, x \notin Range(q), Holds(q, v, n)
    PROVE  Holds(q, [v EXCEPT ![x] = s], n)
<1>1. DOMAIN q = 1..Len(q) /\ \A i \in 1..Len(q) : q[i] \in Cells /\ q[i] \in Range(q)
  BY SeqFacts DEF Range
<1> QED BY <1>1, Zenon DEF Holds

OrderInv ==
    Valid => /\ Holds(queue_, val, ndelivered)
             /\ IF ppc = "push" /\ ~produce_end_
                THEN /\ pos = ndelivered + Len(queue_) + 1
                     /\ val[cell] = pos - 1
                ELSE pos = ndelivered + Len(queue_)

LEMMA OrderStep ==
    Types /\ Protocol /\ CellOwnership /\ OrderInv /\ [Next]_vars => OrderInv'
<1> SUFFICES ASSUME Types, Protocol, CellOwnership, OrderInv, [Next]_vars, Valid'
             PROVE  /\ Holds(queue_', val', ndelivered')
                    /\ IF ppc' = "push" /\ ~produce_end_'
                       THEN /\ pos' = ndelivered' + Len(queue_') + 1
                            /\ val'[cell'] = pos' - 1
                       ELSE pos' = ndelivered' + Len(queue_')
  BY Zenon DEF OrderInv
<1> DEFINE Order == /\ Holds(queue_', val', ndelivered')
                    /\ IF ppc' = "push" /\ ~produce_end_'
                       THEN /\ pos' = ndelivered' + Len(queue_') + 1
                            /\ val'[cell'] = pos' - 1
                       ELSE pos' = ndelivered' + Len(queue_')
<1>t. /\ SignalTypes /\ ThreadTypes /\ CellTypes /\ Transit /\ DataTypes
      /\ Calls /\ Request /\ Termination
  BY Zenon DEF Types, Protocol
<1>v. val \in [Cells -> Int] /\ Stale \in Int /\ Stale = -1
  BY <1>t, ConstantsAssumption DEF DataTypes, Stale
<1>l. Len(queue_) \in Nat /\ pos \in Nat /\ ndelivered \in Nat
  BY <1>t, ConstantsAssumption, SeqFacts DEF CellTypes, DataTypes
<1>e. ASSUME NEW v, NEW n PROVE Holds(<<>>, v, n) /\ Len(<<>>) = 0
  BY DEF Holds
<1>u. ASSUME UNCHANGED <<queue_, dataVars, producer_sig_, iter_exception_>>,
             \/ UNCHANGED <<ppc, produce_end_, cell>>
             \/ ppc /= "push" /\ ppc' /= "push"
      PROVE  Order
  BY <1>u DEF OrderInv, Valid
<1>1. ASSUME ProducerActs, ppc \in {"lock", "wait"}, UNCHANGED iter_exception_ PROVE Order
  <2>1. CASE ResetProducer
    BY <2>1, <1>e DEF ResetProducer, ClearQueue
  <2>2. CASE PopFreeCell \/ ResetProducerThrows
    BY <1>1, <1>u, <2>2 DEF PopFreeCell, ResetProducerThrows
  <2>3. CASE DestroyThread
    BY <2>3, Zenon DEF DestroyThread, Valid
  <2> QED BY SMTT(40), <1>1, <2>1, <2>2, <2>3 DEF ProducerActs
<1>2. ASSUME ProducerLock \/ ProducerWake PROVE Order
  <2>1. CASE ProducerActs
    BY <1>1, <1>2, <2>1 DEF ProducerLock, ProducerWake
  <2>2. CASE UNCHANGED <<queueVars, sigVars, dataVars>> /\ ppc' = "wait"
    BY <1>u, <1>2, <2>2 DEF ProducerLock, ProducerWake
  <2> QED BY <1>2, <2>1, <2>2 DEF ProducerLock, ProducerWake
<1>3. ASSUME ProducerNext PROVE Order
  <2>1. Valid /\ pos = ndelivered + Len(queue_) /\ Holds(queue_, val, ndelivered)
    BY <1>3, Zenon DEF ProducerNext, Valid, OrderInv
  <2>2. CASE pos < NItems /\ val' = [val EXCEPT ![cell'] = pos]
    <3>1. cell' \in Cells /\ cell' \notin Range(queue_)
      <4>1. Range(queue_) \subseteq alloc /\ Range(queue_) \cap Hand = {}
        BY OwnershipAsSets, Zenon DEF Owned
      <4>2. cell' \in IF cell = NULL THEN Cells \ alloc ELSE {cell}
        BY <1>3, <1>l, <2>2, ConstantsAssumption DEF ProducerNext
      <4>3. CASE cell = NULL
        BY <4>1, <4>2, <4>3
      <4>4. CASE cell /= NULL
        BY SMTT(40), <1>t, <4>1, <4>2, <4>4 DEF Hand, CellTypes
      <4> QED BY <4>3, <4>4
    <3>2. Holds(queue_, [val EXCEPT ![cell'] = pos], ndelivered)
      <4>1. pos \in Int
        BY <1>l
      <4> QED BY Zenon, <1>t, <1>v, <1>l, <2>1, <3>1, <4>1, HoldsOther DEF CellTypes
    <3> QED BY SMTT(40), <1>3, <1>v, <1>l, <2>1, <2>2, <3>1, <3>2 DEF ProducerNext
  <2>3. CASE UNCHANGED <<val, pos>> /\ produce_end_'
    BY <1>3, <2>1, <2>3 DEF ProducerNext
  <2> QED BY <1>3, <2>2, <2>3 DEF ProducerNext
<1>4. ASSUME ProducerNextThrows PROVE Order
  BY <1>4, <1>u DEF ProducerNextThrows
<1>5. ASSUME ProducerPush PROVE Order
  <2>1. Valid /\ Holds(queue_, val, ndelivered)
    BY <1>5, Zenon DEF ProducerPush, Valid, OrderInv
  <2>2. CASE produce_end_
    BY <1>5, <2>1, <2>2 DEF ProducerPush, OrderInv
  <2>3. CASE ~produce_end_
    <3>1. cell \in Cells /\ pos = ndelivered + Len(queue_) + 1 /\ val[cell] = pos - 1
      BY <1>5, <1>t, <2>1, <2>3 DEF ProducerPush, OrderInv, CellTypes, Transit
    <3>2. val[cell] = ndelivered + Len(queue_)
      BY <1>l, <3>1
    <3>3. /\ Holds(Append(queue_, cell), val, ndelivered)
          /\ Len(Append(queue_, cell)) = Len(queue_) + 1
      BY SMTT(40), <1>t, <1>l, <2>1, <3>1, <3>2, HoldsAppend DEF CellTypes
    <3>4. /\ queue_' = Append(queue_, cell) /\ ppc' /= "push"
          /\ UNCHANGED <<val, pos, ndelivered>>
      BY <1>5, <2>3 DEF ProducerPush
    <3>5. pos' = ndelivered' + Len(queue_')
      BY SMTT(40), <1>l, <3>1, <3>3, <3>4
    <3> QED BY <3>3, <3>4, <3>5
  <2> QED BY <2>2, <2>3, Zenon
<1>6. ASSUME ProducerNotify PROVE Order
  BY <1>6, <1>u DEF ProducerNotify
<1>7. ASSUME ProducerCatch \/ ProducerFail PROVE FALSE
  BY <1>7, <1>t DEF ProducerCatch, ProducerFail, Valid, Termination
<1>8. ASSUME NEW c \in Consumers, TakeOrEnd(c),
             UNCHANGED <<sigVars, pos, mixed, prodVars, iter_exception_>>
      PROVE  Order
  <2>1. CASE queue_ = <<>>
    BY <1>8, <1>u, <2>1 DEF TakeOrEnd
  <2>2. CASE queue_ /= <<>>
    <3>1. Valid /\ Holds(queue_, val, ndelivered)
      BY <1>8 DEF Valid, OrderInv
    <3>2. IsInjective(queue_)
      BY OwnershipAsSets, Zenon
    <3>3. /\ Len(Tail(queue_)) = Len(queue_) - 1
          /\ Holds(Tail(queue_), [val EXCEPT ![Head(queue_)] = Stale], ndelivered + 1)
      BY Zenon, <1>t, <1>v, <1>l, <2>2, <3>1, <3>2, HoldsTail DEF CellTypes
    <3>4. /\ queue_' = Tail(queue_) /\ ndelivered' = ndelivered + 1
          /\ val' = [val EXCEPT ![Head(queue_)] = Stale]
      BY <1>8, <2>2 DEF TakeOrEnd
    <3>x. pos' = pos /\ ndelivered' = ndelivered + 1 /\ Len(queue_') = Len(queue_) - 1
      BY <1>8, <3>3, <3>4
    <3>5. CASE ppc = "push" /\ ~produce_end_
      <4>1. cell /= Head(queue_) /\ cell \in Cells
        BY SMTT(40), <1>t, <2>2, <3>5, OwnershipAsSets, TailRange
           DEF Owned, Hand, Transit, CellTypes
      <4>2. val'[cell] = val[cell]
        BY <1>v, <3>4, <4>1
      <4>3. pos = ndelivered + Len(queue_) + 1 /\ val[cell] = pos - 1
        BY <3>1, <3>5 DEF OrderInv
      <4>4. pos' = ndelivered' + Len(queue_') + 1
        BY SMTT(40), <1>l, <3>x, <4>3
      <4> QED BY SMTT(40), <1>8, <3>3, <3>4, <3>5, <4>2, <4>3, <4>4
    <3>6. CASE ~(ppc = "push" /\ ~produce_end_)
      <4>1. pos = ndelivered + Len(queue_)
        BY <3>1, <3>6 DEF OrderInv
      <4>2. pos' = ndelivered' + Len(queue_')
        BY <1>l, <3>x, <4>1
      <4> QED BY SMTT(40), <1>8, <3>3, <3>4, <3>6, <4>2
    <3> QED BY <3>5, <3>6, Zenon
  <2> QED BY <2>1, <2>2, Zenon
<1>9. ASSUME NEW c \in Consumers, NextLock(c) \/ NextWake(c) PROVE Order
  <2>1. CASE TakeOrEnd(c)
    BY <1>8, <1>9, <2>1 DEF NextLock, NextWake
  <2>2. CASE ~TakeOrEnd(c)
    BY <1>u, <1>9, <2>2 DEF NextLock, NextWake
  <2> QED BY <2>1, <2>2
<1>10. ASSUME NEW c \in Consumers,
              \/ NextBegin(c) \/ RecycleBegin(c) \/ NextContinue(c) \/ RecycleLock(c)
              \/ NotifyProducer(c) \/ FinishCall(c) \/ ReturnFalse(c)
       PROVE  Order
  BY ZenonT(40), <1>10, <1>u DEF NextBegin, RecycleBegin, NextContinue, NotifyProducer,
     FinishCall, ReturnFalse, RecycleLock
<1>11. ASSUME BeforeFirstLock PROVE Order
  <2>1. Valid
    BY <1>11, <1>t, ConstantsAssumption DEF BeforeFirstLock, Valid, Calls
  <2> QED BY <1>11, <2>1 DEF BeforeFirstLock, OrderInv
<1>12. ASSUME DestroyBegin \/ DestroyCleanup PROVE FALSE
  BY <1>12, <1>t DEF DestroyBegin, DestroyCleanup, Valid, Calls, Transit, Termination
<1>13. ASSUME Init_ PROVE Order
  <2>1. pos' = 0 /\ queue_ = <<>>
    BY Zenon, <1>13 DEF Init_, Valid
  <2> QED BY <1>13, <1>e, <2>1 DEF Init_
<1>14. ASSUME BeforeFirstBegin \/ BeforeFirstWake \/ SpuriousWakeup \/ UNCHANGED vars
       PROVE  Order
  BY <1>14, <1>u DEF BeforeFirstBegin, BeforeFirstWake, SpuriousWakeup
<1> HIDE DEF Order
<1>15. Order
  BY SMTT(40), <1>2, <1>3, <1>4, <1>5, <1>6, <1>7, <1>9, <1>10, <1>11, <1>12, <1>13, <1>14
     DEF Next, ProducerStep, ConsumerStep
<1> QED BY <1>15, Zenon DEF Order

LEMMA OrderInit == Init => OrderInv
  BY Zenon DEF Init, OrderInv, Valid

\* The items wait in queue_ in the order of the source, none missing, doubled
\* or left over from before a BeforeFirst, whatever the interleaving.
THEOREM ItemsInOrder == Spec => []InOrder
<1> DEFINE Inv == Types /\ Protocol /\ CellOwnership /\ OrderInv
<1>1. Init => Inv
  BY TypesInit, ProtocolInit, OwnershipInit, OrderInit
<1>2. Inv /\ [Next]_vars => Inv'
  BY TypesStep, ProtocolStep, OwnershipStep, OrderStep
<1>3. Inv => InOrder
  BY Zenon DEF OrderInv, Valid, Holds, InOrder
<1> QED BY <1>1, <1>2, <1>3, PTL DEF Spec

(***************************************************************************)
(* The end of the data.                                                    *)
(***************************************************************************)
Ended == /\ ndelivered = NItems /\ queue_ = <<>> /\ produce_end_
         /\ ppc \in {"push", "notify", "lock", "wait"}

Truncation ==
    \A c \in Consumers :
        (~mixed /\ (pc[c] = "false" \/ (pc[c] = "nend" /\ ~iter_exception_))) => Ended

LEMMA EndedStable ==
    ASSUME Types, Protocol, [Next]_vars, Ended, NEW w \in Consumers,
           pc[w] \in {"nend", "false"}
    PROVE  Ended'
<1>t. Calls /\ Transit /\ ThreadTypes
  BY Zenon DEF Types, Protocol
<1>s. /\ producer_sig_ = "kProduce" /\ pc[Owner] \notin OwnerPcs /\ ~Quiet
      /\ ~ProducerPredicate
  BY <1>t, Zenon DEF Calls, NextPcs, Quiet, Idle, ProducerPredicate, Ended
<1> USE DEF Ended
<1>1. ASSUME ProducerLock \/ ProducerWake PROVE Ended'
  BY Zenon, <1>1, <1>s DEF ProducerLock, ProducerWake
<1>2. ASSUME ProducerNext \/ ProducerNextThrows \/ ProducerPush PROVE Ended'
  BY Zenon, <1>2 DEF ProducerNext, ProducerNextThrows, ProducerPush
<1>3. ASSUME ProducerNotify \/ ProducerCatch \/ ProducerFail PROVE Ended'
  BY Zenon, <1>3 DEF ProducerNotify, ProducerCatch, ProducerFail
<1>4. ASSUME NEW c \in Consumers, NextBegin(c) \/ RecycleBegin(c) \/ ConsumerStep(c)
      PROVE  Ended'
  <2>1. UNCHANGED <<ppc, produce_end_>>
    BY Zenon, <1>4, <1>t, ConsumerFrame
  <2>2. UNCHANGED <<queue_, ndelivered>>
    BY Zenon, <1>4 DEF NextBegin, RecycleBegin, ConsumerStep, NextContinue, NextLock, NextWake,
       NotifyProducer, FinishCall, ReturnFalse, RecycleLock, TakeOrEnd
  <2> QED BY <2>1, <2>2
<1>5. ASSUME BeforeFirstBegin \/ SpuriousWakeup \/ UNCHANGED vars PROVE Ended'
  BY Zenon, <1>5 DEF BeforeFirstBegin, SpuriousWakeup
<1>6. ASSUME \/ BeforeFirstLock \/ BeforeFirstWake \/ DestroyBegin \/ DestroyCleanup
             \/ Init_
      PROVE  FALSE
  BY Zenon, <1>6, <1>s DEF BeforeFirstLock, BeforeFirstWake, DestroyBegin, DestroyCleanup,
     Init_, OwnerPcs
<1> QED BY ZenonT(40), <1>1, <1>2, <1>3, <1>4, <1>5, <1>6 DEF Next, ProducerStep

LEMMA TruncationStep ==
    Types /\ Protocol /\ OrderInv /\ Truncation /\ [Next]_vars => Truncation'
<1> SUFFICES ASSUME Types, Protocol, OrderInv, Truncation, [Next]_vars,
                    NEW w \in Consumers, ~mixed',
                    pc'[w] = "false" \/ (pc'[w] = "nend" /\ ~iter_exception_')
             PROVE  Ended'
  BY Zenon DEF Truncation
<1>t. /\ Calls /\ Request /\ Termination /\ Transit /\ ThreadTypes /\ SignalTypes
      /\ CellTypes /\ DataTypes
  BY Zenon DEF Types, Protocol
<1> USE ConstantsAssumption
<1>k. ASSUME pc[w] = "false" \/ (pc[w] = "nend" /\ ~iter_exception_), ~mixed
      PROVE  Ended'
  <2>1. Ended
    BY <1>k, Zenon DEF Truncation
  <2> QED BY <1>k, <2>1, EndedStable
<1>1. ASSUME NEW c \in Consumers, NextBegin(c) \/ RecycleBegin(c) \/ ConsumerStep(c)
      PROVE  Ended'
  <2>1. /\ UNCHANGED <<sigVars, iter_exception_, pos, mixed, ppc>>
        /\ c /= w => pc'[w] = pc[w]
    BY <1>1, <1>t, ConsumerFrame DEF OnlyMoves
  <2>2. CASE w /= c
    BY <1>k, <2>1, <2>2
  <2>3. CASE w = c /\ FinishCall(c)
    <3>1. PICK l : /\ pc' = [pc EXCEPT ![c] = l]
                   /\ l \in {"false", "nend"} => pc[c] = "nend" /\ ~iter_exception_
      BY <2>3 DEF FinishCall, Goto, Return
    <3>2. pc'[c] = l
      BY <1>t, <3>1 DEF ThreadTypes
    <3>3. pc[w] = "nend" /\ ~iter_exception_ /\ ~mixed
      BY <2>1, <2>3, <3>1, <3>2
    <3> QED BY <1>k, <3>3
  <2>4. CASE w = c /\ (NextLock(c) \/ NextWake(c))
    <3>1. TakeOrEnd(c) /\ queue_ = <<>> /\ NextPredicate
      <4>1. \/ TakeOrEnd(c) /\ NextPredicate
            \/ Return(c) \/ Goto(c, "nwait")
            \/ pc' = pc /\ pc[c] = "nwait"
        BY <2>4, Zenon DEF NextLock, NextWake
      <4> QED BY <1>t, <2>4, <4>1 DEF TakeOrEnd, Goto, Return, ThreadTypes
    <3>2. ~iter_exception_ /\ producer_sig_ = "kProduce" /\ produce_end_
      BY ZenonT(40), <1>t, <2>1, <2>4, <3>1 DEF NextLock, NextWake, NextPredicate, Calls, NextPcs,
         TakeOrEnd, Goto, ThreadTypes
    <3>3. pos = NItems /\ ppc \in {"push", "notify", "lock", "wait"}
      BY <1>t, <3>2 DEF Termination
    <3>4. pos = ndelivered + Len(queue_)
      BY <2>1, <3>2 DEF OrderInv, Valid
    <3>5. ndelivered = NItems
      BY SMTT(40), <1>t, <3>1, <3>3, <3>4 DEF DataTypes
    <3> QED BY SMTT(40), <2>1, <3>1, <3>2, <3>3, <3>5 DEF Ended, TakeOrEnd
  <2>5. CASE /\ w = c
             /\ \/ NextBegin(c) \/ RecycleBegin(c) \/ NextContinue(c) \/ RecycleLock(c)
                \/ NotifyProducer(c) \/ ReturnFalse(c)
    <3>1. pc'[w] \notin {"nend", "false"}
      BY ZenonT(40), <1>t, <2>5 DEF NextBegin, RecycleBegin, NextContinue, RecycleLock,
         NotifyProducer, ReturnFalse, EnterNext, Goto, Return, ThreadTypes
    <3> QED BY <3>1, Zenon
  <2> QED BY SMTT(40), <1>1, <2>2, <2>3, <2>4, <2>5 DEF ConsumerStep
<1>2. ASSUME ProducerStep PROVE Ended'
  <2>0. UNCHANGED pc /\ (iter_exception_' = TRUE \/ UNCHANGED iter_exception_)
    BY Zenon, <1>2 DEF ProducerStep, ProducerLock, ProducerWake, ProducerNext,
       ProducerNextThrows, ProducerPush, ProducerNotify, ProducerCatch, ProducerFail
  <2>1. pc' = pc /\ (iter_exception_ => iter_exception_')
    BY <2>0
  <2>2. producer_sig_ = "kProduce"
    BY <1>t, <2>1, Zenon DEF Calls, NextPcs
  <2>3. mixed' = mixed
    BY ZenonT(40), <1>2, <2>2 DEF ProducerStep, ProducerLock, ProducerWake, ProducerNext,
       ProducerNextThrows, ProducerPush, ProducerNotify, ProducerCatch, ProducerFail,
       ProducerActs, PopFreeCell, ResetProducer, ResetProducerThrows, DestroyThread
  <2> QED BY <1>k, <2>1, <2>3
<1>3. ASSUME BeforeFirstBegin \/ BeforeFirstLock \/ BeforeFirstWake PROVE Ended'
  <2>1. UNCHANGED <<iter_exception_, mixed>> /\ pc'[w] = pc[w]
    <3>1. CASE BeforeFirstBegin
      BY <3>1, <1>t DEF BeforeFirstBegin, Goto, Return, ThreadTypes
    <3>2. CASE BeforeFirstLock
      BY <3>2, <1>t DEF BeforeFirstLock, Goto, Return, ThreadTypes
    <3>3. CASE BeforeFirstWake
      BY <3>3, <1>t DEF BeforeFirstWake, Goto, Return, ThreadTypes
    <3> QED BY <1>3, <3>1, <3>2, <3>3, Zenon
  <2> QED BY <1>k, <2>1, Zenon
<1>4. ASSUME DestroyBegin \/ DestroyCleanup \/ Init_ PROVE FALSE
  <2>1. pc'[w] \in {"idle", "djoin"}
    <3>1. CASE DestroyBegin
      BY <3>1, <1>t DEF DestroyBegin, Quiet, Idle, Goto, Return, ThreadTypes
    <3>2. CASE DestroyCleanup
      BY <3>2, <1>t DEF DestroyCleanup, Quiet, Idle, Calls, Goto, Return, ThreadTypes
    <3>3. CASE Init_
      BY <3>3, <1>t DEF Init_, Quiet, Idle, Calls, Goto, Return, ThreadTypes
    <3> QED BY <1>4, <3>1, <3>2, <3>3, Zenon
  <2> QED BY <2>1, Zenon
<1>5. ASSUME SpuriousWakeup \/ UNCHANGED vars PROVE Ended'
  BY <1>5, <1>k DEF SpuriousWakeup
<1> QED BY SMTT(40), <1>1, <1>2, <1>3, <1>4, <1>5 DEF Next

\* Next returns false only after every item of the pass has been delivered:
\* an exception that ends the producer is never taken for the end of the data.
THEOREM NoTruncation == Spec => []NoSilentTruncation
<1> DEFINE Inv == Types /\ Protocol /\ CellOwnership /\ OrderInv /\ Truncation
<1>1. Init => Inv
  <2>1. Init => Truncation
    BY Zenon DEF Init, Truncation
  <2> QED BY <2>1, TypesInit, ProtocolInit, OwnershipInit, OrderInit, Zenon
<1>2. Inv /\ [Next]_vars => Inv'
  <2>1. SUFFICES ASSUME Types, Protocol, CellOwnership, OrderInv, Truncation, [Next]_vars
                 PROVE  Inv'
    BY Zenon
  <2>2. Types' /\ Protocol'
    BY <2>1, TypesStep, ProtocolStep, Zenon
  <2>3. CellOwnership'
    BY <2>1, OwnershipStep, Zenon
  <2>4. OrderInv'
    BY <2>1, OrderStep, Zenon
  <2>5. Truncation'
    BY <2>1, TruncationStep, Zenon
  <2> QED BY <2>2, <2>3, <2>4, <2>5, Zenon
<1>3. Inv => NoSilentTruncation
  BY Zenon DEF Truncation, Ended, NoSilentTruncation
<1> QED BY <1>1, <1>2, <1>3, PTL DEF Spec

(***************************************************************************)
(* Refinement: ThreadedIter is a DataIter.                                 *)
(***************************************************************************)
LEMMA PromiseStep ==
    ASSUME Types, Protocol, CellOwnership, OrderInv, [Next]_vars
    PROVE  [Promise!Next]_(Promise!vars)
<1>t. /\ Calls /\ Request /\ Termination /\ Transit /\ ThreadTypes /\ SignalTypes
      /\ CellTypes /\ DataTypes
  BY Zenon DEF Types, Protocol
<1> USE ConstantsAssumption
<1>u. ASSUME UNCHANGED <<ndelivered, last, mixed, iter_exception_>>, Valid' = Valid
      PROVE  [Promise!Next]_(Promise!vars)
  BY <1>u, Zenon DEF Promise!Next, Promise!vars, Promise!Deliver, Promise!Reset,
     Promise!Fail, Promise!Unspecified, Valid
<1>f. ASSUME UNCHANGED <<ndelivered, last>>, ~Valid'
      PROVE  [Promise!Next]_(Promise!vars)
  BY <1>f, Zenon DEF Promise!Next, Promise!vars, Promise!Deliver, Promise!Reset,
     Promise!Fail, Promise!Unspecified, Valid
<1>1. ASSUME NEW c \in Consumers, TakeOrEnd(c), UNCHANGED <<sigVars, mixed, iter_exception_>>
      PROVE  [Promise!Next]_(Promise!vars)
  <2>1. Valid' = Valid
    BY <1>1, Zenon DEF Valid
  <2>2. CASE queue_ = <<>> \/ ~Valid
    <3>1. CASE queue_ = <<>>
      <4>1. UNCHANGED <<ndelivered, last>>
        BY <1>1, <3>1 DEF TakeOrEnd
      <4> QED BY Zenon, <1>1, <1>u, <2>1, <4>1
    <3>2. CASE ~Valid
      BY <2>1, <3>2 DEF Promise!Next, Promise!Unspecified, Valid
    <3> QED BY <2>2, <3>1, <3>2
  <2>3. CASE queue_ /= <<>> /\ Valid
    <3>1. val[Head(queue_)] = ndelivered /\ Len(queue_) \in Nat /\ Len(queue_) /= 0
      <4>1. val \in [Cells -> Int] /\ ndelivered \in Nat /\ 0 \in Int
        BY <1>t DEF DataTypes, Stale
      <4>2. IsInjective(queue_) /\ Holds(queue_, val, ndelivered) /\ queue_ \in Seq(Cells)
        BY <1>t, <2>3, OwnershipAsSets DEF OrderInv, CellTypes
      <4>3. val[Head(queue_)] = ndelivered
        BY SMTT(40), <2>3, <4>1, <4>2, HoldsTail
      <4> QED BY SMTT(40), <2>3, <4>2, <4>3, SeqFacts
    <3>2. ndelivered < NItems
      <4>1. pos = ndelivered + Len(queue_) \/ pos = ndelivered + Len(queue_) + 1
        BY <2>3, Zenon DEF OrderInv
      <4> QED BY <1>t, <3>1, <4>1 DEF DataTypes
    <3>3. last' = ndelivered /\ ndelivered' = ndelivered + 1
      BY SMTT(40), <1>1, <2>3, <3>1 DEF TakeOrEnd
    <3> QED BY SMTT(40), <2>1, <2>3, <3>2, <3>3 DEF Promise!Next, Promise!Deliver, Valid
  <2> QED BY Zenon, <2>2, <2>3
<1>2. ASSUME NEW c \in Consumers, NextLock(c) \/ NextWake(c)
      PROVE  [Promise!Next]_(Promise!vars)
  <2>1. UNCHANGED <<sigVars, mixed, iter_exception_>>
    BY <1>2, <1>t, ConsumerFrame DEF ConsumerStep
  <2>2. CASE TakeOrEnd(c)
    BY Zenon, <1>1, <2>1, <2>2
  <2>3. CASE ~TakeOrEnd(c)
    <3>1. UNCHANGED <<ndelivered, last>>
      BY Zenon, <1>2, <2>3 DEF NextLock, NextWake
    <3>2. Valid' = Valid
      BY <2>1, Zenon DEF Valid
    <3> QED BY Zenon, <1>u, <2>1, <3>1, <3>2
  <2> QED BY Zenon, <2>2, <2>3
<1>3. ASSUME NEW c \in Consumers,
             \/ NextBegin(c) \/ RecycleBegin(c) \/ NextContinue(c) \/ RecycleLock(c)
             \/ NotifyProducer(c) \/ FinishCall(c) \/ ReturnFalse(c)
      PROVE  [Promise!Next]_(Promise!vars)
  <2>1. UNCHANGED <<ndelivered, last, mixed, iter_exception_, producer_sig_>>
    BY Zenon, <1>3 DEF NextBegin, RecycleBegin, NextContinue, RecycleLock, NotifyProducer,
       FinishCall, ReturnFalse
  <2>2. Valid' = Valid
    BY <2>1, Zenon DEF Valid
  <2> QED BY Zenon, <1>u, <2>1, <2>2
<1>4. ASSUME ResetProducer, UNCHANGED iter_exception_
      PROVE  [Promise!Next]_(Promise!vars)
  BY <1>4, Zenon
     DEF ResetProducer, Stale, Promise!Next, Promise!vars, Promise!Deliver, Promise!Reset,
     Promise!Fail, Promise!Unspecified, Valid
<1>5. ASSUME ProducerStep, ~ResetProducer \/ iter_exception_' /= iter_exception_
      PROVE  [Promise!Next]_(Promise!vars)
  <2>1. UNCHANGED <<ndelivered, last, mixed, producer_sig_>>
    BY ZenonT(40), <1>5 DEF ProducerStep, ProducerLock, ProducerWake, ProducerNext,
       ProducerNextThrows, ProducerPush, ProducerNotify, ProducerCatch, ProducerFail,
       ProducerActs, PopFreeCell, ResetProducerThrows, DestroyThread
  <2>2. iter_exception_' = iter_exception_ \/ iter_exception_'
    BY <1>5, Zenon DEF ProducerStep, ProducerLock, ProducerWake, ProducerNext,
       ProducerNextThrows, ProducerPush, ProducerNotify, ProducerCatch, ProducerFail
  <2>4. CASE iter_exception_'
    BY <1>f, <2>1, <2>4 DEF Valid
  <2>5. CASE iter_exception_' = iter_exception_
    <3>1. Valid' = Valid
      BY <2>1, <2>5 DEF Valid
    <3> QED BY Zenon, <1>u, <2>1, <2>5, <3>1
  <2> QED BY Zenon, <2>2, <2>4, <2>5
<1>6. ASSUME BeforeFirstLock PROVE [Promise!Next]_(Promise!vars)
  <2>1. UNCHANGED <<ndelivered, last, mixed, iter_exception_>>
    BY Zenon, <1>6 DEF BeforeFirstLock
  <2>2. \/ producer_sig_' = producer_sig_
        \/ producer_sig_' = "kBeforeFirst" /\ producer_sig_ \notin {"none", "kDestroy"}
    BY <1>6, <1>t DEF BeforeFirstLock, Calls
  <2>3. Valid' = Valid
    BY <2>1, <2>2, Zenon DEF Valid
  <2> QED BY Zenon, <1>u, <2>1, <2>3
<1>7. ASSUME DestroyBegin PROVE [Promise!Next]_(Promise!vars)
  BY <1>7, <1>f DEF DestroyBegin, Valid
<1>8. ASSUME Init_ PROVE [Promise!Next]_(Promise!vars)
  <2>1. ~Valid
    BY <1>8, <1>t DEF Init_, Termination, Valid
  <2>2. CASE mixed'
    BY <2>1, <2>2 DEF Promise!Next, Promise!Unspecified, Valid
  <2>3. CASE ~mixed'
    BY <1>8, <1>t, <2>3 DEF Init_, Stale, Promise!Next, Promise!Reset, Valid
  <2> QED BY Zenon, <2>2, <2>3
<1>9. ASSUME \/ BeforeFirstBegin \/ BeforeFirstWake \/ DestroyCleanup \/ SpuriousWakeup
             \/ UNCHANGED vars
      PROVE  [Promise!Next]_(Promise!vars)
  <2>1. UNCHANGED <<ndelivered, last, mixed, iter_exception_, producer_sig_>>
    BY <1>9, Zenon DEF BeforeFirstBegin, BeforeFirstWake, DestroyCleanup, SpuriousWakeup
  <2>2. Valid' = Valid
    BY <2>1, Zenon DEF Valid
  <2> QED BY Zenon, <1>u, <2>1, <2>2
<1> QED BY ZenonT(40), <1>2, <1>3, <1>4, <1>5, <1>6, <1>7, <1>8, <1>9 DEF Next, ConsumerStep

\* Seen from its callers a ThreadedIter hands out the items of the source one
\* after the other, each once, and starts again after BeforeFirst.
THEOREM Refinement == Spec => ImplementsDataIter
<1> DEFINE Inv == Types /\ Protocol /\ CellOwnership /\ OrderInv
<1>1. Init => Inv
  BY SMTT(40), TypesInit, ProtocolInit, OwnershipInit, OrderInit
<1>2. Inv /\ [Next]_vars => Inv'
  BY TypesStep, ProtocolStep, OwnershipStep, OrderStep
<1>3. Init => Promise!Init
  BY Zenon DEF Init, Promise!Init, Stale
<1>4. Inv /\ [Next]_vars => [Promise!Next]_(Promise!vars)
  BY PromiseStep, Zenon
<1> QED BY <1>1, <1>2, <1>3, <1>4, PTL DEF Spec, ImplementsDataIter, Promise!Spec
=============================================================================
