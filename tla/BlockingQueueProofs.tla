------------------------ MODULE BlockingQueueProofs ------------------------
(* ConcurrentBlockingQueue never strands an item, delivers every item exactly
   once and keeps the order of Push, for any number of threads and items. *)
EXTENDS ConcurrentBlockingQueue, SeqLemmas, SequenceTheorems

USE DEF vars, queueVars, history

In(l) == {t \in Threads : pc[t] = l}

\* TypeOK but for the wait counter.
Types ==
    /\ exit_now_ \in BOOLEAN
    /\ fifo_queue_ \in Seq(Items) /\ priority_queue_ \subseteq Items
    /\ pc \in [Threads -> Pcs]
    /\ waiting \subseteq In("wait")
    /\ pushed \subseteq Items
    /\ pushedBack \in Seq(Items) /\ popped \in Seq(Items)

Counter == nwait_consumer_ = Cardinality(In("wait"))

LEMMA TypeOKSplit == TypeOK <=> Types /\ Counter
  BY Zenon DEF TypeOK, Types, Counter, In

\* How a step of one thread changes the sets of threads at each place.
LEMMA Moves ==
    ASSUME pc \in [Threads -> Pcs], NEW t \in Threads, NEW l \in Pcs, Goto(t, l)
    PROVE  /\ pc' \in [Threads -> Pcs] /\ pc'[t] = l
           /\ \A k : In(k)' = IF k = l THEN In(k) \cup {t} ELSE In(k) \ {t}
  BY Zenon DEF Goto, In

LEMMA Count ==
    ASSUME NEW S \in SUBSET Threads
    PROVE  /\ Cardinality(S) \in Nat /\ (Cardinality(S) = 0 <=> S = {})
           /\ \A x : x \notin S => Cardinality(S \cup {x}) = Cardinality(S) + 1
           /\ \A x \in S : Cardinality(S \ {x}) = Cardinality(S) - 1
<1>1. IsFiniteSet(Threads)
  BY ConstantsAssumption, Zenon
<1> QED BY Zenon, <1>1, FiniteCount

\* The heap is finite, and its size follows one insertion or removal.
LEMMA CountItems ==
    ASSUME NEW S \in SUBSET Items
    PROVE  /\ Cardinality(S) \in Nat /\ (Cardinality(S) = 0 <=> S = {})
           /\ \A x : Cardinality(S \cup {x}) <= Cardinality(S) + 1
           /\ \A x \in S : Cardinality(S \ {x}) = Cardinality(S) - 1
<1>1. IsFiniteSet(Items)
  BY ConstantsAssumption, Zenon
<1>2. /\ Cardinality(S) \in Nat /\ (Cardinality(S) = 0 <=> S = {})
      /\ \A x : x \notin S => Cardinality(S \cup {x}) = Cardinality(S) + 1
      /\ \A x \in S : Cardinality(S \ {x}) = Cardinality(S) - 1
  BY Zenon, <1>1, FiniteCount
<1>3. ASSUME NEW x PROVE Cardinality(S \cup {x}) <= Cardinality(S) + 1
  <2>1. CASE x \in S
    <3>1. S \cup {x} = S
      BY <2>1, Zenon
    <3> QED BY <1>2, <3>1
  <2>2. CASE x \notin S
    BY <1>2, <2>2
  <2> QED BY <2>1, <2>2, Zenon
<1> QED BY <1>2, <1>3, Zenon

LEMMA TypesInit == Init => Types /\ Counter
<1> SUFFICES ASSUME Init PROVE Types /\ Counter
  BY Zenon
<1>1. <<>> \in Seq(Items)
  BY EmptyIsSeq, Zenon
<1>2. In("wait") = {} /\ In("wait") \in SUBSET Threads
  BY Zenon DEF Init, In
<1>3. Counter
  BY <1>2, Count, Zenon DEF Init, Counter
<1>4. Types
  BY Zenon, <1>1, <1>2 DEF Init, Types, Pcs
<1> QED BY <1>3, <1>4, Zenon

\* What Pop does to the queue once its predicate holds.
LEMMA Takes ==
    ASSUME Types, NEW t \in Threads, PopPredicate, TakeOrExit(t)
    PROVE  /\ fifo_queue_' \in Seq(Items) /\ priority_queue_' \subseteq Items
           /\ popped' \in Seq(Items)
           /\ ~exit_now_ => Size' = Size - 1 /\ Size \in Nat
<1> USE DEF Types
<1>1. CASE exit_now_
  BY <1>1, Zenon DEF TakeOrExit
<1>2. CASE ~exit_now_ /\ type = "kFIFO"
  <2>1. fifo_queue_ /= <<>>
    BY <1>2, Zenon DEF PopPredicate, NonEmpty
  <2>2. /\ Head(fifo_queue_) \in Items /\ Tail(fifo_queue_) \in Seq(Items)
        /\ Len(Tail(fifo_queue_)) = Len(fifo_queue_) - 1 /\ Len(fifo_queue_) \in Nat
    BY <2>1, TailRange, TailIndex, Zenon
  <2>3. Append(popped, Head(fifo_queue_)) \in Seq(Items)
    BY <2>2, AppendRange, Zenon
  <2> QED BY Zenon, <1>2, <2>2, <2>3 DEF TakeOrExit, Size
<1>3. CASE ~exit_now_ /\ type /= "kFIFO"
  <2>1. PICK e \in priority_queue_ : /\ popped' = Append(popped, e)
                                     /\ priority_queue_' = priority_queue_ \ {e}
                                     /\ fifo_queue_' = fifo_queue_
    BY <1>3, Zenon DEF TakeOrExit
  <2>2. Append(popped, e) \in Seq(Items)
    BY AppendRange, Zenon
  <2>3. /\ Cardinality(priority_queue_) \in Nat
        /\ Cardinality(priority_queue_ \ {e}) = Cardinality(priority_queue_) - 1
    BY CountItems, Zenon
  <2> QED BY <1>3, <2>1, <2>2, <2>3, Zenon DEF Size
<1> QED BY <1>1, <1>2, <1>3, Zenon

\* What Push and PushFront do to the queue.
LEMMA Inserts ==
    ASSUME Types, NEW t \in Threads, NEW e \in Items, Push(t, e) \/ PushFront(t, e)
    PROVE  /\ fifo_queue_' \in Seq(Items) /\ priority_queue_' \subseteq Items
           /\ pushedBack' \in Seq(Items) /\ pushed' \subseteq Items
           /\ Size' \in Nat /\ Size \in Nat /\ Size' <= Size + 1
           /\ NotifyOrReturn(t)
           /\ UNCHANGED <<exit_now_, nwait_consumer_, waiting, popped>>
<1> USE DEF Types
<1>1. /\ Append(fifo_queue_, e) \in Seq(Items) /\ Append(pushedBack, e) \in Seq(Items)
      /\ Len(fifo_queue_) \in Nat
      /\ Len(Append(fifo_queue_, e)) = Len(fifo_queue_) + 1
  BY AppendRange, AppendIndex, SeqFacts, Zenon
<1>2. <<e>> \o fifo_queue_ \in Seq(Items)
      /\ Len(<<e>> \o fifo_queue_) = Len(fifo_queue_) + 1
  OBVIOUS
<1>3. /\ Cardinality(priority_queue_) \in Nat
      /\ Cardinality(priority_queue_ \cup {e}) \in Nat
      /\ Cardinality(priority_queue_ \cup {e}) <= Cardinality(priority_queue_) + 1
  BY Zenon, CountItems
<1>4. CASE type = "kFIFO"
  <2>1. /\ fifo_queue_' \in {Append(fifo_queue_, e), <<e>> \o fifo_queue_}
        /\ priority_queue_' = priority_queue_ /\ pushed' = pushed \cup {e}
        /\ pushedBack' \in {Append(pushedBack, e), pushedBack}
        /\ NotifyOrReturn(t)
        /\ UNCHANGED <<exit_now_, nwait_consumer_, waiting, popped>>
    BY Zenon, <1>4 DEF Push, PushFront, Insert
  <2>2. fifo_queue_' \in Seq(Items) /\ Len(fifo_queue_') = Len(fifo_queue_) + 1
    BY Zenon, <1>1, <1>2, <2>1
  <2>3. Size' \in Nat /\ Size \in Nat /\ Size' <= Size + 1
    BY <1>1, <1>4, <2>2 DEF Size
  <2>4. pushedBack' \in Seq(Items) /\ pushed' \subseteq Items
    BY Zenon, <1>1, <2>1
  <2> QED BY Zenon, <2>1, <2>2, <2>3, <2>4
<1>5. CASE type /= "kFIFO"
  BY Zenon, <1>1, <1>3, <1>5 DEF Push, PushFront, Insert, Size
<1> QED BY <1>4, <1>5, Zenon

LEMMA SizeEmpty == Types /\ ~PopPredicate => Size = 0
<1> SUFFICES ASSUME Types, ~PopPredicate PROVE Size = 0
  BY Zenon
<1>1. priority_queue_ = {} => Cardinality(priority_queue_) = 0
  BY CountItems, Zenon DEF Types
<1>2. fifo_queue_ = <<>> => Len(fifo_queue_) = 0
  BY SeqFacts, Zenon DEF Types
<1> QED BY <1>1, <1>2, Zenon DEF PopPredicate, NonEmpty, Size

\* One case per action: what it does to the threads, to the queue, and to the
\* balance between queued items and the threads that will look for them.
LEMMA Step ==
    Types /\ Counter /\ NoStrandedItem /\ [Next]_vars
        => (Types /\ Counter /\ NoStrandedItem)'
<1> SUFFICES ASSUME Types, Counter, NoStrandedItem, [Next]_vars
             PROVE  Types' /\ Counter' /\ NoStrandedItem'
  BY Zenon
<1> USE DEF Pcs
<1>t. /\ pc \in [Threads -> Pcs] /\ waiting \subseteq In("wait")
      /\ nwait_consumer_ = Cardinality(In("wait"))
      /\ Pending = In("notify") /\ Awake = In("wait") \ waiting
      /\ Pending' = In("notify")' /\ Awake' = In("wait")' \ waiting'
  BY Zenon DEF Types, Counter, Pending, Awake, In
<1>n. /\ In("wait") \in SUBSET Threads /\ Pending \in SUBSET Threads
      /\ Awake \in SUBSET Threads
  BY Zenon DEF In, Pending, Awake
<1>m. ASSUME NEW t \in Threads, NEW l \in Pcs, Goto(t, l)
      PROVE  /\ pc' \in [Threads -> Pcs] /\ pc'[t] = l
             /\ \A k : In(k)' = IF k = l THEN In(k) \cup {t} ELSE In(k) \ {t}
  BY Zenon, <1>t, <1>m, Moves
<1>1. ASSUME NEW t \in Threads, NEW e \in Items, Push(t, e) \/ PushFront(t, e)
      PROVE  Types' /\ Counter' /\ NoStrandedItem'
  <2>1. pc[t] = "idle"
    BY <1>1, Zenon DEF Push, PushFront, Insert
  <2>2. /\ fifo_queue_' \in Seq(Items) /\ priority_queue_' \subseteq Items
        /\ pushedBack' \in Seq(Items) /\ pushed' \subseteq Items
        /\ Size' \in Nat /\ Size \in Nat /\ Size' <= Size + 1
        /\ NotifyOrReturn(t)
        /\ UNCHANGED <<exit_now_, nwait_consumer_, waiting, popped>>
    BY Zenon, <1>1, Inserts
  <2>3. t \notin In("wait") /\ t \notin In("notify")
    BY <2>1, Zenon DEF In
  <2>4. CASE nwait_consumer_ = 0
    <3>1. Goto(t, "idle")
      BY <2>2, <2>4, Zenon DEF NotifyOrReturn
    <3>2. pc' \in [Threads -> Pcs] /\ In("wait")' = In("wait")
      BY <1>m, <2>3, <3>1
    <3>3. waiting = {}
      BY <1>t, <1>n, <2>4, Count
    <3> QED BY Zenon, <2>2, <3>2, <3>3 DEF Types, Counter, NoStrandedItem
  <2>5. CASE nwait_consumer_ /= 0
    <3>1. Goto(t, "notify")
      BY <2>2, <2>5, Zenon DEF NotifyOrReturn
    <3>2. /\ pc' \in [Threads -> Pcs] /\ In("wait")' = In("wait")
          /\ In("notify")' = In("notify") \cup {t}
      BY <1>m, <2>3, <3>1
    <3>3. Awake' = Awake /\ Pending' = Pending \cup {t} /\ t \notin Pending
      BY <1>t, <2>2, <2>3, <3>2
    <3>4. /\ Cardinality(Pending) \in Nat /\ Cardinality(Awake) \in Nat
          /\ Cardinality(Pending') = Cardinality(Pending) + 1
      BY Zenon, <1>n, <3>3, Count
    <3>5. NoStrandedItem'
      BY <2>2, <3>3, <3>4 DEF NoStrandedItem
    <3> QED BY Zenon, <2>2, <3>2, <3>5 DEF Types, Counter
  <2> QED BY <2>4, <2>5, Zenon
<1>2. ASSUME NEW t \in Threads, NotifyOne(t)
      PROVE  Types' /\ Counter' /\ NoStrandedItem'
  <2>1. /\ pc[t] = "notify" /\ Goto(t, "idle")
        /\ UNCHANGED <<exit_now_, nwait_consumer_, queueVars, history>>
    BY <1>2, Zenon DEF NotifyOne
  <2>2. t \notin In("wait") /\ t \in In("notify")
    BY <2>1, Zenon DEF In
  <2>3. /\ pc' \in [Threads -> Pcs] /\ In("wait")' = In("wait")
        /\ In("notify")' = In("notify") \ {t}
    BY <1>m, <2>1, <2>2
  <2>4. Size' = Size
    BY <2>1, Zenon DEF Size
  <2>5. CASE waiting = {}
    <3>1. waiting' = {}
      BY <1>2, <2>5, Zenon DEF NotifyOne
    <3> QED BY Zenon, <2>1, <2>3, <2>4, <3>1 DEF Types, Counter, NoStrandedItem
  <2>6. CASE waiting /= {}
    <3>1. PICK w \in waiting : waiting' = waiting \ {w}
      BY <1>2, <2>6, Zenon DEF NotifyOne
    <3>2. Awake' = Awake \cup {w} /\ w \notin Awake
      BY <1>t, <2>3, <3>1, Zenon
    <3>3. Pending' = Pending \ {t} /\ t \in Pending
      BY <1>t, <2>2, <2>3, Zenon
    <3>4. /\ Cardinality(Pending) \in Nat /\ Cardinality(Awake) \in Nat
          /\ Cardinality(Pending') = Cardinality(Pending) - 1
          /\ Cardinality(Awake') = Cardinality(Awake) + 1
      BY Zenon, <1>n, <3>2, <3>3, Count
    <3>5. NoStrandedItem'
      BY <2>1, <2>4, <2>6, <3>4 DEF NoStrandedItem
    <3>6. waiting' \subseteq In("wait")'
      BY <1>t, <2>3, <3>1, Zenon
    <3> QED BY Zenon, <2>1, <2>3, <3>5, <3>6 DEF Types, Counter
  <2> QED BY <2>5, <2>6, Zenon
<1>3. ASSUME NEW t \in Threads, PopLock(t)
      PROVE  Types' /\ Counter' /\ NoStrandedItem'
  <2>1. pc[t] = "idle" /\ UNCHANGED <<exit_now_, pushed, pushedBack>>
    BY <1>3, Zenon DEF PopLock
  <2>2. t \notin In("wait") /\ t \notin In("notify")
    BY <2>1, Zenon DEF In
  <2>3. CASE PopPredicate
    <3>1. TakeOrExit(t) /\ UNCHANGED <<nwait_consumer_, waiting>>
      BY <1>3, <2>3, Zenon DEF PopLock
    <3>2. /\ fifo_queue_' \in Seq(Items) /\ priority_queue_' \subseteq Items
          /\ popped' \in Seq(Items)
          /\ ~exit_now_ => Size' = Size - 1 /\ Size \in Nat
      BY Zenon, <2>3, <3>1, Takes
    <3>3. Goto(t, "idle")
      BY <3>1, Zenon DEF TakeOrExit
    <3>4. /\ pc' \in [Threads -> Pcs] /\ In("wait")' = In("wait")
          /\ In("notify")' = In("notify")
      BY <1>m, <2>2, <3>3
    <3>5. Pending' = Pending /\ Awake' = Awake
      BY <1>t, <3>1, <3>4, Zenon
    <3>6. Cardinality(Pending) \in Nat /\ Cardinality(Awake) \in Nat
      BY Zenon, <1>n, Count
    <3>7. NoStrandedItem'
      BY <2>1, <3>1, <3>2, <3>5, <3>6 DEF NoStrandedItem
    <3> QED BY Zenon, <2>1, <3>1, <3>2, <3>4, <3>7 DEF Types, Counter
  <2>4. CASE ~PopPredicate
    <3>1. /\ nwait_consumer_' = nwait_consumer_ + 1 /\ waiting' = waiting \cup {t}
          /\ Goto(t, "wait") /\ UNCHANGED <<queueVars, popped>>
      BY <1>3, <2>4, Zenon DEF PopLock
    <3>2. /\ pc' \in [Threads -> Pcs] /\ In("wait")' = In("wait") \cup {t}
          /\ In("notify")' = In("notify")
      BY <1>m, <2>2, <3>1
    <3>3. Counter'
      BY <1>t, <1>n, <2>2, <3>1, <3>2, Count DEF Counter
    <3>4. waiting' \subseteq In("wait")'
      BY <1>t, <3>1, <3>2, Zenon
    <3>5. Size' = 0
      BY <2>4, <3>1, SizeEmpty, Zenon DEF Size
    <3>6. Cardinality(Pending') \in Nat /\ Cardinality(Awake') \in Nat
      <4>1. Pending' \in SUBSET Threads /\ Awake' \in SUBSET Threads
        BY Zenon DEF Pending, Awake
      <4> QED BY Zenon, <4>1, Count
    <3>7. NoStrandedItem'
      BY <3>5, <3>6 DEF NoStrandedItem
    <3> QED BY Zenon, <2>1, <3>1, <3>2, <3>3, <3>4, <3>7 DEF Types
  <2> QED BY <2>3, <2>4, Zenon
<1>4. ASSUME NEW t \in Threads, PopWake(t)
      PROVE  Types' /\ Counter' /\ NoStrandedItem'
  <2>1. /\ pc[t] = "wait" /\ t \notin waiting
        /\ UNCHANGED <<exit_now_, pushed, pushedBack>>
    BY <1>4, Zenon DEF PopWake
  <2>2. t \in In("wait") /\ t \notin In("notify")
    BY <2>1, Zenon DEF In
  <2>3. CASE PopPredicate
    <3>1. /\ TakeOrExit(t) /\ nwait_consumer_' = nwait_consumer_ - 1
          /\ UNCHANGED waiting
      BY <1>4, <2>3, Zenon DEF PopWake
    <3>2. /\ fifo_queue_' \in Seq(Items) /\ priority_queue_' \subseteq Items
          /\ popped' \in Seq(Items)
          /\ ~exit_now_ => Size' = Size - 1 /\ Size \in Nat
      BY Zenon, <2>3, <3>1, Takes
    <3>3. Goto(t, "idle")
      BY <3>1, Zenon DEF TakeOrExit
    <3>4. /\ pc' \in [Threads -> Pcs] /\ In("wait")' = In("wait") \ {t}
          /\ In("notify")' = In("notify")
      BY <1>m, <2>2, <3>3
    <3>5. Pending' = Pending /\ Awake' = Awake \ {t} /\ t \in Awake
      BY <1>t, <2>1, <2>2, <3>1, <3>4, Zenon
    <3>6. /\ Cardinality(Pending) \in Nat /\ Cardinality(Awake) \in Nat
          /\ Cardinality(Awake') = Cardinality(Awake) - 1
      BY Zenon, <1>n, <3>5, Count
    <3>7. NoStrandedItem'
      BY <2>1, <3>1, <3>2, <3>5, <3>6 DEF NoStrandedItem
    <3>8. Counter'
      BY <1>t, <1>n, <2>2, <3>1, <3>4, Count DEF Counter
    <3>9. waiting' \subseteq In("wait")'
      BY <1>t, <2>1, <3>1, <3>4
    <3> QED BY Zenon, <2>1, <3>1, <3>2, <3>4, <3>7, <3>8, <3>9 DEF Types
  <2>4. CASE ~PopPredicate
    <3>1. /\ waiting' = waiting \cup {t}
          /\ UNCHANGED <<nwait_consumer_, pc, queueVars, popped>>
      BY <1>4, <2>4, Zenon DEF PopWake
    <3>2. In("wait")' = In("wait")
      BY <3>1, Zenon DEF In
    <3>3. waiting' \subseteq In("wait")'
      BY <1>t, <2>2, <3>1, <3>2, Zenon
    <3>4. Size' = 0
      BY <2>4, <3>1, SizeEmpty, Zenon DEF Size
    <3>5. Cardinality(Pending') \in Nat /\ Cardinality(Awake') \in Nat
      <4>1. Pending' \in SUBSET Threads /\ Awake' \in SUBSET Threads
        BY Zenon DEF Pending, Awake
      <4> QED BY Zenon, <4>1, Count
    <3>6. NoStrandedItem'
      BY <3>4, <3>5 DEF NoStrandedItem
    <3> QED BY Zenon, <2>1, <3>1, <3>2, <3>3, <3>6 DEF Types, Counter
  <2> QED BY <2>3, <2>4, Zenon
<1>5. ASSUME NEW t \in Threads, SignalForKill(t) \/ NotifyAll(t)
      PROVE  Types' /\ Counter' /\ NoStrandedItem'
  <2>1. /\ pc[t] \in {"idle", "kill"} /\ (Goto(t, "idle") \/ Goto(t, "kill"))
        /\ UNCHANGED <<nwait_consumer_, queueVars, history>>
        /\ \/ exit_now_' = TRUE /\ waiting' = waiting
           \/ exit_now_' = exit_now_ /\ waiting' = {}
    BY Zenon, <1>5 DEF SignalForKill, NotifyAll
  <2>2. t \notin In("wait")
    BY <2>1, Zenon DEF In
  <2>3. pc' \in [Threads -> Pcs] /\ In("wait")' = In("wait")
    BY <1>m, <2>1, <2>2
  <2>4. NoStrandedItem'
    BY Zenon, <2>1 DEF NoStrandedItem
  <2>5. waiting' \subseteq In("wait")' /\ exit_now_' \in BOOLEAN
    BY Zenon, <1>t, <2>1, <2>3 DEF Types
  <2> QED BY Zenon, <2>1, <2>3, <2>4, <2>5 DEF Types, Counter
<1>6. ASSUME SpuriousWakeup PROVE Types' /\ Counter' /\ NoStrandedItem'
  <2>1. PICK w \in waiting : waiting' = waiting \ {w}
    BY <1>6, Zenon DEF SpuriousWakeup
  <2>2. UNCHANGED <<exit_now_, nwait_consumer_, queueVars, pc, history>>
    BY <1>6, Zenon DEF SpuriousWakeup
  <2>3. /\ In("wait")' = In("wait") /\ In("notify")' = In("notify") /\ Size' = Size
    BY <2>2, Zenon DEF In, Size
  <2>4. Pending' = Pending /\ Awake' = Awake \cup {w} /\ w \notin Awake
    BY <1>t, <2>1, <2>3, Zenon
  <2>5. /\ Cardinality(Pending) \in Nat /\ Cardinality(Awake) \in Nat
        /\ Cardinality(Awake') = Cardinality(Awake) + 1
    BY Zenon, <1>n, <2>4, Count
  <2>6. Size \in Int
    BY CountItems, SeqFacts DEF Types, Size
  <2>7. NoStrandedItem'
    BY <2>1, <2>2, <2>3, <2>4, <2>5, <2>6 DEF NoStrandedItem
  <2>8. waiting' \subseteq In("wait")'
    BY <1>t, <2>1, <2>3, Zenon
  <2> QED BY Zenon, <2>2, <2>3, <2>7, <2>8 DEF Types, Counter
<1>7. ASSUME UNCHANGED vars PROVE Types' /\ Counter' /\ NoStrandedItem'
  BY <1>7, Zenon DEF Types, Counter, NoStrandedItem, In, Size, Pending, Awake
<1> QED BY <1>1, <1>2, <1>3, <1>4, <1>5, <1>6, <1>7 DEF Next, Continue

\* TypeOK: nwait_consumer_ is exactly the number of threads inside the wait of
\* Pop, for any number of threads.
THEOREM TypeCorrect == Spec => []TypeOK
<1>1. Init => NoStrandedItem
  BY Zenon DEF Init, NoStrandedItem
<1>2. TypeOK <=> Types /\ Counter
  BY TypeOKSplit, Zenon
<1> QED BY <1>1, <1>2, TypesInit, Step, PTL DEF Spec

\* NoStrandedItem: Push's notify_one after the unlock is always enough for the
\* items that sleeping Pops could take.
THEOREM NoItemStranded == Spec => []NoStrandedItem
<1>1. Init => NoStrandedItem
  BY Zenon DEF Init, NoStrandedItem
<1> QED BY <1>1, TypesInit, Step, PTL DEF Spec

---------------------------------------------------------------------------
(* What Push, PushFront and Pop do to the contents. *)

\* A step pushes an item that is new, pops one, or leaves the contents alone.
Pushes(e) ==
    /\ e \in Items /\ e \notin pushed /\ pushed' = pushed \cup {e} /\ UNCHANGED popped
    /\ \/ /\ type = "kFIFO" /\ fifo_queue_' = Append(fifo_queue_, e)
          /\ pushedBack' = Append(pushedBack, e) /\ UNCHANGED priority_queue_
       \/ /\ type = "kFIFO" /\ fifo_queue_' = <<e>> \o fifo_queue_
          /\ UNCHANGED <<pushedBack, priority_queue_>>
       \/ type /= "kFIFO" /\ priority_queue_' = priority_queue_ \cup {e} /\ UNCHANGED fifo_queue_
Pops ==
    /\ UNCHANGED <<pushed, pushedBack>>
    /\ \/ /\ type = "kFIFO" /\ fifo_queue_ /= <<>> /\ UNCHANGED priority_queue_
          /\ popped' = Append(popped, Head(fifo_queue_)) /\ fifo_queue_' = Tail(fifo_queue_)
       \/ /\ type /= "kFIFO" /\ UNCHANGED fifo_queue_
          /\ \E e \in priority_queue_ :
                popped' = Append(popped, e) /\ priority_queue_' = priority_queue_ \ {e}

LEMMA Contents ==
    [Next]_vars => (\E e : Pushes(e)) \/ Pops \/ UNCHANGED <<queueVars, history>>
<1> SUFFICES ASSUME [Next]_vars
             PROVE  (\E e : Pushes(e)) \/ Pops \/ UNCHANGED <<queueVars, history>>
  BY Zenon
<1>1. ASSUME NEW t \in Threads, NEW e \in Items, Push(t, e) \/ PushFront(t, e)
      PROVE  Pushes(e)
  BY Zenon, <1>1 DEF Push, PushFront, Insert, Pushes
<1>2. ASSUME NEW t \in Threads, PopPredicate, TakeOrExit(t), UNCHANGED <<exit_now_, pushed, pushedBack>>
      PROVE  Pops \/ UNCHANGED <<queueVars, history>>
  BY Zenon, <1>2 DEF TakeOrExit, Pops, PopPredicate, NonEmpty
<1>3. ASSUME NEW t \in Threads, PopLock(t) \/ PopWake(t)
      PROVE  Pops \/ UNCHANGED <<queueVars, history>>
  BY Zenon, <1>2, <1>3 DEF PopLock, PopWake
<1>4. ASSUME NEW t \in Threads, SignalForKill(t) \/ NotifyOne(t) \/ NotifyAll(t)
      PROVE  UNCHANGED <<queueVars, history>>
  BY Zenon, <1>4 DEF SignalForKill, NotifyOne, NotifyAll
<1>5. ASSUME SpuriousWakeup \/ UNCHANGED vars PROVE UNCHANGED <<queueVars, history>>
  BY Zenon, <1>5 DEF SpuriousWakeup
<1> QED BY Zenon, <1>1, <1>3, <1>4, <1>5 DEF Next, Continue

LEMMA Single ==
    ASSUME NEW S, NEW e \in S
    PROVE  <<e>> \in Seq(S) /\ Range(<<e>>) = {e} /\ IsInjective(<<e>>)
  BY DEF Range, IsInjective

LEMMA ItemAdded ==
    ASSUME NEW s \in Seq(Items), NEW e \in Items
    PROVE  /\ Range(Append(s, e)) = Range(s) \cup {e}
           /\ IsInjective(s) /\ e \notin Range(s) => IsInjective(Append(s, e))
  BY AppendRange

LEMMA ItemsJoined ==
    ASSUME NEW s \in Seq(Items), NEW t \in Seq(Items)
    PROVE  /\ Range(s \o t) = Range(s) \cup Range(t)
           /\ IsInjective(s) /\ IsInjective(t) /\ Range(s) \cap Range(t) = {} => IsInjective(s \o t)
  BY ConcatRange

LEMMA OnceStep == Types /\ ExactlyOnce /\ [Next]_vars => ExactlyOnce'
<1> SUFFICES ASSUME Types, ExactlyOnce, [Next]_vars PROVE ExactlyOnce'
  BY Zenon
<1>t. /\ fifo_queue_ \in Seq(Items) /\ popped \in Seq(Items) /\ priority_queue_ \subseteq Items
      /\ IsInjective(fifo_queue_) /\ IsInjective(popped)
      /\ pushed = Queued \cup Range(popped) /\ Queued \cap Range(popped) = {}
  BY Zenon DEF Types, ExactlyOnce
<1>a. ASSUME NEW s \in Seq(Items), NEW e \in Items, IsInjective(s), e \notin Range(s)
      PROVE  Range(Append(s, e)) = Range(s) \cup {e} /\ IsInjective(Append(s, e))
  BY <1>a, ItemAdded, Zenon
<1>c. ASSUME NEW s \in Seq(Items), NEW t \in Seq(Items), IsInjective(s), IsInjective(t),
             Range(s) \cap Range(t) = {}
      PROVE  Range(s \o t) = Range(s) \cup Range(t) /\ IsInjective(s \o t)
  BY <1>c, ItemsJoined, Zenon
<1>1. ASSUME NEW e, Pushes(e) PROVE ExactlyOnce'
  <2>1. e \in Items /\ e \notin pushed /\ pushed' = pushed \cup {e} /\ popped' = popped
    BY <1>1, Zenon DEF Pushes
  <2>2. CASE type = "kFIFO"
    <3>1. e \notin Range(fifo_queue_)
      BY <1>t, <2>1, <2>2, Zenon DEF Queued
    <3>2. /\ <<e>> \in Seq(Items) /\ Range(<<e>>) = {e} /\ IsInjective(<<e>>)
          /\ Range(<<e>>) \cap Range(fifo_queue_) = {}
      BY <2>1, <3>1, Single
    <3>3. /\ Range(Append(fifo_queue_, e)) = Range(fifo_queue_) \cup {e}
          /\ IsInjective(Append(fifo_queue_, e))
      BY <1>a, <1>t, <2>1, <3>1, Zenon
    <3>4. /\ Range(<<e>> \o fifo_queue_) = Range(<<e>>) \cup Range(fifo_queue_)
          /\ IsInjective(<<e>> \o fifo_queue_)
      BY <1>c, <1>t, <3>2, Zenon
    <3>5. fifo_queue_' = Append(fifo_queue_, e) \/ fifo_queue_' = <<e>> \o fifo_queue_
      BY <1>1, <2>2, Zenon DEF Pushes
    <3>6. Range(fifo_queue_') = Range(fifo_queue_) \cup {e} /\ IsInjective(fifo_queue_')
      BY Zenon, <3>2, <3>3, <3>4, <3>5
    <3> QED BY <1>t, <2>1, <2>2, <3>6 DEF Queued, ExactlyOnce
  <2>3. CASE type /= "kFIFO"
    BY <1>1, <1>t, <2>1, <2>3, Zenon DEF Pushes, Queued, ExactlyOnce
  <2> QED BY <2>2, <2>3, Zenon
<1>2. ASSUME Pops PROVE ExactlyOnce'
  <2>1. CASE type = "kFIFO"
    <3> DEFINE h == Head(fifo_queue_)
    <3>1. /\ fifo_queue_ /= <<>> /\ pushed' = pushed
          /\ popped' = Append(popped, h) /\ fifo_queue_' = Tail(fifo_queue_)
      BY <1>2, <2>1, Zenon DEF Pops
    <3>2. /\ h \in Items /\ Range(fifo_queue_) = Range(Tail(fifo_queue_)) \cup {h}
          /\ IsInjective(Tail(fifo_queue_)) /\ h \notin Range(Tail(fifo_queue_))
      BY Zenon, <1>t, <3>1, TailRange
    <3> HIDE DEF h
    <3>3. h \notin Range(popped)
      BY <1>t, <2>1, <3>2, Zenon DEF Queued
    <3>4. Range(popped') = Range(popped) \cup {h} /\ IsInjective(popped')
      BY <1>a, <1>t, <3>1, <3>2, <3>3
    <3> QED BY <1>t, <2>1, <3>1, <3>2, <3>3, <3>4 DEF Queued, ExactlyOnce
  <2>2. CASE type /= "kFIFO"
    <3>1. PICK e \in priority_queue_ :
              popped' = Append(popped, e) /\ priority_queue_' = priority_queue_ \ {e}
      BY <1>2, <2>2, Zenon DEF Pops
    <3>2. e \in Items /\ e \notin Range(popped) /\ pushed' = pushed /\ fifo_queue_' = fifo_queue_
      BY <1>2, <1>t, <2>2, <3>1 DEF Queued, Pops
    <3>3. Range(popped') = Range(popped) \cup {e} /\ IsInjective(popped')
      BY <1>a, <1>t, <3>1, <3>2, Zenon
    <3> QED BY <1>t, <2>2, <3>1, <3>2, <3>3 DEF Queued, ExactlyOnce
  <2> QED BY <2>1, <2>2, Zenon
<1>3. ASSUME UNCHANGED <<queueVars, history>> PROVE ExactlyOnce'
  BY <1>3, Zenon DEF Queued, ExactlyOnce, queueVars, history
<1> QED BY Zenon, <1>1, <1>2, <1>3, Contents

\* ExactlyOnce: whatever the threads do, no item pushed is lost, and none is
\* popped twice.
THEOREM DeliveredOnce == Spec => []ExactlyOnce
<1>1. Init => ExactlyOnce
  BY DEF Init, ExactlyOnce, Queued, Range, IsInjective
<1>2. Init => NoStrandedItem
  BY Zenon DEF Init, NoStrandedItem
<1> QED BY <1>1, <1>2, TypesInit, Step, OnceStep, PTL DEF Spec

---------------------------------------------------------------------------
(* The order of what is pushed to the back. *)

LEMMA ConcatIndex ==
    ASSUME NEW S, NEW s \in Seq(S), NEW t \in Seq(S)
    PROVE  /\ s \o t \in Seq(S) /\ Len(s) \in Nat /\ Len(t) \in Nat
           /\ Len(s \o t) = Len(s) + Len(t) /\ DOMAIN (s \o t) = 1 .. Len(s) + Len(t)
           /\ \A i \in 1 .. Len(s) + Len(t) :
                 (s \o t)[i] = IF i <= Len(s) THEN s[i] ELSE t[i - Len(s)]
  BY ConcatProperties, LenProperties

\* Putting g in between keeps the order of the others.
LEMMA BeforeBetween ==
    ASSUME NEW S, NEW p \in Seq(S), NEW g \in Seq(S), NEW f \in Seq(S),
           NEW a, NEW b, Before(p \o f, a, b)
    PROVE  Before(p \o (g \o f), a, b)
<1> DEFINE s == p \o f
           u == g \o f
           t == p \o u
<1>1. /\ Len(p) \in Nat /\ Len(f) \in Nat
      /\ Len(s) = Len(p) + Len(f) /\ DOMAIN s = 1 .. Len(s)
      /\ \A i \in 1 .. Len(s) : s[i] = IF i <= Len(p) THEN p[i] ELSE f[i - Len(p)]
  BY ConcatIndex
<1>2. /\ u \in Seq(S) /\ Len(u) = Len(g) + Len(f) /\ Len(g) \in Nat
      /\ \A i \in 1 .. Len(u) : u[i] = IF i <= Len(g) THEN g[i] ELSE f[i - Len(g)]
  BY ConcatIndex
<1> HIDE DEF u
<1>3. /\ Len(t) = Len(p) + Len(u) /\ DOMAIN t = 1 .. Len(t)
      /\ \A i \in 1 .. Len(t) : t[i] = IF i <= Len(p) THEN p[i] ELSE u[i - Len(p)]
  <2>1. u \in Seq(S)
    BY <1>2, Zenon
  <2> QED BY <2>1, ConcatIndex
<1>4. PICK i, j \in DOMAIN s : i < j /\ s[i] = a /\ s[j] = b
  BY Zenon DEF Before
<1> HIDE DEF s, t
<1> DEFINE At(n) == IF n <= Len(p) THEN n ELSE n + Len(g)
<1>5. ASSUME NEW n \in 1 .. Len(s) PROVE At(n) \in 1 .. Len(t) /\ t[At(n)] = s[n]
  <2>1. CASE n <= Len(p)
    <3>1. At(n) = n /\ n \in 1 .. Len(t)
      BY <1>1, <1>2, <1>3, <2>1
    <3> HIDE DEF At
    <3> QED BY <1>1, <1>3, <2>1, <3>1, Zenon
  <2>2. CASE ~(n <= Len(p))
    <3>1. /\ At(n) = n + Len(g) /\ At(n) \in 1 .. Len(t) /\ ~(At(n) <= Len(p))
          /\ At(n) - Len(p) \in 1 .. Len(u) /\ ~(At(n) - Len(p) <= Len(g))
          /\ At(n) - Len(p) - Len(g) = n - Len(p)
      BY <1>1, <1>2, <1>3, <2>2
    <3> HIDE DEF At
    <3>2. t[At(n)] = u[At(n) - Len(p)] /\ u[At(n) - Len(p)] = f[At(n) - Len(p) - Len(g)]
      BY <1>2, <1>3, <3>1, Zenon
    <3> QED BY <1>1, <2>2, <3>1, <3>2, Zenon
  <2> QED BY <2>1, <2>2, Zenon
<1>6. At(i) < At(j)
  BY <1>1, <1>4
<1> HIDE DEF At
<1>7. At(i) \in DOMAIN t /\ At(j) \in DOMAIN t /\ t[At(i)] = a /\ t[At(j)] = b
  BY <1>1, <1>3, <1>4, <1>5, Zenon
<1> QED BY <1>6, <1>7, Zenon DEF Before, t, u

\* What is put behind s is behind every element of s.
LEMMA BehindAll ==
    ASSUME NEW S, NEW s \in Seq(S), NEW e \in S, NEW a \in Range(s)
    PROVE  Before(s \o <<e>>, a, e)
<1> DEFINE t == Append(s, e)
<1>1. t = s \o <<e>>
  BY AppendIsConcat, Zenon
<1>2. /\ Len(s) \in Nat /\ Len(t) = Len(s) + 1 /\ DOMAIN t = 1 .. Len(t) /\ DOMAIN s = 1 .. Len(s)
      /\ \A i \in 1 .. Len(s) : t[i] = s[i]
      /\ t[Len(s) + 1] = e
  BY AppendProperties, LenProperties
<1> HIDE DEF t
<1>3. PICK i \in DOMAIN s : s[i] = a
  BY Zenon DEF Range
<1>4. i \in DOMAIN t /\ Len(s) + 1 \in DOMAIN t /\ i < Len(s) + 1 /\ t[i] = a
  BY <1>2, <1>3
<1>5. Before(t, a, e)
  BY <1>2, <1>4, Zenon DEF Before
<1> QED BY <1>1, <1>5, Zenon

Out == popped \o fifo_queue_
BackIn(out) ==
    /\ Range(pushedBack) \subseteq Range(out)
    /\ \A a, b \in DOMAIN pushedBack : a < b => Before(out, pushedBack[a], pushedBack[b])

LEMMA OrderStep == Types /\ PushOrderKept /\ [Next]_vars => PushOrderKept'
<1> SUFFICES ASSUME Types, PushOrderKept, [Next]_vars, type = "kFIFO" PROVE PushOrderKept'
  BY Zenon DEF PushOrderKept
<1>t. /\ fifo_queue_ \in Seq(Items) /\ popped \in Seq(Items) /\ pushedBack \in Seq(Items)
      /\ BackIn(Out)
  BY Zenon DEF Types, PushOrderKept, BackIn, Out
<1>p. BackIn(Out)' => PushOrderKept'
  BY Zenon DEF PushOrderKept, BackIn, Out
<1>c. ASSUME NEW s \in Seq(Items), NEW t \in Seq(Items)
      PROVE  Range(s \o t) = Range(s) \cup Range(t)
  BY RangeConcatenation
<1>a. ASSUME NEW s \in Seq(Items), NEW e \in Items
      PROVE  Range(Append(s, e)) = Range(s) \cup {e}
  BY AppendRange
<1>o. Out \in Seq(Items)
  BY <1>t, ConcatProperties, Zenon DEF Out
<1>1. ASSUME NEW e, Pushes(e), pushedBack' = Append(pushedBack, e), fifo_queue_' = Append(fifo_queue_, e)
      PROVE  BackIn(Out)'
  <2>1. e \in Items /\ popped' = popped
    BY <1>1, Zenon DEF Pushes
  <2>s. <<e>> \in Seq(Items) /\ Range(<<e>>) = {e}
    BY <2>1, Single, Zenon
  <2>2. Out' = Out \o <<e>>
    <3>1. Append(fifo_queue_, e) = fifo_queue_ \o <<e>>
      BY <1>t, <2>1, AppendIsConcat, Zenon
    <3>2. (popped \o fifo_queue_) \o <<e>> = popped \o (fifo_queue_ \o <<e>>)
      BY SMTT(40), <1>t, <2>s, ConcatAssociative
    <3> QED BY <1>1, <2>1, <3>1, <3>2, Zenon DEF Out
  <2>3. Range(Out') = Range(Out) \cup {e}
    <3>1. Range(Out \o <<e>>) = Range(Out) \cup Range(<<e>>)
      BY <1>c, <1>o, <2>s, Zenon
    <3> QED BY <2>2, <2>s, <3>1, Zenon
  <2>4. Range(pushedBack') = Range(pushedBack) \cup {e}
    <3>1. Range(Append(pushedBack, e)) = Range(pushedBack) \cup {e}
      BY <1>a, <1>t, <2>1, Zenon
    <3> QED BY <1>1, <3>1, Zenon
  <2>5. /\ Len(pushedBack) \in Nat /\ DOMAIN pushedBack = 1 .. Len(pushedBack)
        /\ DOMAIN pushedBack' = 1 .. Len(pushedBack) + 1
        /\ \A i \in 1 .. Len(pushedBack) : pushedBack'[i] = pushedBack[i]
        /\ pushedBack'[Len(pushedBack) + 1] = e
    BY <1>1, <1>t, <2>1, AppendProperties, LenProperties
  <2>6. ASSUME NEW a \in DOMAIN pushedBack', NEW b \in DOMAIN pushedBack', a < b
        PROVE  Before(Out', pushedBack'[a], pushedBack'[b])
    <3>1. CASE b <= Len(pushedBack)
      <4>1. /\ pushedBack'[a] = pushedBack[a] /\ pushedBack'[b] = pushedBack[b]
            /\ a \in DOMAIN pushedBack /\ b \in DOMAIN pushedBack
        BY <2>5, <2>6, <3>1
      <4>2. Before(Out, pushedBack[a], pushedBack[b])
        BY <1>t, <2>6, <4>1, Zenon DEF BackIn
      <4>3. Out \o <<>> = Out /\ <<e>> \o <<>> = <<e>> /\ <<>> \in Seq(Items)
        BY <1>o, <2>s, ConcatEmptySeq, EmptySeq
      <4>4. Before(Out \o (<<e>> \o <<>>), pushedBack[a], pushedBack[b])
        BY Zenon, <1>o, <2>s, <4>2, <4>3, BeforeBetween
      <4> QED BY <2>2, <4>1, <4>3, <4>4
    <3>2. CASE ~(b <= Len(pushedBack))
      <4>1. /\ b = Len(pushedBack) + 1 /\ pushedBack'[b] = e
            /\ a \in DOMAIN pushedBack /\ pushedBack'[a] = pushedBack[a]
        BY <2>5, <2>6, <3>2
      <4>2. pushedBack[a] \in Range(Out)
        BY <1>t, <4>1, Zenon DEF BackIn, Range
      <4>3. Before(Out \o <<e>>, pushedBack[a], e)
        BY Zenon, <1>o, <2>1, <4>2, BehindAll
      <4> QED BY <2>2, <4>1, <4>3, Zenon
    <3> QED BY <3>1, <3>2, Zenon
  <2>7. Range(pushedBack') \subseteq Range(Out')
    BY <1>t, <2>3, <2>4, Zenon DEF BackIn
  <2> QED BY <2>6, <2>7, Zenon DEF BackIn
<1>2. ASSUME NEW e, Pushes(e), pushedBack' = pushedBack, fifo_queue_' = <<e>> \o fifo_queue_
      PROVE  BackIn(Out)'
  <2>1. e \in Items /\ popped' = popped
    BY <1>2, Zenon DEF Pushes
  <2>s. <<e>> \in Seq(Items) /\ <<e>> \o fifo_queue_ \in Seq(Items)
    BY <1>t, <2>1, Single, ConcatProperties, Zenon
  <2>2. Out' = popped \o (<<e>> \o fifo_queue_)
    BY <1>2, <2>1, Zenon DEF Out
  <2>3. \A a, b : Before(Out, a, b) => Before(Out', a, b)
    BY Zenon, <1>t, <2>s, <2>2, BeforeBetween DEF Out
  <2>4. Range(Out) \subseteq Range(Out')
    <3>1. /\ Range(popped \o fifo_queue_) = Range(popped) \cup Range(fifo_queue_)
          /\ Range(<<e>> \o fifo_queue_) = Range(<<e>>) \cup Range(fifo_queue_)
          /\ Range(popped \o (<<e>> \o fifo_queue_)) = Range(popped) \cup Range(<<e>> \o fifo_queue_)
      BY <1>c, <1>t, <2>s, Zenon
    <3> QED BY <2>2, <3>1, Zenon DEF Out
  <2> QED BY <1>2, <1>t, <2>3, <2>4 DEF BackIn
<1>3. ASSUME Pops PROVE BackIn(Out)'
  <2> DEFINE h == Head(fifo_queue_)
  <2>1. /\ fifo_queue_ /= <<>> /\ pushedBack' = pushedBack
        /\ popped' = Append(popped, h) /\ fifo_queue_' = Tail(fifo_queue_)
    BY <1>3, Zenon DEF Pops
  <2>2. h \in Items /\ Tail(fifo_queue_) \in Seq(Items)
    BY <1>t, <2>1, TailRange, Zenon
  <2>3. fifo_queue_ = <<h>> \o Tail(fifo_queue_)
    <3> DEFINE u == <<h>> \o Tail(fifo_queue_)
    <3>1. /\ Len(Tail(fifo_queue_)) = Len(fifo_queue_) - 1 /\ Len(fifo_queue_) \in Nat \ {0}
          /\ \A i \in 1 .. Len(Tail(fifo_queue_)) : Tail(fifo_queue_)[i] = fifo_queue_[i + 1]
          /\ h = fifo_queue_[1]
      BY Zenon, <1>t, <2>1, TailIndex
    <3>2. <<h>> \in Seq(Items) /\ Len(<<h>>) = 1 /\ <<h>>[1] = h
      BY <2>2
    <3>3. /\ u \in Seq(Items) /\ Len(u) = 1 + Len(Tail(fifo_queue_))
          /\ \A i \in 1 .. Len(u) : u[i] = IF i <= 1 THEN <<h>>[i] ELSE Tail(fifo_queue_)[i - 1]
      BY <2>2, <3>2, ConcatProperties
    <3> HIDE DEF u, h
    <3>4. Len(u) = Len(fifo_queue_)
      BY <3>1, <3>3
    <3>5. ASSUME NEW i \in 1 .. Len(u) PROVE u[i] = fifo_queue_[i]
      <4>1. CASE i = 1
        BY <3>1, <3>2, <3>3, <4>1
      <4>2. CASE i /= 1
        <5>1. i - 1 \in 1 .. Len(Tail(fifo_queue_)) /\ ~(i <= 1) /\ (i - 1) + 1 = i
          BY <3>1, <3>3, <4>2
        <5> QED BY <3>1, <3>3, <5>1, Zenon
      <4> QED BY <4>1, <4>2, Zenon
    <3>6. u = fifo_queue_
      BY <1>t, <3>3, <3>4, <3>5, SeqEqual
    <3> QED BY <3>6, Zenon DEF u
  <2>4. Out' = Out
    <3> HIDE DEF h
    <3>1. <<h>> \in Seq(Items)
      BY <2>2, Single, Zenon
    <3>2. Append(popped, h) = popped \o <<h>>
      BY <1>t, <2>2, AppendIsConcat, Zenon
    <3>3. (popped \o <<h>>) \o Tail(fifo_queue_) = popped \o (<<h>> \o Tail(fifo_queue_))
      BY <1>t, <2>2, <3>1, ConcatAssociative
    <3> QED BY Zenon, <2>1, <2>3, <3>2, <3>3 DEF Out
  <2> QED BY <1>t, <2>1, <2>4, Zenon DEF BackIn
<1>4. ASSUME UNCHANGED <<queueVars, history>> PROVE BackIn(Out)'
  BY <1>4, <1>t, Zenon DEF BackIn, Out, queueVars, history
<1>5. ASSUME NEW e, Pushes(e) PROVE BackIn(Out)'
  BY Zenon, <1>1, <1>2, <1>5 DEF Pushes
<1> QED BY Zenon, <1>3, <1>4, <1>5, <1>p, Contents

\* PushOrderKept: what Push puts in comes out in that order, whatever PushFront
\* puts ahead of it and whoever pops.
THEOREM OrderKept == Spec => []PushOrderKept
<1>1. Init => PushOrderKept
  BY DEF Init, PushOrderKept, Range
<1>2. Init => NoStrandedItem
  BY Zenon DEF Init, NoStrandedItem
<1> QED BY <1>1, <1>2, TypesInit, Step, OrderStep, PTL DEF Spec
=============================================================================
