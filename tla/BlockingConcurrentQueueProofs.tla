-------------------- MODULE BlockingConcurrentQueueProofs --------------------
(* The semaphore of BlockingConcurrentQueue never gives a permit without an
   item, for any number of producers and consumers and any bulk sizes. *)
EXTENDS BlockingConcurrentQueue, FiniteSetTheorems, TLAPS

Pcs == {"idle", "tryWait", "spin", "sleep", "adjust", "signalled", "take"}
Calls == [kind : Kinds, max : Nat, got : Nat]

\* The threads are finitely many; the bounds are numbers.
Finite ==
    /\ IsFiniteSet(Producers) /\ IsFiniteSet(Consumers)
    /\ MaxItems \in Nat /\ MaxBulk \in Nat

---------------------------------------------------------------------------
(* Total *)

\* The pairs that Total counts.
Pairs(f, S) == UNION {{x} \X (1 .. f[x]) : x \in S}

LEMMA Row ==
    ASSUME NEW x, NEW n \in Nat
    PROVE  IsFiniteSet({x} \X (1 .. n)) /\ Cardinality({x} \X (1 .. n)) = n
<1>1. IsFiniteSet({x}) /\ Cardinality({x}) = 1
  BY FS_Singleton, Zenon
<1>2. IsFiniteSet(1 .. n) /\ Cardinality(1 .. n) = n
  BY FS_Interval
<1>3. /\ IsFiniteSet({x} \X (1 .. n))
      /\ Cardinality({x} \X (1 .. n)) = Cardinality({x}) * Cardinality(1 .. n)
  BY <1>1, <1>2, FS_Product, Zenon
<1> QED BY <1>1, <1>2, <1>3

LEMMA PairsFinite ==
    ASSUME NEW S, IsFiniteSet(S), NEW f, \A x \in S : f[x] \in Nat
    PROVE  IsFiniteSet(Pairs(f, S))
<1> DEFINE g == [x \in S |-> {x} \X (1 .. f[x])]
           T == {{x} \X (1 .. f[x]) : x \in S}
<1>1. g \in Surjection(S, T)
  BY Zenon DEF Surjection
<1>2. IsFiniteSet(T)
  <2> HIDE DEF g, T
  <2> QED BY <1>1, FS_Surjection, Zenon
<1>3. \A R \in T : IsFiniteSet(R)
  <2>1. \A x \in S : IsFiniteSet({x} \X (1 .. f[x]))
    BY Row, Zenon
  <2> QED BY <2>1, Zenon
<1> QED
  <2> HIDE DEF T
  <2>1. IsFiniteSet(UNION T)
    BY <1>2, <1>3, FS_UNION, Zenon
  <2> QED BY <2>1, Zenon DEF T, Pairs

\* One x apart from the others.
LEMMA TotalSplit ==
    ASSUME NEW S, IsFiniteSet(S), NEW f, \A y \in S : f[y] \in Nat, NEW x \in S
    PROVE  /\ Total(f, S) = Total(f, S \ {x}) + f[x]
           /\ Total(f, S) \in Nat /\ Total(f, S \ {x}) \in Nat
<1> DEFINE R == Pairs(f, S \ {x})
           X == {x} \X (1 .. f[x])
<1>1. IsFiniteSet(S \ {x})
  BY FS_RemoveElement, Zenon
<1>2. IsFiniteSet(R) /\ IsFiniteSet(X) /\ Cardinality(X) = f[x]
  BY <1>1, PairsFinite, Row, Zenon
<1>3. Pairs(f, S) = R \cup X /\ R \cap X = {}
  BY DEF Pairs
<1>4. Cardinality(R \cap X) = 0 /\ Cardinality(R) \in Nat
  BY <1>2, <1>3, FS_EmptySet, FS_CardinalityType, Zenon
<1>5. Cardinality(R \cup X) = Cardinality(R) + Cardinality(X) - Cardinality(R \cap X)
  <2> HIDE DEF R, X
  <2> QED BY <1>2, FS_Union, Zenon
<1>6. Total(f, S) = Cardinality(Pairs(f, S)) /\ Total(f, S \ {x}) = Cardinality(R)
  BY Zenon DEF Total, Pairs
<1> HIDE DEF R, X
<1> QED BY <1>2, <1>3, <1>4, <1>5, <1>6

\* A change of one x changes the sum by as much.
LEMMA TotalUpdate ==
    ASSUME NEW S, IsFiniteSet(S), NEW f, \A y \in S : f[y] \in Nat,
           NEW g, \A y \in S : g[y] \in Nat,
           NEW x \in S, \A y \in S \ {x} : g[y] = f[y]
    PROVE  /\ Total(g, S) = Total(f, S) + g[x] - f[x]
           /\ Total(f, S) \in Nat /\ Total(g, S) \in Nat
<1>1. Total(g, S \ {x}) = Total(f, S \ {x})
  <2>1. {{y} \X (1 .. g[y]) : y \in S \ {x}} = {{y} \X (1 .. f[y]) : y \in S \ {x}}
    BY Zenon
  <2> QED BY <2>1, Zenon DEF Total
<1>2. /\ Total(f, S) = Total(f, S \ {x}) + f[x]
      /\ Total(f, S) \in Nat /\ Total(f, S \ {x}) \in Nat
  BY TotalSplit, Zenon
<1>3. Total(g, S) = Total(g, S \ {x}) + g[x] /\ Total(g, S) \in Nat
  BY ZenonT(40), TotalSplit
<1> QED BY <1>1, <1>2, <1>3

\* No x has anything.
LEMMA TotalZero ==
    ASSUME NEW S, NEW f, \A x \in S : f[x] = 0
    PROVE  Total(f, S) = 0
<1>1. \A x \in S : {x} \X (1 .. f[x]) = {}
  OBVIOUS
<1>2. UNION {{x} \X (1 .. f[x]) : x \in S} = {}
  BY <1>1, Zenon
<1> QED BY <1>2, FS_EmptySet, Zenon DEF Total

---------------------------------------------------------------------------
(* The inductive invariant *)

NeedOf(l, k) == IF l \in {"take", "tryWait"} THEN k.got ELSE 0
Sleeps(l) == IF l \in {"sleep", "adjust", "signalled"} THEN 1 ELSE 0

\* What a call asks for and has got is at most MaxBulk.
Fits(l, k) ==
    /\ k.max <= MaxBulk /\ k.got <= MaxBulk
    /\ l \notin {"idle", "take"} => k.max >= 1 /\ k.got + k.max <= MaxBulk

Types ==
    /\ items \in Nat /\ enqueued \in Nat /\ items <= enqueued /\ enqueued <= MaxItems
    /\ m_count \in Int /\ m_sema \in Nat
    /\ posts \in [Producers -> Nat] /\ unsignalled \in [Producers -> Nat]
    /\ pc \in [Consumers -> Pcs] /\ call \in [Consumers -> Calls]
    /\ \A c \in Consumers : Fits(pc[c], call[c])

\* A producer posts before it enqueues again.
PostsFirst == \A p \in Producers : unsignalled[p] > 0 => posts[p] = 0

Unsignalled == Total(unsignalled, Producers)
Posts == Total(posts, Producers)
Permits == Total(Need, Consumers)
Asleep == Cardinality(Waiters)

\* Every item is yet to be signalled, or has its permit: with a consumer, in
\* the count, or on its way to a consumer the count was decremented for.
Balance == items = Unsignalled + Permits + m_count + Asleep

Inv == Types /\ PostsFirst /\ Balance /\ PostsMatch

\* What a step of consumer c changes of the sums.
LEMMA ConsumerStep ==
    ASSUME Finite, Types, NEW c \in Consumers, NEW l \in Pcs, NEW k \in Calls,
           Fits(l, k), Goto(c, l, k)
    PROVE  /\ pc' \in [Consumers -> Pcs] /\ call' \in [Consumers -> Calls]
           /\ \A d \in Consumers : Fits(pc'[d], call'[d])
           /\ Permits \in Nat /\ Permits' \in Nat
           /\ Permits' = Permits + NeedOf(l, k) - NeedOf(pc[c], call[c])
           /\ Asleep \in Nat /\ Asleep' \in Nat
           /\ Asleep' = Asleep + Sleeps(l) - Sleeps(pc[c])
<1> USE DEF Types
<1>1. /\ pc' \in [Consumers -> Pcs] /\ call' \in [Consumers -> Calls]
      /\ pc'[c] = l /\ call'[c] = k
      /\ \A d \in Consumers \ {c} : pc'[d] = pc[d] /\ call'[d] = call[d]
  BY Zenon DEF Goto
<1>2. \A d \in Consumers : Fits(pc'[d], call'[d])
  BY <1>1, Zenon
<1>3. \A m \in Pcs, j \in Calls : NeedOf(m, j) \in Nat
  BY Zenon DEF NeedOf, Calls
<1>4. /\ \A d \in Consumers : Need[d] = NeedOf(pc[d], call[d]) /\ Need[d] \in Nat
      /\ \A d \in Consumers : Need'[d] = NeedOf(pc'[d], call'[d]) /\ Need'[d] \in Nat
  <2>1. /\ \A d \in Consumers : Need[d] = NeedOf(pc[d], call[d])
        /\ \A d \in Consumers : Need'[d] = NeedOf(pc'[d], call'[d])
    BY Zenon DEF Need, NeedOf
  <2> QED BY <1>1, <1>3, <2>1
<1>5. \A d \in Consumers \ {c} : Need'[d] = Need[d]
  BY <1>1, <1>4, Zenon
<1>6. /\ Total(Need', Consumers) = Total(Need, Consumers) + Need'[c] - Need[c]
      /\ Total(Need, Consumers) \in Nat /\ Total(Need', Consumers) \in Nat
  <2>1. IsFiniteSet(Consumers)
    BY Zenon DEF Finite
  <2> QED BY SMTT(40), <1>4, <1>5, <2>1, TotalUpdate
<1>7. /\ Permits \in Nat /\ Permits' \in Nat
      /\ Permits' = Permits + NeedOf(l, k) - NeedOf(pc[c], call[c])
  BY <1>1, <1>4, <1>6, Zenon DEF Permits
<1>8. IsFiniteSet(Waiters) /\ IsFiniteSet(Waiters \ {c})
  BY FS_Subset, FS_RemoveElement, Zenon DEF Waiters, Finite
<1>9. Asleep \in Nat /\ Cardinality(Waiters \ {c}) = Asleep - Sleeps(pc[c])
  <2>1. c \in Waiters <=> Sleeps(pc[c]) = 1
    BY DEF Waiters, Sleeps
  <2>2. Cardinality(Waiters \ {c}) = IF c \in Waiters THEN Asleep - 1 ELSE Asleep
    BY <1>8, FS_RemoveElement, Zenon DEF Asleep
  <2>3. Asleep \in Nat /\ Sleeps(pc[c]) \in {0, 1}
    BY <1>8, FS_CardinalityType, Zenon DEF Asleep, Sleeps
  <2> QED BY <2>1, <2>2, <2>3
<1>10. /\ Sleeps(l) = 1 => Waiters' = (Waiters \ {c}) \cup {c}
       /\ Sleeps(l) = 0 => Waiters' = Waiters \ {c}
       /\ Sleeps(l) \in {0, 1}
  BY <1>1 DEF Waiters, Sleeps
<1>11. Asleep' = Asleep + Sleeps(l) - Sleeps(pc[c]) /\ Asleep' \in Nat
  <2>1. CASE Sleeps(l) = 1
    <3>1. Cardinality((Waiters \ {c}) \cup {c}) = Cardinality(Waiters \ {c}) + 1
      BY <1>8, FS_AddElement, Zenon
    <3>2. Asleep' \in Nat
      BY <1>8, <1>10, <2>1, FS_AddElement, FS_CardinalityType, Zenon DEF Asleep
    <3>3. Asleep' = Cardinality(Waiters \ {c}) + 1
      BY <1>10, <2>1, <3>1, Zenon DEF Asleep
    <3> QED BY <1>9, <2>1, <3>2, <3>3 DEF Sleeps
  <2>2. CASE Sleeps(l) = 0
    <3>1. Cardinality(Waiters \ {c}) \in Nat
      BY <1>8, FS_CardinalityType, Zenon
    <3> QED BY <1>9, <1>10, <2>2, <3>1 DEF Asleep, Sleeps
  <2> QED BY <1>10, <2>1, <2>2, Zenon
<1> QED BY <1>1, <1>2, <1>7, <1>9, <1>11, Zenon

\* What a step that leaves the consumers, or the producers, alone keeps.
LEMMA ConsumersStay ==
    ASSUME UNCHANGED <<pc, call>> PROVE Permits' = Permits /\ Asleep' = Asleep
  BY Zenon DEF Permits, Asleep, Need, Waiters

LEMMA ProducersStay ==
    ASSUME UNCHANGED <<posts, unsignalled>>
    PROVE  Posts' = Posts /\ Unsignalled' = Unsignalled /\ (PostsFirst => PostsFirst')
  BY Zenon DEF Posts, Unsignalled, PostsFirst

LEMMA SumsAreNumbers ==
    ASSUME Finite, Types
    PROVE  /\ Unsignalled \in Nat /\ Posts \in Nat /\ Permits \in Nat /\ Asleep \in Nat
           /\ Asleep <= Cardinality(Consumers) /\ Cardinality(Consumers) \in Nat
<1>1. IsFiniteSet(Producers) /\ IsFiniteSet(Consumers)
  BY Zenon DEF Finite
<1>2. /\ \A p \in Producers : posts[p] \in Nat /\ unsignalled[p] \in Nat
      /\ \A c \in Consumers : Need[c] \in Nat
  BY Zenon DEF Types, Need, Calls
<1>3. ASSUME NEW S, IsFiniteSet(S), NEW f, \A x \in S : f[x] \in Nat
      PROVE  Total(f, S) \in Nat
  <2>1. IsFiniteSet(Pairs(f, S))
    BY <1>3, PairsFinite, Zenon
  <2> QED BY <2>1, FS_CardinalityType, Zenon DEF Total, Pairs
<1>4. /\ Unsignalled \in Nat /\ Posts \in Nat /\ Permits \in Nat
  BY <1>1, <1>2, <1>3, Zenon DEF Unsignalled, Posts, Permits
<1>5. Waiters \in SUBSET Consumers
  BY Zenon DEF Waiters
<1>6. /\ IsFiniteSet(Waiters) /\ Cardinality(Waiters) <= Cardinality(Consumers)
      /\ Cardinality(Consumers) \in Nat
  BY <1>1, <1>5, FS_Subset, FS_CardinalityType, Zenon
<1>7. Asleep \in Nat
  BY <1>6, FS_CardinalityType, Zenon DEF Asleep
<1> QED BY <1>4, <1>6, <1>7, Zenon DEF Asleep

LEMMA InvInit == Finite /\ Init => Inv
<1> SUFFICES ASSUME Finite, Init PROVE Inv
  BY Zenon
<1>1. /\ items = 0 /\ enqueued = 0 /\ m_count = 0 /\ m_sema = 0
      /\ posts = [p \in Producers |-> 0] /\ unsignalled = posts
      /\ pc = [c \in Consumers |-> "idle"] /\ call = [c \in Consumers |-> Blank]
  BY Zenon DEF Init
<1>2. Blank \in Calls /\ Fits("idle", Blank)
  BY DEF Blank, Calls, Kinds, Fits, Finite
<1>3. Types /\ PostsFirst
  BY <1>1, <1>2 DEF Types, PostsFirst, Pcs, Finite
<1>4. /\ \A p \in Producers : posts[p] = 0 /\ unsignalled[p] = 0
      /\ \A c \in Consumers : Need[c] = 0
      /\ Waiters = {}
  BY <1>1, Zenon DEF Need, Waiters
<1>5. Unsignalled = 0 /\ Posts = 0 /\ Permits = 0 /\ Asleep = 0
  BY <1>4, TotalZero, FS_EmptySet, Zenon DEF Unsignalled, Posts, Permits, Asleep
<1> QED BY <1>1, <1>3, <1>5 DEF Inv, Balance, PostsMatch, Posts, Asleep

\* The steps of a producer.
LEMMA ProducerInv ==
    ASSUME Finite, Inv, NEW p \in Producers, enqueue(p)
    PROVE  Inv'
<1> USE DEF Inv
<1>s. /\ Unsignalled \in Nat /\ Posts \in Nat /\ Permits \in Nat /\ Asleep \in Nat
  BY SumsAreNumbers, Zenon
<1>f. IsFiniteSet(Producers) /\ posts \in [Producers -> Nat] /\ unsignalled \in [Producers -> Nat]
  BY Zenon DEF Finite, Types
<1>1. ASSUME NEW n \in 1 .. MaxBulk, Enqueue(p, n) PROVE Inv'
  <2>1. /\ unsignalled[p] = 0 /\ posts[p] = 0 /\ enqueued + n <= MaxItems
        /\ items' = items + n /\ enqueued' = enqueued + n
        /\ unsignalled' = [unsignalled EXCEPT ![p] = n]
        /\ UNCHANGED <<m_count, m_sema, posts, pc, call>>
    BY <1>1, Zenon DEF Enqueue, sema
  <2>2. n \in Nat /\ unsignalled' \in [Producers -> Nat]
    BY <1>f, <2>1 DEF Finite
  <2>3. /\ \A q \in Producers : unsignalled[q] \in Nat /\ unsignalled'[q] \in Nat
        /\ \A q \in Producers \ {p} : unsignalled'[q] = unsignalled[q]
        /\ unsignalled'[p] = n
    BY <1>f, <2>1, <2>2, Zenon
  <2>4. Unsignalled' = Unsignalled + n
    <3>1. Total(unsignalled', Producers)
              = Total(unsignalled, Producers) + unsignalled'[p] - unsignalled[p]
      BY <1>f, <2>3, TotalUpdate
    <3> QED BY <1>s, <2>1, <2>2, <2>3, <3>1 DEF Unsignalled
  <2>5. Permits' = Permits /\ Asleep' = Asleep /\ Posts' = Posts
    BY <2>1, ConsumersStay, Zenon DEF Posts
  <2>6. Types' /\ PostsFirst'
    BY <2>1, <2>2, <2>3 DEF Types, PostsFirst, Finite
  <2>7. Balance'
    BY <1>s, <2>1, <2>2, <2>4, <2>5 DEF Balance, Types
  <2>8. PostsMatch'
    BY <2>1, <2>5, Zenon DEF PostsMatch, Posts, Asleep
  <2> QED BY <2>6, <2>7, <2>8, Zenon
<1>2. ASSUME Signal(p) PROVE Inv'
  <2> DEFINE n == unsignalled[p]
             r == ToRelease(m_count, n)
  <2>1. /\ n > 0 /\ m_count' = m_count + n
        /\ posts' = [posts EXCEPT ![p] = r] /\ unsignalled' = [unsignalled EXCEPT ![p] = 0]
        /\ UNCHANGED <<items, enqueued, m_sema, pc, call>>
    BY <1>2, Zenon DEF Signal
  <2>2. /\ n \in Nat /\ m_count \in Int /\ r \in Nat /\ posts[p] = 0
        /\ m_count < 0 /\ -m_count <= n => r = -m_count
        /\ m_count < 0 /\ -m_count > n => r = n
        /\ m_count >= 0 => r = 0
    BY <1>f, <2>1 DEF ToRelease, SmallerOf, Types, PostsFirst
  <2> HIDE DEF r, n
  <2>3. /\ posts' \in [Producers -> Nat] /\ unsignalled' \in [Producers -> Nat]
        /\ \A q \in Producers \ {p} : unsignalled'[q] = unsignalled[q] /\ posts'[q] = posts[q]
        /\ unsignalled'[p] = 0 /\ posts'[p] = r
    BY <1>f, <2>1, <2>2, Zenon
  <2>4. Unsignalled' = Unsignalled - n
    <3>1. Total(unsignalled', Producers)
              = Total(unsignalled, Producers) + unsignalled'[p] - unsignalled[p]
      BY <1>f, <2>3, TotalUpdate
    <3> QED BY <1>s, <2>2, <2>3, <3>1 DEF Unsignalled, n
  <2>5. Posts' = Posts + r
    <3>1. Total(posts', Producers) = Total(posts, Producers) + posts'[p] - posts[p]
      BY <1>f, <2>3, TotalUpdate
    <3> QED BY <1>s, <2>2, <2>3, <3>1 DEF Posts
  <2>6. Permits' = Permits /\ Asleep' = Asleep
    BY <2>1, ConsumersStay, Zenon
  <2>7. Types' /\ PostsFirst'
    BY <2>1, <2>2, <2>3 DEF Types, PostsFirst
  <2>8. Balance'
    BY <1>s, <2>1, <2>2, <2>4, <2>6 DEF Balance, Types
  <2>9. PostsMatch'
    <3>1. /\ m_sema + Posts = Asleep + (IF m_count < 0 THEN m_count ELSE 0)
          /\ m_sema \in Nat
      BY Zenon DEF PostsMatch, Posts, Asleep, Types
    <3>2. m_sema' + Posts' = Asleep' + (IF m_count' < 0 THEN m_count' ELSE 0)
      BY <1>s, <2>1, <2>2, <2>5, <2>6, <3>1
    <3> QED BY <3>2, Zenon DEF PostsMatch, Posts, Asleep
  <2> QED BY <2>7, <2>8, <2>9, Zenon
<1>3. ASSUME Post(p) PROVE Inv'
  <2>1. /\ posts[p] > 0 /\ m_sema' = m_sema + 1
        /\ posts' = [posts EXCEPT ![p] = posts[p] - 1]
        /\ UNCHANGED <<items, enqueued, m_count, unsignalled, pc, call>>
    BY <1>3, Zenon DEF Post
  <2>2. /\ posts' \in [Producers -> Nat] /\ posts'[p] = posts[p] - 1 /\ posts[p] \in Nat
        /\ \A q \in Producers \ {p} : posts'[q] = posts[q]
    BY <1>f, <2>1
  <2>3. Posts' = Posts - 1
    <3>1. Total(posts', Producers) = Total(posts, Producers) + posts'[p] - posts[p]
      BY <1>f, <2>2, TotalUpdate
    <3> QED BY <1>s, <2>2, <3>1 DEF Posts
  <2>4. Permits' = Permits /\ Asleep' = Asleep /\ Unsignalled' = Unsignalled
    BY <2>1, ConsumersStay, Zenon DEF Unsignalled
  <2>5. Types' /\ PostsFirst'
    BY <2>1, <2>2 DEF Types, PostsFirst
  <2>6. Balance'
    BY <2>1, <2>4, Zenon DEF Balance
  <2>7. PostsMatch'
    <3>1. /\ m_sema + Posts = Asleep + (IF m_count < 0 THEN m_count ELSE 0)
          /\ m_sema \in Nat
      BY Zenon DEF PostsMatch, Posts, Asleep, Types
    <3>2. m_sema' + Posts' = Asleep' + (IF m_count' < 0 THEN m_count' ELSE 0)
      BY <1>s, <2>1, <2>3, <2>4, <3>1
    <3> QED BY <3>2, Zenon DEF PostsMatch, Posts, Asleep
  <2> QED BY <2>5, <2>6, <2>7, Zenon
<1> QED BY <1>1, <1>2, <1>3, Zenon DEF enqueue

Owed(n) == IF n < 0 THEN n ELSE 0

\* What consumer c takes from the items, the count and the kernel semaphore on
\* its way to l is what it gets.
Pays(c, l, k) ==
    /\ items' <= items
    /\ items' - items = (NeedOf(l, k) - NeedOf(pc[c], call[c])) + (m_count' - m_count)
                        + (Sleeps(l) - Sleeps(pc[c]))
    /\ m_sema' - m_sema = (Sleeps(l) - Sleeps(pc[c])) + (Owed(m_count') - Owed(m_count))

\* A step of consumer c that pays for what it takes keeps the invariant.
LEMMA ConsumerKeeps ==
    ASSUME Finite, Inv, NEW c \in Consumers, NEW l \in Pcs, NEW k \in Calls,
           Fits(l, k), Goto(c, l, k), UNCHANGED producers,
           items' \in Nat, m_count' \in Int, m_sema' \in Nat,
           Pays(c, l, k)
    PROVE  Inv'
<1> USE DEF Inv
<1>1. /\ pc' \in [Consumers -> Pcs] /\ call' \in [Consumers -> Calls]
      /\ \A d \in Consumers : Fits(pc'[d], call'[d])
      /\ Permits' \in Nat /\ Permits' = Permits + NeedOf(l, k) - NeedOf(pc[c], call[c])
      /\ Asleep' \in Nat /\ Asleep' = Asleep + Sleeps(l) - Sleeps(pc[c])
  BY ConsumerStep, Zenon
<1>2. Posts' = Posts /\ Unsignalled' = Unsignalled /\ PostsFirst'
  BY ProducersStay, Zenon DEF producers
<1>3. /\ Unsignalled \in Nat /\ Posts \in Nat /\ Permits \in Nat /\ Asleep \in Nat
  BY SumsAreNumbers, Zenon
<1>4. /\ NeedOf(l, k) \in Nat /\ NeedOf(pc[c], call[c]) \in Nat
      /\ Sleeps(l) \in Nat /\ Sleeps(pc[c]) \in Nat
      /\ Owed(m_count) \in Int /\ Owed(m_count') \in Int
      /\ items \in Nat /\ m_count \in Int /\ m_sema \in Nat /\ enqueued \in Nat
  BY DEF NeedOf, Sleeps, Calls, Types, Owed
<1>5. Types'
  <2>1. items' <= enqueued' /\ enqueued' \in Nat /\ enqueued' <= MaxItems
    BY <1>4 DEF Types, producers, Finite, Pays
  <2> QED BY <1>1, <2>1, Zenon DEF Types, producers
<1>6. Balance'
  BY <1>1, <1>2, <1>3, <1>4 DEF Balance, Pays
<1>7. PostsMatch'
  <2>1. m_sema + Posts = Asleep + Owed(m_count)
    BY Zenon DEF PostsMatch, Posts, Asleep, Owed
  <2>2. m_sema' + Posts' = Asleep' + Owed(m_count')
    <3>1. PICK a \in Int, b \in Int, x \in Int, y \in Int :
                   a = Owed(m_count) /\ b = Owed(m_count') /\ x = Sleeps(l) /\ y = Sleeps(pc[c])
      BY <1>4
    <3>2. PICK m \in Int, n \in Int, p \in Int, s \in Int, r \in Int :
                   m = m_sema /\ n = m_sema' /\ p = Posts /\ s = Asleep /\ r = Asleep'
      BY <1>1, <1>3, <1>4
    <3>3. n - m = (x - y) + (b - a) /\ m + p = s + a /\ r = s + x - y
      BY <1>1, <2>1, <3>1, <3>2, Zenon DEF Pays
    <3> HIDE DEF Inv
    <3>4. n + p = r + b
      BY <3>3
    <3> QED BY <1>2, <3>1, <3>2, <3>4, Zenon
  <2> QED BY <2>2, Zenon DEF PostsMatch, Posts, Asleep, Owed
<1> QED BY <1>2, <1>5, <1>6, <1>7, Zenon

\* The steps of a consumer.
LEMMA ConsumerInv ==
    ASSUME Finite, Inv, NEW c \in Consumers, dequeue(c)
    PROVE  Inv'
<1> USE DEF Inv
<1> DEFINE k == call[c]
<1>t. /\ pc[c] \in Pcs /\ k \in Calls /\ Fits(pc[c], k)
      /\ k.kind \in Kinds /\ k.max \in Nat /\ k.got \in Nat
      /\ items \in Nat /\ m_count \in Int /\ m_sema \in Nat /\ MaxBulk \in Nat
  BY Zenon DEF Types, Calls, Finite
<1>b. Blank \in Calls /\ Blank.got = 0 /\ Blank.max = 0 /\ Fits("idle", Blank)
  BY <1>t DEF Blank, Calls, Kinds, Fits
<1> HIDE DEF k
<1> DEFINE Kept == items' = items /\ UNCHANGED producers
\* One permit is got: from the count, or from the kernel semaphore.
<1>g. ASSUME GotOne(c), pc[c] \in {"spin", "sleep", "signalled"}, Kept,
             \/ /\ pc[c] = "spin" /\ m_count > 0 /\ m_count' = m_count - 1 /\ m_sema' = m_sema
             \/ /\ pc[c] # "spin" /\ m_sema > 0 /\ m_sema' = m_sema - 1 /\ m_count' = m_count
      PROVE  Inv'
  <2> DEFINE l == IF k.max > 1 THEN "tryWait" ELSE "take"
             j == [k EXCEPT !.got = 1, !.max = k.max - 1]
  <2>1. Goto(c, l, j)
    BY <1>g, Zenon DEF GotOne, k
  <2>2. k.max >= 1 /\ k.got + k.max <= MaxBulk /\ k.max <= MaxBulk
    BY <1>g, <1>t, Zenon DEF Fits
  <2>3. j \in Calls /\ j.got = 1 /\ j.max = k.max - 1
    <3> DEFINE i == [k EXCEPT !.got = 1]
    <3>1. i \in Calls /\ i.got = 1 /\ k.max - 1 \in Nat
      <4>1. k.max - 1 \in Nat
        BY <1>t, <2>2
      <4> QED BY <1>t, <4>1, Zenon DEF Calls
    <3> HIDE DEF i
    <3>2. /\ [i EXCEPT !.max = k.max - 1] \in Calls /\ [i EXCEPT !.max = k.max - 1].got = 1
          /\ [i EXCEPT !.max = k.max - 1].max = k.max - 1
      BY <3>1, Zenon DEF Calls
    <3> QED BY <3>2, Zenon DEF i
  <2>4. l \in Pcs /\ Fits(l, j)
    BY <1>t, <2>2, <2>3 DEF Fits, Pcs
  <2>5. /\ NeedOf(l, j) = 1 /\ NeedOf(pc[c], call[c]) = 0 /\ Sleeps(l) = 0
        /\ pc[c] = "spin" => Sleeps(pc[c]) = 0
        /\ pc[c] # "spin" => Sleeps(pc[c]) = 1
    BY <1>g, <2>3, Zenon DEF NeedOf, Sleeps
  <2> HIDE DEF l, j
  <2>6. /\ items' \in Nat /\ items' <= items /\ m_count' \in Int /\ m_sema' \in Nat
        /\ items' - items = (NeedOf(l, j) - NeedOf(pc[c], call[c])) + (m_count' - m_count)
                            + (Sleeps(l) - Sleeps(pc[c]))
        /\ m_sema' - m_sema = (Sleeps(l) - Sleeps(pc[c])) + (Owed(m_count') - Owed(m_count))
    BY <1>g, <1>t, <2>5 DEF Owed
  <2> QED BY <1>g, <2>1, <2>3, <2>4, <2>6, ConsumerKeeps, Zenon DEF Pays
\* Permits are got from the count.
<1>n. ASSUME NEW n \in Nat \ {0}, n <= m_count, n <= k.max, NEW g \in Nat,
             (pc[c] = "tryWait" /\ g = k.got + n) \/ (pc[c] = "spin" /\ g = n),
             NEW j \in Calls, j.got = g, j.max = k.max, Goto(c, "take", j), Kept,
             m_count' = m_count - n, m_sema' = m_sema
      PROVE  Inv'
  <2>1. j \in Calls /\ j.got = g /\ j.max = k.max
    BY <1>n, Zenon
  <2>2. Fits("take", j)
    BY <1>t, <1>n, <2>1 DEF Fits
  <2>3. /\ NeedOf("take", j) - NeedOf(pc[c], call[c]) = n
        /\ Sleeps("take") = 0 /\ Sleeps(pc[c]) = 0 /\ "take" \in Pcs
    BY <1>t, <1>n, <2>1 DEF NeedOf, Sleeps, Pcs, k
  <2>4. /\ items' \in Nat /\ items' <= items /\ m_count' \in Int /\ m_sema' \in Nat
        /\ items' - items = (NeedOf("take", j) - NeedOf(pc[c], call[c])) + (m_count' - m_count)
                            + (Sleeps("take") - Sleeps(pc[c]))
        /\ m_sema' - m_sema = (Sleeps("take") - Sleeps(pc[c])) + (Owed(m_count') - Owed(m_count))
    BY <1>n, <1>t, <2>3 DEF Owed
  <2> QED BY <1>n, <2>1, <2>2, <2>3, <2>4, ConsumerKeeps, Zenon DEF Pays
\* The consumer goes on, the permits it has and its part of the count the same.
<1>s. ASSUME NEW l \in Pcs, NEW j \in Calls, Fits(l, j), Goto(c, l, j), Kept,
             m_sema' = m_sema, NeedOf(l, j) = NeedOf(pc[c], k),
             \/ m_count' = m_count /\ Sleeps(l) = Sleeps(pc[c])
             \/ m_count' = m_count + 1 /\ m_count < 0 /\ Sleeps(l) = 0 /\ Sleeps(pc[c]) = 1
             \/ m_count' = m_count - 1 /\ m_count <= 0 /\ Sleeps(l) = 1 /\ Sleeps(pc[c]) = 0
      PROVE  Inv'
  <2>1. NeedOf(l, j) \in Nat /\ Sleeps(l) \in Nat /\ Sleeps(pc[c]) \in Nat
    BY Zenon DEF NeedOf, Calls, Sleeps
  <2>2. /\ items' \in Nat /\ items' <= items /\ m_count' \in Int /\ m_sema' \in Nat
        /\ items' - items = (NeedOf(l, j) - NeedOf(pc[c], call[c])) + (m_count' - m_count)
                            + (Sleeps(l) - Sleeps(pc[c]))
        /\ m_sema' - m_sema = (Sleeps(l) - Sleeps(pc[c])) + (Owed(m_count') - Owed(m_count))
    <3>1. items' = items /\ items \in Nat /\ m_sema' = m_sema /\ m_sema \in Nat /\ m_count \in Int
      BY <1>s, <1>t, Zenon
    <3>2. m_count' \in Int /\ (m_count' - m_count) + (Sleeps(l) - Sleeps(pc[c])) = 0
      BY <1>s, <2>1, <3>1
    <3>3. (Sleeps(l) - Sleeps(pc[c])) + (Owed(m_count') - Owed(m_count)) = 0
      BY <1>s, <2>1, <3>1 DEF Owed
    <3>4. NeedOf(l, j) - NeedOf(pc[c], call[c]) = 0
      BY <1>s, <2>1 DEF k
    <3> QED BY <2>1, <3>1, <3>2, <3>3, <3>4
  <2> QED BY <1>s, <2>2, ConsumerKeeps, Zenon DEF Pays
<1>1. ASSUME NEW kind \in Kinds, NEW max \in 1 .. MaxBulk, Call(c, kind, max) PROVE Inv'
  <2> DEFINE j == [Blank EXCEPT !.kind = kind, !.max = max]
  <2>1. j \in Calls /\ j.got = 0 /\ j.max = max
    <3> DEFINE i == [Blank EXCEPT !.kind = kind]
    <3>1. i \in Calls /\ i.got = 0 /\ max \in Nat
      BY <1>t, <1>b DEF Calls
    <3> HIDE DEF i
    <3>2. /\ [i EXCEPT !.max = max] \in Calls /\ [i EXCEPT !.max = max].got = 0
          /\ [i EXCEPT !.max = max].max = max
      BY <3>1, Zenon DEF Calls
    <3> QED BY <3>2, Zenon DEF i
  <2>2. Fits("tryWait", j)
    BY <1>t, <2>1 DEF Fits
  <2>3. /\ NeedOf("tryWait", j) = 0 /\ pc[c] = "idle" /\ NeedOf(pc[c], k) = 0
        /\ Sleeps("tryWait") = Sleeps(pc[c]) /\ "tryWait" \in Pcs
    BY <1>1, <2>1 DEF NeedOf, Sleeps, Pcs, Call
  <2>4. Goto(c, "tryWait", j) /\ Kept /\ m_sema' = m_sema /\ m_count' = m_count
    BY <1>1, Zenon DEF Call, sema
  <2> HIDE DEF j
  <2> QED BY <1>s, <2>1, <2>2, <2>3, <2>4, Zenon
<1>2. ASSUME TryWait(c) PROVE Inv'
  <2> DEFINE n == SmallerOf(m_count, k.max)
  <2>1. pc[c] = "tryWait" /\ Kept /\ m_sema' = m_sema
    BY <1>2, Zenon DEF TryWait
  <2>2. CASE n > 0
    <3>1. n \in Nat \ {0} /\ n <= m_count /\ n <= k.max /\ k.got + n \in Nat
      BY <1>t, <2>2 DEF SmallerOf
    <3> DEFINE j == [k EXCEPT !.got = k.got + n]
    <3>2. m_count' = m_count - n /\ Goto(c, "take", j)
      BY <1>2, <2>2, Zenon DEF TryWait, k
    <3> HIDE DEF n
    <3>3. j \in Calls /\ j.got = k.got + n /\ j.max = k.max
      BY <1>t, <3>1, Zenon DEF Calls
    <3> HIDE DEF j
    <3> QED BY <1>n, <2>1, <3>1, <3>2, <3>3, Zenon
  <2>3. CASE ~(n > 0)
    <3>1. /\ m_count' = m_count
          /\ IF k.got > 0 THEN Goto(c, "take", k)
             ELSE IF k.kind = "try" THEN Goto(c, "idle", Blank)
             ELSE Goto(c, "spin", k)
      BY <1>2, <2>3, Zenon DEF TryWait, k
    <3>2. /\ Fits("take", k) /\ Fits("spin", k)
          /\ NeedOf("take", k) = NeedOf(pc[c], k)
          /\ ~(k.got > 0) => NeedOf("spin", k) = NeedOf(pc[c], k) /\ NeedOf("idle", Blank) = NeedOf(pc[c], k)
      BY <1>t, <2>1 DEF Fits, NeedOf
    <3>3. /\ {"take", "idle", "spin"} \subseteq Pcs
          /\ \A l \in {"take", "idle", "spin"} : Sleeps(l) = Sleeps(pc[c])
      BY <2>1, Zenon DEF Pcs, Sleeps
    <3>4. CASE k.got > 0
      BY <1>s, <1>t, <2>1, <3>1, <3>2, <3>3, <3>4, Zenon
    <3>5. CASE ~(k.got > 0) /\ k.kind = "try"
      BY <1>s, <1>b, <2>1, <3>1, <3>2, <3>3, <3>5, Zenon
    <3>6. CASE ~(k.got > 0) /\ k.kind # "try"
      BY <1>s, <1>t, <2>1, <3>1, <3>2, <3>3, <3>6, Zenon
    <3> QED BY <3>4, <3>5, <3>6, Zenon
  <2> QED BY <2>2, <2>3, Zenon
<1>3. ASSUME Spin(c) PROVE Inv'
  <2> DEFINE n == SmallerOf(m_count, k.max)
             j == [k EXCEPT !.got = n]
  <2>1. /\ pc[c] = "spin" /\ Kept /\ m_sema' = m_sema /\ n > 0
        /\ m_count' = m_count - n /\ Goto(c, "take", j)
    BY <1>3, Zenon DEF Spin, k
  <2>2. n \in Nat \ {0} /\ n <= m_count /\ n <= k.max
    BY <1>t, <2>1 DEF SmallerOf
  <2> HIDE DEF n
  <2>3. j \in Calls /\ j.got = n /\ j.max = k.max
    BY <1>t, <2>2, Zenon DEF Calls
  <2> HIDE DEF j
  <2> QED BY <1>n, <2>1, <2>2, <2>3, Zenon
<1>4. ASSUME FetchSub(c) PROVE Inv'
  <2>1. /\ pc[c] = "spin" /\ Kept /\ m_sema' = m_sema /\ m_count' = m_count - 1
        /\ IF m_count > 0 THEN GotOne(c) ELSE Goto(c, "sleep", k)
    BY <1>4, Zenon DEF FetchSub, k
  <2>2. CASE m_count > 0
    BY <1>g, <2>1, <2>2, Zenon
  <2>3. CASE ~(m_count > 0)
    <3>1. Goto(c, "sleep", k) /\ m_count <= 0
      BY <1>t, <2>1, <2>3
    <3>2. /\ "sleep" \in Pcs /\ Fits("sleep", k) /\ NeedOf("sleep", k) = NeedOf(pc[c], k)
          /\ Sleeps("sleep") = 1 /\ Sleeps(pc[c]) = 0
      BY <1>t, <2>1, Zenon DEF Pcs, Fits, NeedOf, Sleeps
    <3> QED BY <1>s, <1>t, <2>1, <3>1, <3>2, Zenon
  <2> QED BY <2>2, <2>3, Zenon
<1>5. ASSUME Woken(c) PROVE Inv'
  <2>1. /\ pc[c] = "sleep" /\ Kept /\ m_sema > 0 /\ m_sema' = m_sema - 1
        /\ m_count' = m_count /\ GotOne(c)
    BY <1>5, Zenon DEF Woken
  <2> QED BY <1>g, <2>1, Zenon
<1>6. ASSUME TimedOut(c) PROVE Inv'
  <2>1. /\ pc[c] = "sleep" /\ Kept /\ m_sema' = m_sema /\ m_count' = m_count
        /\ Goto(c, "adjust", k)
    BY <1>6, Zenon DEF TimedOut, sema, k
  <2>2. /\ "adjust" \in Pcs /\ Fits("adjust", k) /\ NeedOf("adjust", k) = NeedOf(pc[c], k)
        /\ Sleeps("adjust") = Sleeps(pc[c])
    BY <1>t, <2>1, Zenon DEF Pcs, Fits, NeedOf, Sleeps
  <2> QED BY <1>s, <1>t, <2>1, <2>2, Zenon
<1>7. ASSUME Adjust(c) PROVE Inv'
  <2>1. /\ pc[c] = "adjust" /\ Kept /\ m_sema' = m_sema
        /\ IF m_count < 0 THEN m_count' = m_count + 1 /\ Goto(c, "idle", Blank)
           ELSE m_count' = m_count /\ Goto(c, "signalled", k)
    BY <1>7, Zenon DEF Adjust, k
  <2>2. /\ {"idle", "signalled"} \subseteq Pcs /\ Fits("signalled", k)
        /\ NeedOf("signalled", k) = NeedOf(pc[c], k) /\ NeedOf("idle", Blank) = NeedOf(pc[c], k)
        /\ Sleeps("signalled") = Sleeps(pc[c]) /\ Sleeps("idle") = 0 /\ Sleeps(pc[c]) = 1
    BY <1>t, <2>1, Zenon DEF Pcs, Fits, NeedOf, Sleeps
  <2>3. CASE m_count < 0
    BY <1>s, <1>b, <2>1, <2>2, <2>3, Zenon
  <2>4. CASE ~(m_count < 0)
    BY <1>s, <1>t, <2>1, <2>2, <2>4, Zenon
  <2> QED BY <2>3, <2>4, Zenon
<1>8. ASSUME Signalled(c) PROVE Inv'
  <2>1. /\ pc[c] = "signalled" /\ Kept /\ m_count' = m_count
        /\ IF m_sema > 0 THEN m_sema' = m_sema - 1 /\ GotOne(c)
           ELSE m_sema' = m_sema /\ Goto(c, "adjust", k)
    BY <1>8, Zenon DEF Signalled, k
  <2>2. CASE m_sema > 0
    BY <1>g, <2>1, <2>2, Zenon
  <2>3. CASE ~(m_sema > 0)
    <3>1. /\ "adjust" \in Pcs /\ Fits("adjust", k) /\ NeedOf("adjust", k) = NeedOf(pc[c], k)
          /\ Sleeps("adjust") = Sleeps(pc[c])
      BY <1>t, <2>1, Zenon DEF Pcs, Fits, NeedOf, Sleeps
    <3> QED BY <1>s, <1>t, <2>1, <2>3, <3>1, Zenon
  <2> QED BY <2>2, <2>3, Zenon
<1>9. ASSUME NEW n \in 0 .. MaxBulk, Take(c, n) PROVE Inv'
  <2> DEFINE j == IF n = k.got THEN Blank ELSE [k EXCEPT !.got = k.got - n]
             l == IF n = k.got THEN "idle" ELSE "take"
  <2>1. /\ pc[c] = "take" /\ n <= SmallerOf(items, k.got) /\ items' = items - n
        /\ Goto(c, l, j)
        /\ m_sema' = m_sema /\ m_count' = m_count /\ UNCHANGED producers
    BY <1>9, Zenon DEF Take, sema, k
  <2>2. n \in Nat /\ n <= items /\ n <= k.got
    BY <1>t, <2>1 DEF SmallerOf
  <2>3. /\ j \in Calls /\ l \in Pcs /\ Fits(l, j)
        /\ NeedOf(l, j) = k.got - n /\ NeedOf(pc[c], call[c]) = k.got
        /\ Sleeps(l) = 0 /\ Sleeps(pc[c]) = 0
    <3>1. CASE n = k.got
      BY <1>t, <1>b, <2>1, <2>2, <3>1 DEF Pcs, NeedOf, Sleeps, k
    <3>2. CASE n # k.got
      <4>1. j \in Calls /\ j.got = k.got - n /\ j.max = k.max
        BY <1>t, <2>2, <3>2 DEF Calls
      <4> QED BY <1>t, <2>1, <2>2, <3>2, <4>1 DEF Pcs, NeedOf, Sleeps, Fits, k
    <3> QED BY <3>1, <3>2, Zenon
  <2> HIDE DEF j, l
  <2>4. /\ items' \in Nat /\ items' <= items /\ m_count' \in Int /\ m_sema' \in Nat
        /\ items' - items = (NeedOf(l, j) - NeedOf(pc[c], call[c])) + (m_count' - m_count)
                            + (Sleeps(l) - Sleeps(pc[c]))
        /\ m_sema' - m_sema = (Sleeps(l) - Sleeps(pc[c])) + (Owed(m_count') - Owed(m_count))
    <3>1. /\ items \in Nat /\ k.got \in Nat /\ m_sema \in Nat /\ m_count \in Int
          /\ m_count' = m_count /\ m_sema' = m_sema /\ items' = items - n
      BY <1>t, <2>1, Zenon
    <3>2. items' \in Nat /\ items' <= items
      BY <2>2, <3>1
    <3>3. Owed(m_count') - Owed(m_count) = 0
      BY <3>1 DEF Owed
    <3> QED BY <2>2, <2>3, <3>1, <3>2, <3>3
  <2> QED BY <2>1, <2>3, <2>4, ConsumerKeeps, Zenon DEF Pays
<1> QED BY <1>1, <1>2, <1>3, <1>4, <1>5, <1>6, <1>7, <1>8, <1>9, Zenon DEF dequeue, Waiting

LEMMA InvStep == Finite /\ Inv /\ [Next]_vars => Inv'
<1> SUFFICES ASSUME Finite, Inv, [Next]_vars PROVE Inv'
  BY Zenon
<1>1. CASE Next
  BY <1>1, ProducerInv, ConsumerInv, Zenon DEF Next
<1>2. CASE UNCHANGED vars
  <2>1. /\ UNCHANGED <<items, enqueued, m_count, m_sema, posts, unsignalled, pc, call>>
    BY <1>2, Zenon DEF vars
  <2>2. Permits' = Permits /\ Asleep' = Asleep /\ Posts' = Posts /\ Unsignalled' = Unsignalled
    BY <2>1, ConsumersStay, ProducersStay, Zenon
  <2>3. Types' /\ PostsFirst'
    BY <2>1, Zenon DEF Inv, Types, PostsFirst
  <2>4. Balance' /\ PostsMatch'
    BY <2>1, <2>2, Zenon DEF Inv, Balance, PostsMatch, Posts, Asleep
  <2> QED BY <2>3, <2>4, Zenon DEF Inv
<1> QED BY <1>1, <1>2, Zenon

LEMMA Invariance == Finite => (Spec => []Inv)
<1> SUFFICES ASSUME Finite PROVE Spec => []Inv
  BY Zenon
<1>1. Init => Inv
  BY InvInit, Zenon
<1>2. Inv /\ [Next]_vars => Inv'
  BY InvStep, Zenon
<1> QED BY <1>1, <1>2, PTL DEF Spec

---------------------------------------------------------------------------

\* What the invariant says of the count.
LEMMA Count ==
    ASSUME Finite, Inv
    PROVE  /\ items >= Permits /\ m_count >= -Cardinality(Consumers) /\ m_count <= MaxItems
           /\ Cardinality(Consumers) \in Nat
<1>1. /\ Unsignalled \in Nat /\ Posts \in Nat /\ Permits \in Nat /\ Asleep \in Nat
      /\ Asleep <= Cardinality(Consumers) /\ Cardinality(Consumers) \in Nat
  BY SumsAreNumbers, Zenon DEF Inv
<1>2. /\ items \in Nat /\ items <= MaxItems /\ MaxItems \in Nat
      /\ m_count \in Int /\ m_sema \in Nat
  BY DEF Inv, Types, Finite
<1>3. m_sema + Posts = Asleep + (IF m_count < 0 THEN m_count ELSE 0)
  BY Zenon DEF Inv, PostsMatch, Posts, Asleep
<1>4. items = Unsignalled + Permits + m_count + Asleep
  BY Zenon DEF Inv, Balance
<1> HIDE DEF Unsignalled, Posts, Permits, Asleep
<1>5. Asleep + m_count >= 0
  BY <1>1, <1>2, <1>3
<1> QED BY <1>1, <1>2, <1>4, <1>5

\* Whoever has got permits, by tryWait, by spinning, from the kernel semaphore
\* or after a timeout that lost its race, finds as many items in the inner
\* queue, for every number of producers and consumers and every bulk size.
THEOREM PermitsHold == Finite => (Spec => []PermitsAreItems)
<1> SUFFICES ASSUME Finite PROVE Spec => []PermitsAreItems
  BY Zenon
<1>1. Inv => PermitsAreItems
  BY Count, Zenon DEF PermitsAreItems, Permits
<1>2. Spec => []Inv
  BY Invariance, Zenon
<1> QED BY <1>1, <1>2, PTL

\* No post of the kernel semaphore is lost or left over, timeouts that race with
\* signals included.
THEOREM PostsExact == Finite => (Spec => []PostsMatch)
<1> SUFFICES ASSUME Finite PROVE Spec => []PostsMatch
  BY Zenon
<1>1. Inv => PostsMatch
  BY Zenon DEF Inv
<1>2. Spec => []Inv
  BY Invariance, Zenon
<1> QED BY <1>1, <1>2, PTL

\* Between calls the semaphore's count is the number of items: no timeout and no
\* bulk wait leaves a permit behind or takes one too many.
THEOREM CountExact == Finite => (Spec => []CountIsItems)
<1> SUFFICES ASSUME Finite PROVE Spec => []CountIsItems
  BY Zenon
<1>1. Inv => CountIsItems
  <2> SUFFICES ASSUME Inv, \A c \in Consumers : pc[c] = "idle", Total(unsignalled, Producers) = 0
               PROVE  m_count = items
    BY Zenon DEF CountIsItems
  <2>1. (\A c \in Consumers : Need[c] = 0) /\ Waiters = {}
    BY Zenon DEF Need, Waiters
  <2>2. Permits = 0 /\ Asleep = 0 /\ Unsignalled = 0
    BY <2>1, TotalZero, FS_EmptySet, Zenon DEF Permits, Asleep, Unsignalled
  <2> QED BY <2>2 DEF Inv, Balance, Types
<1>2. Spec => []Inv
  BY Invariance, Zenon
<1> QED BY <1>1, <1>2, PTL

\* The fields keep their bounds: the count is never below minus the number of
\* consumers, and never above what was enqueued.
THEOREM TypeCorrect == Finite => (Spec => []TypeOK)
<1> SUFFICES ASSUME Finite PROVE Spec => []TypeOK
  BY Zenon
<1>1. Inv => TypeOK
  <2> SUFFICES ASSUME Inv PROVE TypeOK
    BY Zenon
  <2>1. /\ items \in 0 .. MaxItems /\ m_sema \in Nat
        /\ m_count \in -Cardinality(Consumers) .. MaxItems
    BY Count DEF Inv, Types, Finite
  <2>2. \A c \in Consumers : call[c].got \in 0 .. MaxBulk /\ call[c].max \in 0 .. MaxBulk
    BY DEF Inv, Types, Fits, Calls, Finite
  <2> QED BY <2>1, <2>2, Zenon DEF TypeOK
<1>2. Spec => []Inv
  BY Invariance, Zenon
<1> QED BY <1>1, <1>2, PTL
=============================================================================
