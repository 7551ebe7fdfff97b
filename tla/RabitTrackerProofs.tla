------------------------- MODULE RabitTrackerProofs -------------------------
(* The ranks that the tracker hands out and the assertions of accept_slaves, for
   any number of workers and any links between ranks that both ends know of. *)
EXTENDS RabitTracker, FiniteSetTheorems, TLAPS

Entry == [w : Workers, inc : Nat, cmd : {"start", "recover", "shutdown", "print"},
          rank : Ranks \cup {-1}]
Slot == [w : Workers, inc : Nat, wait_accept : Int]

\* There is a worker; get_link_map links ranks; the hosts are ordered.
Proper ==
    /\ nslave \in Nat \ {0} /\ nnset \in [Ranks -> SUBSET Ranks]
    /\ host \in [Workers -> Int] /\ None \notin Entry

\* Every worker of the job has a rank to get.
Enough == IsFiniteSet(Workers) /\ Cardinality(Workers) <= nslave

\* What the proofs use about finite sets (SettingHolds): sets of ranks
\* can be counted, pending.sort reorders the entries, so that none is lost and none
\* doubled, and as many waiting workers as there are ranks are all of them.
RanksCount == \A S \in SUBSET Ranks : Cardinality(S) \in Nat /\ (Cardinality(S) = 0 => S = {})

SortPermutes ==
    \A p \in Seq(Entry) : \E f \in [DOMAIN p -> DOMAIN p] :
        /\ \A k, l \in DOMAIN p : f[k] = f[l] => k = l
        /\ ByHost(p) = [k \in DOMAIN p |-> p[f[k]]]

AllQueued ==
    Enough => \A p \in Seq(Entry) :
        Len(p) = nslave /\ (\A i, j \in DOMAIN p : p[i].w = p[j].w => i = j) =>
            \A w \in Workers : \E i \in DOMAIN p : p[i].w = w

Setting == Proper /\ RanksCount /\ SortPermutes /\ AllQueued

---------------------------------------------------------------------------
(* Sequences *)

LEMMA LenIs ==
    ASSUME NEW S, NEW s \in Seq(S)
    PROVE  Len(s) \in Nat /\ DOMAIN s = 1 .. Len(s) /\ s \in [1 .. Len(s) -> S]
  OBVIOUS

LEMMA ElementIs ==
    ASSUME NEW S, NEW s \in Seq(S), NEW n \in 1 .. Len(s)
    PROVE  s[n] \in S
  OBVIOUS

LEMMA EmptyIs ==
    ASSUME NEW S
    PROVE  /\ <<>> \in Seq(S) /\ Len(<<>>) = 0
           /\ \A s \in Seq(S) : s /= <<>> => Len(s) \in Nat \ {0}
  OBVIOUS

LEMMA ListIs ==
    ASSUME NEW S, NEW n \in Nat, NEW s \in [1 .. n -> S]
    PROVE  s \in Seq(S) /\ Len(s) = n
  OBVIOUS

LEMMA AppendIs ==
    ASSUME NEW S, NEW s \in Seq(S), NEW e \in S
    PROVE  /\ Append(s, e) \in Seq(S) /\ Len(Append(s, e)) = Len(s) + 1 /\ Len(s) \in Nat
           /\ DOMAIN s = 1 .. Len(s) /\ DOMAIN Append(s, e) = 1 .. Len(s) + 1
           /\ \A i \in DOMAIN s : Append(s, e)[i] = s[i]
           /\ Append(s, e)[Len(s) + 1] = e
  OBVIOUS

LEMMA TailIs ==
    ASSUME NEW S, NEW s \in Seq(S), s /= <<>>
    PROVE  /\ Head(s) = s[1] /\ s[1] \in S /\ 1 \in DOMAIN s
           /\ Tail(s) \in Seq(S) /\ Len(Tail(s)) = Len(s) - 1 /\ Len(s) \in Nat \ {0}
           /\ \A i \in DOMAIN Tail(s) : i + 1 \in DOMAIN s /\ Tail(s)[i] = s[i + 1]
           /\ \A i \in DOMAIN Tail(s) : i \in Nat \ {0}
  OBVIOUS

LEMMA AppendCases ==
    ASSUME NEW S, NEW s \in Seq(S), NEW e \in S
    PROVE  /\ Append(s, e) \in Seq(S) /\ Len(Append(s, e)) = Len(s) + 1 /\ Len(s) \in Nat
           /\ \A i \in DOMAIN Append(s, e) :
                 \/ i \in DOMAIN s /\ Append(s, e)[i] = s[i]
                 \/ i = Len(Append(s, e)) /\ Append(s, e)[i] = e
<1>1. /\ Append(s, e) \in Seq(S) /\ Len(Append(s, e)) = Len(s) + 1 /\ Len(s) \in Nat
      /\ DOMAIN s = 1 .. Len(s) /\ DOMAIN Append(s, e) = 1 .. Len(s) + 1
      /\ \A i \in DOMAIN s : Append(s, e)[i] = s[i]
      /\ Append(s, e)[Len(s) + 1] = e
  BY AppendIs
<1>2. \A i \in 1 .. Len(s) + 1 : i \in 1 .. Len(s) \/ i = Len(s) + 1
  BY <1>1
<1> QED BY <1>1, <1>2, Zenon

LEMMA RankIsNat ==
    ASSUME NEW r \in Ranks
    PROVE  ~(r < 0)
  BY DEF Ranks

LEMMA SortKeeps ==
    ASSUME Setting, NEW p \in Seq(Entry)
    PROVE  /\ ByHost(p) \in Seq(Entry) /\ Len(ByHost(p)) = Len(p)
           /\ DOMAIN ByHost(p) = DOMAIN p
<1>1. PICK f \in [DOMAIN p -> DOMAIN p] : ByHost(p) = [k \in DOMAIN p |-> p[f[k]]]
  BY Zenon DEF Setting, SortPermutes
<1>2. Len(p) \in Nat /\ DOMAIN p = 1 .. Len(p) /\ \A i \in DOMAIN p : p[i] \in Entry
  BY LenIs, ElementIs, Zenon
<1>3. ByHost(p) \in [1 .. Len(p) -> Entry]
  BY <1>1, <1>2, Zenon
<1>4. ByHost(p) \in Seq(Entry)
  BY <1>2, <1>3, ListIs, Zenon
<1> QED BY <1>2, <1>3, <1>4, LenIs

---------------------------------------------------------------------------
(* Types, and where the tracker is in its loops *)

Types ==
    /\ tpc \in {"accept", "good", "connect", "nerr", "finished", "spin", "raised"}
    /\ backlog \in Seq(Entry) /\ pending \in Seq(Entry) /\ batch \in Seq(Entry)
    /\ started \in BOOLEAN /\ todo_nodes \in Seq(Ranks)
    /\ DOMAIN job_map \subseteq Workers /\ job_map \in [DOMAIN job_map -> Ranks]
    /\ DOMAIN wait_conn \subseteq Ranks /\ wait_conn \in [DOMAIN wait_conn -> Slot]
    /\ cur \in Entry \cup {None} /\ rank \in Ranks \cup {-1}
    /\ badset \subseteq Ranks /\ conset \subseteq badset
    /\ rk \in [Workers -> Ranks \cup {-1}] /\ inc \in [Workers -> Nat]
    /\ wst \in [Workers -> {"down", "tracker", "job", "done"}]
    /\ toaccept \in [Workers -> Int]
    /\ crashes \in Nat /\ errors \in Nat

Phases ==
    /\ tpc = "accept" => batch = <<>>
    /\ tpc = "good" /\ cur = None => batch /= <<>>
    /\ tpc \in {"connect", "nerr"} => cur /= None
    /\ cur /= None => rank \in Ranks
    /\ batch /= <<>> => started
    /\ Len(batch) <= Len(todo_nodes)

FirstRanks == [i \in 1 .. nslave |-> i - 1]

LEMMA FirstRanksType ==
    ASSUME Setting
    PROVE  /\ FirstRanks \in Seq(Ranks) /\ Len(FirstRanks) = nslave
           /\ \A i, j \in DOMAIN FirstRanks : FirstRanks[i] = FirstRanks[j] => i = j
<1>1. FirstRanks \in [1 .. nslave -> Ranks] /\ nslave \in Nat
  BY DEF FirstRanks, Ranks, Setting, Proper
<1>2. FirstRanks \in Seq(Ranks)
  BY <1>1, ListIs, Zenon
<1> QED BY <1>1, <1>2, LenIs DEF FirstRanks

(* What decide_rank and the list of free ranks make of a start. *)
Todo == IF started THEN todo_nodes ELSE FirstRanks

LEMMA StartCases ==
    ASSUME NEW s, GiveRank(s)
    PROVE  /\ started' = TRUE /\ UNCHANGED shutdown
           /\ \/ /\ decide_rank(s) /= -1 /\ BeginAssign(s, decide_rank(s)) /\ todo_nodes' = Todo
                 /\ UNCHANGED <<job_map, pending, batch, badset, conset, nerr>>
              \/ /\ decide_rank(s) = -1 /\ Todo = <<>> /\ tpc' = "raised"
                 /\ UNCHANGED <<todo_nodes, job_map, pending, assigning, rk>>
              \/ /\ decide_rank(s) = -1 /\ Todo /= <<>>
                 /\ Len(Append(pending, s)) /= Len(Todo)
                 /\ pending' = Append(pending, s) /\ todo_nodes' = Todo /\ tpc' = tpc
                 /\ UNCHANGED <<job_map, assigning, rk>>
              \/ /\ decide_rank(s) = -1 /\ Todo /= <<>>
                 /\ Len(Append(pending, s)) = Len(Todo)
                 /\ pending' = ByHost(Append(pending, s)) /\ tpc' = "good"
                 /\ batch' = ByHost(Append(pending, s)) /\ todo_nodes' = Todo /\ cur' = None
                 /\ UNCHANGED <<job_map, rank, badset, conset, nerr, rk>>
  BY ZenonT(30) DEF GiveRank, Todo, FirstRanks

LEMMA AcceptCases ==
    ASSUME Types, Accept
    PROVE  \E s \in Entry :
              /\ backlog /= <<>> /\ s = Head(backlog) /\ backlog' = Tail(backlog) /\ tpc = "accept"
              /\ UNCHANGED <<wait_conn, inc, wst, toaccept, links, bounds, uncounted>>
              /\ \/ (Closed(s) \/ Misplaced(s)) /\ AcceptClosed(s)
                 \/ ~Closed(s) /\ s.cmd = "print" /\ UNCHANGED <<tpc, accepting, assigning, rk>>
                 \/ ~Closed(s) /\ s.cmd = "shutdown" /\ AcceptShutdown(s)
                 \/ ~Closed(s) /\ s.cmd \in {"start", "recover"} /\ GiveRank(s)
<1>1. backlog /= <<>> /\ backlog \in Seq(Entry)
  BY Zenon DEF Accept, Types
<1>2. Head(backlog) \in Entry
  BY <1>1, TailIs
<1>3. Head(backlog).cmd \in {"start", "recover", "shutdown", "print"}
  BY <1>2, Zenon DEF Entry
<1> DEFINE s == Head(backlog)
<1>4. \/ Closed(s) /\ AcceptClosed(s)
      \/ ~Closed(s) /\ s.cmd = "print" /\ UNCHANGED <<tpc, accepting, assigning, rk>>
      \/ ~Closed(s) /\ s.cmd = "shutdown" /\ AcceptShutdown(s)
      \/ ~Closed(s) /\ s.cmd \in {"start", "recover"} /\ AcceptStart(s)
  BY <1>3, ZenonT(30) DEF Accept
<1>5. AcceptStart(s) => (Misplaced(s) /\ AcceptClosed(s)) \/ GiveRank(s)
  BY Zenon DEF AcceptStart, AcceptClosed
<1> HIDE DEF s
<1>6. \/ (Closed(s) \/ Misplaced(s)) /\ AcceptClosed(s)
      \/ ~Closed(s) /\ s.cmd = "print" /\ UNCHANGED <<tpc, accepting, assigning, rk>>
      \/ ~Closed(s) /\ s.cmd = "shutdown" /\ AcceptShutdown(s)
      \/ ~Closed(s) /\ s.cmd \in {"start", "recover"} /\ GiveRank(s)
  BY <1>4, <1>5, Zenon
<1> QED BY <1>1, <1>2, <1>6, Zenon DEF Accept, s

Basics == Types /\ Phases

LEMMA DecideType ==
    ASSUME Types, Setting, NEW s \in Entry
    PROVE  /\ decide_rank(s) \in Ranks \cup {-1} /\ -1 \notin Ranks
           /\ s.w \in Workers /\ s.rank \in Ranks \cup {-1}
<1>1. s.w \in Workers /\ s.rank \in Ranks \cup {-1}
  BY Zenon DEF Entry
<1>2. -1 \notin Ranks
  BY DEF Ranks, Setting, Proper
<1> QED BY <1>1, <1>2, Zenon DEF decide_rank, Types

LEMMA TodoType ==
    ASSUME Types, Setting
    PROVE  Todo \in Seq(Ranks)
  BY FirstRanksType, Zenon DEF Types, Todo

LEMMA BasicsInit == Setting /\ Init => Basics
<1> SUFFICES ASSUME Setting, Init PROVE Basics
  BY Zenon
<1>1. /\ backlog \in Seq(Entry) /\ pending \in Seq(Entry) /\ batch \in Seq(Entry)
      /\ todo_nodes \in Seq(Ranks) /\ Len(batch) = 0 /\ Len(todo_nodes) = 0
  BY EmptyIs, Zenon DEF Init
<1>2. /\ DOMAIN job_map = {} /\ job_map \in [DOMAIN job_map -> Ranks]
      /\ DOMAIN wait_conn = {} /\ wait_conn \in [DOMAIN wait_conn -> Slot]
  <2>1. ASSUME NEW S PROVE <<>> \in [DOMAIN <<>> -> S] /\ DOMAIN <<>> = {}
    BY EmptyIs, LenIs
  <2> QED BY <2>1, Zenon DEF Init
<1>3. Types
  <2>1. /\ rk \in [Workers -> Ranks \cup {-1}] /\ inc \in [Workers -> Nat]
        /\ wst \in [Workers -> {"down", "tracker", "job", "done"}]
        /\ toaccept \in [Workers -> Int]
    BY DEF Init
  <2>2. /\ tpc = "accept" /\ started = FALSE /\ cur = None /\ rank = -1 /\ badset = {}
        /\ conset = {} /\ crashes = 0 /\ errors = 0
    BY Zenon DEF Init
  <2> QED BY <1>1, <1>2, <2>1, <2>2, Zenon DEF Types
<1>4. Phases
  BY <1>1 DEF Phases, Init
<1> QED BY <1>3, <1>4, Zenon DEF Basics

(* assign_rank begins. *)
LEMMA BeginAssignBasics ==
    ASSUME Types, NEW s \in Entry, NEW r \in Ranks, BeginAssign(s, r)
    PROVE  /\ tpc' \in {"good", "spin", "raised"} /\ cur' = s /\ rank' = r
           /\ rk' \in [Workers -> Ranks \cup {-1}]
  BY Zenon DEF BeginAssign, Types

LEMMA AcceptBasics ==
    ASSUME Setting, Basics, Accept
    PROVE  Basics'
<1>1. PICK s \in Entry :
              /\ backlog /= <<>> /\ s = Head(backlog) /\ backlog' = Tail(backlog) /\ tpc = "accept"
              /\ UNCHANGED <<wait_conn, inc, wst, toaccept, links, bounds, uncounted>>
              /\ \/ (Closed(s) \/ Misplaced(s)) /\ AcceptClosed(s)
                 \/ ~Closed(s) /\ s.cmd = "print" /\ UNCHANGED <<tpc, accepting, assigning, rk>>
                 \/ ~Closed(s) /\ s.cmd = "shutdown" /\ AcceptShutdown(s)
                 \/ ~Closed(s) /\ s.cmd \in {"start", "recover"} /\ GiveRank(s)
  BY AcceptCases, Zenon DEF Basics
<1>2. backlog' \in Seq(Entry)
  BY <1>1, TailIs, Zenon DEF Basics, Types
<1>u. UNCHANGED <<wait_conn, inc, wst, toaccept, bounds>>
  BY <1>1, Zenon
<1>3. ASSUME UNCHANGED <<accepting, assigning, rk>> \/ AcceptShutdown(s),
             tpc' \in {"accept", "spin", "raised"}
      PROVE  Basics'
  <2>1. UNCHANGED <<started, job_map, pending, todo_nodes, assigning, rk>>
    BY <1>3, Zenon DEF AcceptShutdown, accepting
  <2> QED BY <1>1, <1>2, <1>3, <2>1, Zenon DEF Basics, Types, Phases, assigning, bounds
<1>4. ASSUME GiveRank(s)
      PROVE  Basics'
  <2>1. /\ decide_rank(s) \in Ranks \cup {-1} /\ Todo \in Seq(Ranks) /\ s.w \in Workers
        /\ Len(Todo) \in Nat /\ Types /\ Phases
    BY DecideType, TodoType, LenIs, Zenon DEF Basics
  <2> started' = TRUE
    BY <1>4, StartCases, Zenon
  <2>2. CASE /\ decide_rank(s) /= -1 /\ BeginAssign(s, decide_rank(s)) /\ todo_nodes' = Todo
             /\ UNCHANGED <<job_map, pending, batch, badset, conset, nerr>>
    <3>1. /\ tpc' \in {"good", "spin", "raised"} /\ cur' = s /\ rank' = decide_rank(s)
          /\ rk' \in [Workers -> Ranks \cup {-1}]
      BY <2>1, <2>2, BeginAssignBasics, Zenon
    <3>2. batch = <<>> /\ Len(batch) = 0
      BY <1>1, <2>1, EmptyIs, Zenon DEF Phases
    <3>3. s /= None
      BY Zenon DEF Setting, Proper
    <3> QED BY <1>u, <1>2, <2>1, <2>2, <3>1, <3>2, <3>3
            DEF Basics, Types, Phases, bounds
  <2>3. CASE /\ decide_rank(s) = -1 /\ Todo = <<>> /\ tpc' = "raised"
             /\ UNCHANGED <<todo_nodes, job_map, pending, assigning, rk>>
    BY <1>1, <1>2, <2>1, <2>3, Zenon DEF Basics, Types, Phases, assigning, bounds
  <2> DEFINE p == Append(pending, s)
  <2>4. p \in Seq(Entry) /\ Len(p) = Len(pending) + 1 /\ Len(pending) \in Nat
    BY <2>1, AppendIs, Zenon DEF Types
  <2>5. CASE /\ pending' = p /\ todo_nodes' = Todo /\ tpc' = tpc
             /\ UNCHANGED <<job_map, assigning, rk>>
    <3>1. batch = <<>> /\ Len(batch) = 0
      BY <1>1, <2>1, EmptyIs, Zenon DEF Phases
    <3> QED BY SMTT(40), <1>1, <1>2, <2>1, <2>4, <2>5, <3>1
            DEF Basics, Types, Phases, assigning, bounds
  <2>6. CASE /\ Len(p) = Len(Todo) /\ pending' = ByHost(p) /\ tpc' = "good"
             /\ batch' = ByHost(p) /\ todo_nodes' = Todo /\ cur' = None
             /\ UNCHANGED <<job_map, rank, badset, conset, nerr, rk>>
    <3>1. ByHost(p) \in Seq(Entry) /\ Len(ByHost(p)) = Len(p)
      BY <2>4, SortKeeps, Zenon
    <3>2. ByHost(p) /= <<>>
      BY <3>1, <2>4, EmptyIs
    <3> HIDE DEF p
    <3> QED BY SMTT(40), <1>1, <1>2, <2>1, <2>4, <2>6, <3>1, <3>2
            DEF Basics, Types, Phases, bounds
  <2> QED BY <1>4, <2>2, <2>3, <2>5, <2>6, StartCases, Zenon
<1>5. CASE AcceptClosed(s)
  BY <1>3, <1>5, Zenon DEF AcceptClosed
<1>6. CASE s.cmd = "print" /\ UNCHANGED <<tpc, accepting, assigning, rk>>
  BY <1>1, <1>3, <1>6, Zenon
<1>7. CASE AcceptShutdown(s)
  BY <1>1, <1>3, <1>7, Zenon DEF AcceptShutdown
<1> QED BY <1>1, <1>4, <1>5, <1>6, <1>7, Zenon

LEMMA BatchBasics ==
    ASSUME Setting, Basics, BatchNext
    PROVE  Basics'
<1>1. tpc = "good" /\ cur = None /\ batch /= <<>> /\ todo_nodes /= <<>> /\ Types /\ Phases
  <2>1. batch /= <<>> /\ Types /\ Phases /\ tpc = "good" /\ cur = None
    BY Zenon DEF Basics, Phases, BatchNext
  <2>2. Len(batch) \in Nat \ {0}
    BY <2>1, TailIs, Zenon DEF Types
  <2>3. Len(todo_nodes) /= 0
    BY <2>1, <2>2, LenIs DEF Types, Phases
  <2> QED BY <2>1, <2>3, EmptyIs, Zenon
<1>2. /\ batch[1] \in Entry /\ Tail(batch) \in Seq(Entry) /\ Len(Tail(batch)) = Len(batch) - 1
      /\ todo_nodes[1] \in Ranks /\ Tail(todo_nodes) \in Seq(Ranks)
      /\ Len(Tail(todo_nodes)) = Len(todo_nodes) - 1
      /\ Len(batch) \in Nat /\ Len(todo_nodes) \in Nat
  BY <1>1, TailIs, Zenon DEF Types
<1>3. PICK s \in Entry, r \in Ranks : s = batch[1] /\ r = todo_nodes[1]
  BY <1>2, Zenon
<1>4. /\ BeginAssign(s, r) /\ batch' = Tail(batch) /\ todo_nodes' = Tail(todo_nodes)
      /\ job_map' = Named(s.w, r)
      /\ UNCHANGED <<backlog, started, shutdown, pending, wait_conn, badset, conset, nerr,
                     inc, wst, toaccept, links, bounds, uncounted>>
  BY <1>3, Zenon DEF BatchNext, BeginBatch
<1>5. /\ tpc' \in {"good", "spin", "raised"} /\ cur' = s /\ rank' = r
      /\ rk' \in [Workers -> Ranks \cup {-1}] /\ s /= None /\ s.w \in Workers
  BY <1>1, <1>4, BeginAssignBasics, Zenon DEF Setting, Proper, Entry
<1>6. DOMAIN job_map' \subseteq Workers /\ job_map' \in [DOMAIN job_map' -> Ranks]
  BY <1>1, <1>4, <1>5, Zenon DEF Types, Named
<1> QED BY SMTT(40), <1>1, <1>2, <1>4, <1>5, <1>6 DEF Basics, Types, Phases, bounds

LEMMA ConnectBasics ==
    ASSUME Setting, Basics, Negotiate \/ PeersConnect
    PROVE  Basics'
<1>1. Types /\ Phases
  BY Zenon DEF Basics
<1>2. CASE Negotiate
  <2>1. nnset[rank] \subseteq Ranks
    BY <1>1, <1>2, Zenon DEF Negotiate, Phases, Setting, Proper
  <2>2. badset' \subseteq Ranks /\ conset' \subseteq badset'
    BY <1>1, <1>2, <2>1, Zenon DEF Negotiate, ConnectTo, Types
  <2> QED BY <1>1, <1>2, <2>2, Zenon
             DEF Negotiate, Basics, Types, Phases, accepting, workers, bounds
<1>3. CASE PeersConnect
  <2>3. Cardinality(badset) - Cardinality(conset) \in Int
    <3>1. Cardinality(badset) \in Nat /\ Cardinality(conset) \in Nat
      BY <1>1, Zenon DEF Types, Setting, RanksCount
    <3> QED BY <3>1
  <2>4. PICK failing \in SUBSET conset :
           LET gone == {r \in conset : ~Listens(wait_conn[r])}
               peers == {wait_conn[r].w : r \in conset \ failing}
           IN  /\ gone \subseteq failing
               /\ errors + Cardinality(failing \ gone) <= MaxErrors
               /\ errors' = errors + Cardinality(failing \ gone)
               /\ links' = links \cup {{cur.w, v} : v \in peers}
               /\ nerr' = Cardinality(failing)
               /\ uncounted' = uncounted \cup (IF failing = {} THEN {} ELSE conset \ failing)
               /\ toaccept' = [v \in Workers |->
                      IF v \in peers THEN toaccept[v] - 1
                      ELSE IF v = cur.w THEN Cardinality(badset) - Cardinality(conset)
                      ELSE toaccept[v]]
               /\ wst' = IF failing = {} THEN [wst EXCEPT ![cur.w] = "job"] ELSE wst
    BY <1>3, Zenon DEF PeersConnect
  <2> DEFINE gone == {r \in conset : ~Listens(wait_conn[r])}
  <2>5. Cardinality(failing \ gone) \in Nat
    <3>1. failing \ gone \in SUBSET Ranks
      BY <1>1, Zenon DEF Types
    <3> QED BY <3>1, Zenon DEF Setting, RanksCount
  <2>6. errors' \in Nat
    BY <1>1, <2>4, <2>5 DEF Types
  <2>7. toaccept' \in [Workers -> Int]
    BY <1>1, <2>3, <2>4 DEF Types
  <2>8. wst' \in [Workers -> {"down", "tracker", "job", "done"}]
    BY <1>1, <2>4, Zenon DEF Types
  <2> QED BY <1>1, <1>3, <2>6, <2>7, <2>8, Zenon
          DEF PeersConnect, Basics, Types, Phases, accepting, workers, bounds
<1> QED BY <1>2, <1>3, Zenon

LEMMA ReadBasics ==
    ASSUME Setting, Basics, ReadErrors
    PROVE  Basics'
<1>1. Types /\ Phases /\ tpc = "nerr" /\ cur /= None /\ cur \in Entry /\ rank \in Ranks
  BY Zenon DEF Basics, Types, Phases, ReadErrors
<1>2. CASE nerr /= 0 /\ tpc' = "good" /\ UNCHANGED <<wait_conn, cur, uncounted>>
  BY <1>1, <1>2, Zenon DEF ReadErrors, Basics, Types, Phases, accepting, workers, bounds
<1>3. CASE nerr = 0 /\ Assigned
  <2> DEFINE n == Cardinality(badset) - Cardinality(conset)
             left == CountDown
             entry == [w |-> cur.w, inc |-> cur.inc, wait_accept |-> n]
  <2>1. n \in Int
    <3>1. Cardinality(badset) \in Nat /\ Cardinality(conset) \in Nat
      BY <1>1, Zenon DEF Types, Setting, RanksCount
    <3> QED BY <3>1
  <2> HIDE DEF n
  <2>2. entry \in Slot
    BY <1>1, <2>1, Zenon DEF Entry, Slot
  <2>3. left \in [DOMAIN left -> Slot] /\ DOMAIN left \subseteq DOMAIN wait_conn
    <3>1. \A r \in DOMAIN wait_conn : wait_conn[r] \in Slot
      BY <1>1, Zenon DEF Types
    <3>2. \A r \in DOMAIN wait_conn : \A k \in {0, 1} :
              [wait_conn[r] EXCEPT !.wait_accept = wait_conn[r].wait_accept - k] \in Slot
      BY <3>1 DEF Slot
    <3> QED BY <3>2, Zenon DEF CountDown
  <2> HIDE DEF left, entry
  <2>4. DOMAIN wait_conn' \subseteq Ranks /\ wait_conn' \in [DOMAIN wait_conn' -> Slot]
    <3>1. wait_conn' = IF n > 0 THEN [r \in DOMAIN left \cup {rank} |->
                                         IF r = rank THEN entry ELSE left[r]]
                       ELSE left
      BY <1>3, Zenon DEF Assigned, n, left, entry
    <3>2. CASE n > 0
      BY <1>1, <2>2, <2>3, <3>1, <3>2, Zenon DEF Types
    <3>3. CASE ~(n > 0)
      BY <1>1, <2>3, <3>1, <3>3, Zenon DEF Types
    <3> QED BY <3>2, <3>3, Zenon
  <2>5. cur' = None /\ tpc' = IF batch = <<>> THEN "accept" ELSE "good"
    BY <1>3, Zenon DEF Assigned
  <2> QED BY <1>1, <2>4, <2>5, Zenon
             DEF ReadErrors, Basics, Types, Phases, accepting, workers, bounds
<1> QED BY <1>2, <1>3, Zenon DEF ReadErrors

LEMMA WorkerBasics ==
    ASSUME Setting, Basics, NEW w \in Workers, Worker(w) \/ LogMessage(w) \/ Crash(w)
    PROVE  Basics'
<1>1. Types /\ Phases
  BY Zenon DEF Basics
<1>2. ASSUME NEW cmd \in {"start", "recover", "shutdown", "print"}, NEW r \in Ranks \cup {-1},
             Call(w, cmd, r)
      PROVE  backlog' \in Seq(Entry)
  <2>1. [w |-> w, inc |-> inc[w], cmd |-> cmd, rank |-> r] \in Entry
    BY <1>1, Zenon DEF Types, Entry
  <2> QED BY <1>1, <1>2, <2>1, AppendIs, Zenon DEF Call, Types
<1>3. rk[w] \in Ranks \cup {-1}
  BY <1>1, Zenon DEF Types
<1>4. CASE Worker(w)
  <2>1. backlog' \in Seq(Entry)
    BY <1>2, <1>3, <1>4, Zenon DEF Worker, Start, Recover, Shutdown
  <2> QED BY <1>1, <1>4, <2>1, ZenonT(40)
             DEF Worker, Start, Recover, Shutdown, Basics, Types, Phases,
             accepting, assigning, bounds
<1>5. CASE LogMessage(w)
  <2>1. backlog' \in Seq(Entry)
    BY <1>2, <1>3, <1>5, Zenon DEF LogMessage
  <2> QED BY <1>1, <1>5, <2>1, Zenon
             DEF LogMessage, Basics, Types, Phases, accepting, assigning, workers
<1>6. CASE Crash(w)
  <2>1. /\ inc' \in [Workers -> Nat] /\ rk' \in [Workers -> Ranks \cup {-1}]
        /\ wst' \in [Workers -> {"down", "tracker", "job", "done"}]
        /\ toaccept' \in [Workers -> Int] /\ crashes' \in Nat
    BY SMTT(40), <1>1, <1>6 DEF Crash, Types
  <2> QED BY <1>1, <1>6, <2>1, Zenon DEF Crash, Basics, Types, Phases, accepting, assigning
<1> QED BY <1>4, <1>5, <1>6, Zenon

LEMMA BasicsStep == Setting /\ Basics /\ [Next]_vars => Basics'
<1> SUFFICES ASSUME Setting, Basics, [Next]_vars PROVE Basics'
  BY Zenon
<1>1. CASE TrackerEnds \/ WorkerGone
  BY <1>1, Zenon
     DEF TrackerEnds, WorkerGone, Basics, Types, Phases, accepting, assigning, workers, bounds
<1>2. CASE UNCHANGED vars \/ TrackerStays
  BY <1>2 DEF TrackerStays, vars, Basics, Types, Phases, accepting, assigning, workers, bounds
<1> QED BY <1>1, <1>2, AcceptBasics, BatchBasics, ConnectBasics, ReadBasics, WorkerBasics, Zenon
        DEF Next, Tracker

---------------------------------------------------------------------------
(* The ranks *)

\* r is the rank of w, is kept for w in job_map, or is on its way to the tracker
\* in a message of w.
Owns(w, r) ==
    \/ rk[w] = r
    \/ w \in DOMAIN job_map /\ job_map[w] = r
    \/ \E i \in DOMAIN backlog : backlog[i].w = w /\ backlog[i].rank = r

RanksApart ==
    /\ \A i, j \in DOMAIN todo_nodes : todo_nodes[i] = todo_nodes[j] => i = j
    /\ \A w, v \in Workers, r \in Ranks : Owns(w, r) /\ Owns(v, r) => w = v
    /\ \A w \in Workers, i \in DOMAIN todo_nodes : ~Owns(w, todo_nodes[i])
    /\ ~started => \A w \in Workers, r \in Ranks : ~Owns(w, r)

LEMMA ApartInit == Setting /\ Init => RanksApart
<1> SUFFICES ASSUME Setting, Init PROVE RanksApart
  BY Zenon
<1>1. DOMAIN job_map = {} /\ DOMAIN backlog = {} /\ DOMAIN todo_nodes = {}
  BY DEF Init
<1>2. \A w \in Workers, r \in Ranks : rk[w] /= r
  BY DEF Init, Ranks, Setting, Proper
<1> QED BY <1>1, <1>2, Zenon DEF RanksApart, Owns

\* A step that gives nobody a rank that was not theirs.
LEMMA NoneGained ==
    ASSUME RanksApart, Types, UNCHANGED <<todo_nodes, started>>,
           \A w \in Workers, r \in Ranks : Owns(w, r)' => Owns(w, r)
    PROVE  RanksApart'
<1>1. \A i \in DOMAIN todo_nodes : todo_nodes[i] \in Ranks
  BY ElementIs, LenIs, Zenon DEF Types
<1>2. /\ \A w, v \in Workers, r \in Ranks : Owns(w, r)' /\ Owns(v, r)' => w = v
      /\ \A w \in Workers, i \in DOMAIN todo_nodes : ~Owns(w, todo_nodes[i])'
      /\ ~started => \A w \in Workers, r \in Ranks : ~Owns(w, r)'
  BY <1>1, Zenon DEF RanksApart
<1> QED BY <1>2, Zenon DEF RanksApart

LEMMA AcceptApart ==
    ASSUME Setting, Basics, RanksApart, Accept
    PROVE  RanksApart'
<1>1. PICK s \in Entry :
              /\ backlog /= <<>> /\ s = Head(backlog) /\ backlog' = Tail(backlog) /\ tpc = "accept"
              /\ UNCHANGED <<wait_conn, inc, wst, toaccept, links, bounds, uncounted>>
              /\ \/ (Closed(s) \/ Misplaced(s)) /\ AcceptClosed(s)
                 \/ ~Closed(s) /\ s.cmd = "print" /\ UNCHANGED <<tpc, accepting, assigning, rk>>
                 \/ ~Closed(s) /\ s.cmd = "shutdown" /\ AcceptShutdown(s)
                 \/ ~Closed(s) /\ s.cmd \in {"start", "recover"} /\ GiveRank(s)
  BY AcceptCases, Zenon DEF Basics
<1>2. /\ s = backlog[1] /\ 1 \in DOMAIN backlog
      /\ \A i \in DOMAIN backlog' : i + 1 \in DOMAIN backlog /\ backlog'[i] = backlog[i + 1]
  BY <1>1, TailIs DEF Basics, Types
<1>3. job_map' = job_map
  BY <1>1, StartCases, Zenon DEF AcceptClosed, AcceptShutdown, accepting
<1>4. \/ rk' = rk
      \/ /\ decide_rank(s) \in Ranks
         /\ rk' = [rk EXCEPT ![s.w] = decide_rank(s)]
  <2>1. CASE GiveRank(s)
    <3>1. \/ rk' = rk
          \/ decide_rank(s) /= -1 /\ BeginAssign(s, decide_rank(s))
      BY <2>1, StartCases, Zenon
    <3>2. decide_rank(s) \in Ranks \cup {-1}
      BY DecideType, Zenon DEF Basics
    <3> QED BY <3>1, <3>2, Zenon DEF BeginAssign
  <2> QED BY <1>1, <2>1, Zenon DEF AcceptClosed, AcceptShutdown
<1>5. decide_rank(s) \in Ranks => Owns(s.w, decide_rank(s))
  BY <1>2 DEF decide_rank, Owns, Ranks, Setting, Proper
<1>6. ASSUME NEW w \in Workers, NEW r \in Ranks, Owns(w, r)' PROVE Owns(w, r)
  <2>1. CASE \E i \in DOMAIN backlog' : backlog'[i].w = w /\ backlog'[i].rank = r
    BY <1>2, <2>1, Zenon DEF Owns
  <2>2. CASE w \in DOMAIN job_map' /\ job_map'[w] = r
    BY <1>3, <2>2, Zenon DEF Owns
  <2>3. CASE rk'[w] = r
    <3>1. CASE rk' = rk
      BY <2>3, <3>1, Zenon DEF Owns
    <3>2. CASE decide_rank(s) \in Ranks /\ rk' = [rk EXCEPT ![s.w] = decide_rank(s)]
      <4>1. CASE w = s.w
        <5>1. r = decide_rank(s)
          BY <2>3, <3>2, <4>1, Zenon DEF Basics, Types
        <5> QED BY <5>1, <4>1, <1>5, <3>2, Zenon
      <4>2. CASE w /= s.w
        <5>1. rk[w] = r
          BY <2>3, <3>2, <4>2, Zenon DEF Basics, Types
        <5> QED BY <5>1, Zenon DEF Owns
      <4> QED BY <4>1, <4>2, Zenon
    <3> QED BY <1>4, <3>1, <3>2, Zenon
  <2> QED BY <1>6, <2>1, <2>2, <2>3, Zenon DEF Owns
<1>7. CASE UNCHANGED <<todo_nodes, started>>
  BY <1>6, <1>7, NoneGained, Zenon DEF Basics
<1>8. CASE GiveRank(s) /\ ~UNCHANGED <<todo_nodes, started>>
  <2>1. started' = TRUE /\ started \in BOOLEAN /\ (todo_nodes' = todo_nodes \/ todo_nodes' = Todo)
    BY <1>8, StartCases, Zenon DEF Basics, Types
  <2>2. ~started
    BY <1>8, <2>1, Zenon DEF Todo
  <2>3. \A w \in Workers, r \in Ranks : ~Owns(w, r)
    BY <2>2, Zenon DEF RanksApart
  <2>4. \A w \in Workers, r \in Ranks : ~Owns(w, r)'
    BY <1>6, <2>3, Zenon
  <2>5. /\ \A i, j \in DOMAIN todo_nodes' : todo_nodes'[i] = todo_nodes'[j] => i = j
        /\ todo_nodes' \in Seq(Ranks)
    BY <2>1, <2>2, FirstRanksType, Zenon DEF Todo, RanksApart, Basics, Types
  <2>6. \A i \in DOMAIN todo_nodes' : todo_nodes'[i] \in Ranks
    BY <2>5, ElementIs, LenIs, Zenon
  <2>7. \A w \in Workers, i \in DOMAIN todo_nodes' : ~Owns(w, todo_nodes[i])'
    BY <2>4, <2>6, Zenon
  <2> QED BY <2>1, <2>4, <2>5, <2>7, Zenon DEF RanksApart
<1> QED BY <1>1, <1>7, <1>8, Zenon DEF AcceptClosed, AcceptShutdown, accepting

LEMMA BatchApart ==
    ASSUME Setting, Basics, RanksApart, BatchNext
    PROVE  RanksApart'
<1>1. tpc = "good" /\ cur = None /\ batch /= <<>> /\ todo_nodes /= <<>> /\ Types
  <2>1. batch /= <<>> /\ Types /\ Phases /\ tpc = "good" /\ cur = None
    BY Zenon DEF Basics, Phases, BatchNext
  <2>2. Len(batch) \in Nat \ {0}
    BY <2>1, TailIs, Zenon DEF Types
  <2>3. Len(todo_nodes) /= 0
    BY <2>1, <2>2, LenIs DEF Types, Phases
  <2> QED BY <2>1, <2>3, EmptyIs, Zenon
<1>2. /\ batch[1] \in Entry /\ todo_nodes[1] \in Ranks /\ 1 \in DOMAIN todo_nodes
      /\ \A i \in DOMAIN Tail(todo_nodes) :
            /\ i + 1 \in DOMAIN todo_nodes /\ Tail(todo_nodes)[i] = todo_nodes[i + 1]
            /\ i \in Nat \ {0}
  BY <1>1, TailIs DEF Types
<1>3. PICK s \in Entry, new \in Ranks : s = batch[1] /\ new = todo_nodes[1]
  BY <1>2, Zenon
<1>4. /\ BeginAssign(s, new) /\ todo_nodes' = Tail(todo_nodes)
      /\ job_map' = Named(s.w, new)
      /\ UNCHANGED <<backlog, started>>
  BY <1>3, Zenon DEF BatchNext, BeginBatch
<1>5. s.w \in Workers /\ (rk' = rk \/ rk' = [rk EXCEPT ![s.w] = new])
  BY <1>4, Zenon DEF BeginAssign, Entry
<1>6. ASSUME NEW w \in Workers, NEW r \in Ranks, Owns(w, r)'
      PROVE  Owns(w, r) \/ (w = s.w /\ r = new)
  <2>1. rk \in [Workers -> Ranks \cup {-1}]
    BY <1>1, Zenon DEF Types
  <2>2. w \in DOMAIN job_map' /\ job_map'[w] = r =>
            (w \in DOMAIN job_map /\ job_map[w] = r) \/ (w = s.w /\ r = new)
    BY <1>4, Zenon DEF Named
  <2> QED BY <1>4, <1>5, <1>6, <2>1, <2>2, Zenon DEF Owns
<1>7. \A i \in DOMAIN todo_nodes : todo_nodes[i] \in Ranks
  BY <1>1, ElementIs, LenIs, Zenon DEF Types
<1>8. \A w \in Workers : ~Owns(w, new)
  BY <1>2, <1>3, Zenon DEF RanksApart
<1>9. \A w, v \in Workers, r \in Ranks : Owns(w, r)' /\ Owns(v, r)' => w = v
  <2> SUFFICES ASSUME NEW w \in Workers, NEW v \in Workers, NEW r \in Ranks,
                      Owns(w, r)', Owns(v, r)'
               PROVE  w = v
    BY Zenon
  <2>1. (Owns(w, r) \/ (w = s.w /\ r = new)) /\ (Owns(v, r) \/ (v = s.w /\ r = new))
    BY <1>6, Zenon
  <2>2. Owns(w, r) /\ Owns(v, r) => w = v
    BY Zenon DEF RanksApart
  <2> QED BY <1>8, <2>1, <2>2, Zenon
<1>10. \A i \in DOMAIN todo_nodes' : todo_nodes'[i] /= new
  BY <1>2, <1>3, <1>4 DEF RanksApart
<1>11. \A i \in DOMAIN todo_nodes' :
           /\ todo_nodes'[i] \in Ranks
           /\ \A w \in Workers : ~Owns(w, todo_nodes'[i])
  BY <1>2, <1>4, <1>7, Zenon DEF RanksApart
<1>12. \A w \in Workers, i \in DOMAIN todo_nodes' : ~Owns(w, todo_nodes[i])'
  BY <1>6, <1>10, <1>11, Zenon
<1>13. \A i, j \in DOMAIN todo_nodes' : todo_nodes'[i] = todo_nodes'[j] => i = j
  BY <1>2, <1>4 DEF RanksApart
<1>14. started
  BY <1>1, Zenon DEF Basics, Phases
<1> QED BY <1>4, <1>9, <1>12, <1>13, <1>14, Zenon DEF RanksApart

LEMMA WorkerApart ==
    ASSUME Setting, Basics, RanksApart, NEW w \in Workers, Worker(w) \/ LogMessage(w) \/ Crash(w)
    PROVE  RanksApart'
<1>1. Types
  BY Zenon DEF Basics
<1>2. rk \in [Workers -> Ranks \cup {-1}] /\ -1 \notin Ranks
  BY <1>1 DEF Types, Ranks, Setting, Proper
<1>3. ASSUME NEW cmd \in {"start", "recover", "shutdown", "print"}, NEW k \in {-1, rk[w]},
             Call(w, cmd, k), UNCHANGED <<rk, job_map>>,
             NEW v \in Workers, NEW r \in Ranks, Owns(v, r)'
      PROVE  Owns(v, r)
  <2> DEFINE m == [w |-> w, inc |-> inc[w], cmd |-> cmd, rank |-> k]
  <2>1. m \in Entry /\ m.w = w /\ m.rank = k
    BY <1>1, <1>2, Zenon DEF Types, Entry
  <2> HIDE DEF m
  <2>2. backlog' = Append(backlog, m) /\ backlog \in Seq(Entry)
    BY <1>1, <1>3, Zenon DEF Call, m, Types
  <2>3. \A i \in DOMAIN backlog' : (i \in DOMAIN backlog /\ backlog'[i] = backlog[i]) \/ backlog'[i] = m
    BY <2>1, <2>2, AppendIs
  <2>4. CASE \E i \in DOMAIN backlog' : backlog'[i].w = v /\ backlog'[i].rank = r
    <3>1. PICK i \in DOMAIN backlog' : backlog'[i].w = v /\ backlog'[i].rank = r
      BY <2>4, Zenon
    <3>2. CASE backlog'[i] = m
      BY <3>1, <3>2, <2>1, <1>2, Zenon DEF Owns
    <3> QED BY <2>3, <3>1, <3>2, Zenon DEF Owns
  <2> QED BY <1>3, <2>4, Zenon DEF Owns
<1>4. CASE Worker(w) \/ LogMessage(w)
  <2>1. /\ \E cmd \in {"start", "recover", "shutdown", "print"}, k \in {-1, rk[w]} : Call(w, cmd, k)
        /\ UNCHANGED <<rk, job_map, todo_nodes, started>>
    BY <1>4, Zenon DEF Worker, Start, Recover, Shutdown, LogMessage, accepting, workers
  <2> QED BY <1>1, <1>3, <2>1, NoneGained, Zenon
<1>5. CASE Crash(w)
  <2>1. /\ UNCHANGED <<job_map, todo_nodes, started, backlog>>
        /\ rk' = [rk EXCEPT ![w] = -1]
    BY <1>5, Zenon DEF Crash, accepting
  <2>2. \A v \in Workers, r \in Ranks : Owns(v, r)' => Owns(v, r)
    BY <1>2, <2>1, Zenon DEF Owns
  <2> QED BY <1>1, <2>1, <2>2, NoneGained, Zenon
<1> QED BY <1>4, <1>5, Zenon

LEMMA ApartStep == Setting /\ Basics /\ RanksApart /\ [Next]_vars => RanksApart'
<1> SUFFICES ASSUME Setting, Basics, RanksApart, [Next]_vars PROVE RanksApart'
  BY Zenon
<1>1. CASE /\ UNCHANGED <<backlog, rk, job_map, todo_nodes, started>>
  <2>1. \A w \in Workers, r \in Ranks : Owns(w, r)' => Owns(w, r)
    BY <1>1, Zenon DEF Owns
  <2> QED BY <1>1, <2>1, NoneGained, Zenon DEF Basics
<1>2. CASE \/ TrackerEnds \/ Negotiate \/ PeersConnect \/ ReadErrors \/ WorkerGone \/ TrackerStays
           \/ UNCHANGED vars
  BY <1>1, <1>2, Zenon
     DEF TrackerEnds, Negotiate, PeersConnect, ReadErrors, WorkerGone, TrackerStays,
     vars, accepting, workers
<1> QED BY <1>2, AcceptApart, BatchApart, WorkerApart, Zenon DEF Next, Tracker

---------------------------------------------------------------------------
(* The links *)

\* Whoever is to be linked with a rank, that rank is to be linked with.
Symmetric == \A r, x \in Ranks : x \in nnset[r] => r \in nnset[x]

Asks(m) == m.cmd \in {"start", "recover"}
Live(e) == inc[e.w] = e.inc

\* Those who get a rank when there are as many as ranks.
Line == IF batch /= <<>> THEN batch ELSE IF todo_nodes = <<>> THEN <<>> ELSE pending

\* Where a worker's request for a rank may be: in the backlog, in line, in assign_rank.
Calls(i, w) == i \in DOMAIN backlog /\ backlog[i].w = w /\ Asks(backlog[i]) /\ Live(backlog[i])
Seats(i, w) == i \in DOMAIN Line /\ Line[i].w = w /\ Live(Line[i])
Busy(w) ==
    /\ cur /= None /\ cur.w = w /\ Live(cur)
    /\ tpc \in {"good", "connect"} \/ (tpc = "nerr" /\ nerr /= 0)

\* It is in one place only.
OneRequest ==
    /\ \A w, i, j : Calls(i, w) /\ Calls(j, w) => i = j
    /\ \A w, i, j : Seats(i, w) /\ Seats(j, w) => i = j
    /\ \A w, i, j : Calls(i, w) => ~Seats(j, w) /\ ~Busy(w)
    /\ \A w, i : Seats(i, w) => ~Busy(w)

\* What the tracker and a worker that has not crashed since know of each other.
Known ==
    /\ \A w \in Workers : wst[w] = "down" => rk[w] = -1
    /\ \A w, i : Calls(i, w) => wst[w] = "tracker" /\ backlog[i].rank = rk[w]
    /\ \A w, i : Seats(i, w) => wst[w] = "tracker" /\ rk[w] = -1
    /\ \A w : Busy(w) => wst[w] = "tracker"
    /\ cur /= None /\ Live(cur) /\ tpc \in {"good", "connect", "nerr"} => rk[cur.w] = rank
    /\ \A r \in DOMAIN wait_conn : Live(wait_conn[r]) => rk[wait_conn[r].w] = r
    /\ tpc = "connect" => badset \subseteq nnset[rank] /\ conset \subseteq DOMAIN wait_conn

Past(e) == e.inc <= inc[e.w]

Behind ==
    /\ \A i \in DOMAIN backlog : Past(backlog[i])
    /\ \A i \in DOMAIN pending : Past(pending[i])
    /\ \A i \in DOMAIN batch : Past(batch[i])
    /\ cur /= None => Past(cur)
    /\ \A r \in DOMAIN wait_conn : Past(wait_conn[r])

Counted ==
    /\ ~started => pending = <<>>
    /\ batch /= <<>> => Len(batch) = Len(todo_nodes)

LinksInv == OneRequest /\ Known /\ Behind /\ Counted /\ LinksArePeers

LEMMA LinksInit == Setting /\ Init => LinksInv
<1> SUFFICES ASSUME Setting, Init PROVE LinksInv
  BY Zenon
<1>1. /\ DOMAIN backlog = {} /\ DOMAIN pending = {} /\ DOMAIN batch = {} /\ DOMAIN wait_conn = {}
      /\ cur = None /\ tpc = "accept" /\ batch = <<>> /\ pending = <<>> /\ links = {}
      /\ todo_nodes = <<>> /\ DOMAIN <<>> = {}
  BY DEF Init
<1>2. \A w \in Workers : rk[w] = -1
  BY Zenon DEF Init
<1>3. DOMAIN Line = {}
  BY <1>1, Zenon DEF Line
<1>4. \A w, i : ~Calls(i, w) /\ ~Seats(i, w) /\ ~Busy(w)
  BY <1>1, <1>3, Zenon DEF Calls, Seats, Busy
<1>5. OneRequest
  BY <1>4, Zenon DEF OneRequest
<1>6. Known
  BY <1>1, <1>2, <1>4, Zenon DEF Known
<1>7. Behind /\ Counted /\ LinksArePeers
  BY <1>1, Zenon DEF Behind, Counted, LinksArePeers
<1> QED BY <1>5, <1>6, <1>7, Zenon DEF LinksInv

LEMMA LineIs ==
    ASSUME Types
    PROVE  Line \in Seq(Entry)
  BY EmptyIs, Zenon DEF Types, Line

(* The backlog, when its first connection is taken and when one is added. *)
LEMMA CallsTaken ==
    ASSUME Types, backlog /= <<>>, backlog' = Tail(backlog), inc' = inc
    PROVE  \A w, i : Calls(i, w)' =>
               /\ Calls(i + 1, w) /\ backlog'[i] = backlog[i + 1] /\ i \in Nat \ {0}
<1>1. \A i \in DOMAIN backlog' : /\ i + 1 \in DOMAIN backlog /\ backlog'[i] = backlog[i + 1]
                                 /\ i \in Nat \ {0}
  BY TailIs DEF Types
<1> QED BY <1>1, Zenon DEF Calls, Live, Asks

LEMMA CallsAdded ==
    ASSUME Types, NEW m \in Entry, backlog' = Append(backlog, m), inc' = inc
    PROVE  \A w, i : Calls(i, w)' =>
               \/ Calls(i, w) /\ backlog'[i] = backlog[i]
               \/ i = Len(backlog') /\ Asks(m) /\ m.w = w /\ backlog'[i] = m
<1>1. \A i \in DOMAIN backlog' : \/ i \in DOMAIN backlog /\ backlog'[i] = backlog[i]
                                 \/ i = Len(backlog') /\ backlog'[i] = m
  BY AppendCases DEF Types
<1> QED BY <1>1, Zenon DEF Calls, Live, Asks

LEMMA BehindTail ==
    ASSUME NEW S, NEW s \in Seq(S), s /= <<>>, \A i \in DOMAIN s : Past(s[i]), inc' = inc
    PROVE  \A i \in DOMAIN Tail(s) : Past(Tail(s)[i])'
<1>1. \A i \in DOMAIN Tail(s) : i + 1 \in DOMAIN s /\ Tail(s)[i] = s[i + 1]
  BY TailIs
<1> QED BY <1>1, Zenon DEF Past

(* assign_rank begins: a worker that had a rank is given that rank. *)
LEMMA RankGiven ==
    ASSUME Setting, Types, LinksInv, UNCHANGED <<links, wait_conn, inc, wst>>,
           NEW s \in Entry, NEW r \in Ranks, BeginAssign(s, r),
           Live(s) => wst[s.w] = "tracker" /\ rk[s.w] \in {-1, r}
    PROVE  /\ LinksArePeers'
           /\ \A k \in DOMAIN wait_conn' : Live(wait_conn[k])' => rk'[wait_conn'[k].w] = k
           /\ \A w \in Workers : wst'[w] = "down" => rk'[w] = -1
           /\ \A w \in Workers : rk'[w] = rk[w] \/ (w = s.w /\ Live(s))
           /\ tpc' \in {"good", "spin", "raised"} /\ cur' = s /\ rank' = r
           /\ tpc' = "good" => Live(s) /\ rk'[s.w] = r
<1>1. s.w \in Workers /\ rk \in [Workers -> Ranks \cup {-1}] /\ -1 \notin Ranks /\ Known
  BY RankIsNat, DecideType, Zenon DEF Entry, Types, LinksInv
<1>2. CASE Closed(s)
  <2>1. rk' = rk /\ tpc' \in {"spin", "raised"} /\ cur' = s /\ rank' = r
    BY <1>2, Zenon DEF BeginAssign
  <2> QED BY <1>1, <2>1, Zenon DEF LinksInv, LinksArePeers, Known, Live
<1>3. CASE ~Closed(s)
  <2>1. /\ Live(s) /\ tpc' = "good" /\ cur' = s /\ rank' = r
        /\ rk'[s.w] = r /\ \A w \in Workers : w /= s.w => rk'[w] = rk[w]
    BY <1>1, <1>3, Zenon DEF BeginAssign, Closed, Live
  <2>2. \A w \in Workers : rk[w] \in Ranks => rk'[w] = rk[w]
    BY <1>1, <2>1, Zenon
  <2>3. LinksArePeers'
    <3>1. SUFFICES ASSUME NEW v \in Workers, NEW w \in Workers, {v, w} \in links
                   PROVE  rk'[v] \in Ranks /\ rk'[w] \in nnset[rk'[v]]
      BY Zenon DEF LinksArePeers
    <3>2. {w, v} \in links
      <4>1. {w, v} = {v, w}
        BY Zenon
      <4> QED BY <3>1, <4>1, Zenon
    <3> QED BY <2>2, <3>1, <3>2, Zenon DEF LinksInv, LinksArePeers
  <2>4. ASSUME NEW k \in DOMAIN wait_conn, Live(wait_conn[k]) PROVE rk'[wait_conn[k].w] = k
    <3>1. wait_conn[k].w \in Workers /\ k \in Ranks
      BY Zenon DEF Types, Slot
    <3> QED BY <1>1, <2>2, <2>4, <3>1, Zenon DEF Known
  <2>5. \A k \in DOMAIN wait_conn' : Live(wait_conn[k])' => rk'[wait_conn'[k].w] = k
    BY <2>4, Zenon DEF Live
  <2>6. \A w \in Workers : wst'[w] = "down" => rk'[w] = -1
    BY <1>1, <2>1, Zenon DEF Known
  <2> QED BY <2>1, <2>3, <2>5, <2>6, Zenon
<1> QED BY <1>2, <1>3, Zenon

LEMMA CallsWorkers ==
    ASSUME Types', NEW w, NEW i, Calls(i, w)' \/ Seats(i, w)'
    PROVE  w \in Workers
<1>1. PICK b \in Seq(Entry), l \in Seq(Entry) : b = backlog' /\ l = Line'
  BY EmptyIs, Zenon DEF Types, Line
<1>2. /\ \A k \in DOMAIN b : b[k] \in Entry
      /\ \A k \in DOMAIN l : l[k] \in Entry
  BY LenIs, ElementIs, Zenon
<1>3. CASE Calls(i, w)'
  BY <1>1, <1>2, <1>3, Zenon DEF Calls, Entry
<1>4. CASE Seats(i, w)'
  BY <1>1, <1>2, <1>4, Zenon DEF Seats, Entry
<1> QED BY <1>3, <1>4, Zenon

(* accept_slaves takes the next connection. *)
LEMMA AcceptLinks ==
    ASSUME Setting, Basics, Basics', LinksInv, Accept
    PROVE  LinksInv'
<1> USE DEF LinksInv
<1>1. PICK s \in Entry :
              /\ backlog /= <<>> /\ s = Head(backlog) /\ backlog' = Tail(backlog) /\ tpc = "accept"
              /\ UNCHANGED <<wait_conn, inc, wst, toaccept, links, bounds, uncounted>>
              /\ \/ (Closed(s) \/ Misplaced(s)) /\ AcceptClosed(s)
                 \/ ~Closed(s) /\ s.cmd = "print" /\ UNCHANGED <<tpc, accepting, assigning, rk>>
                 \/ ~Closed(s) /\ s.cmd = "shutdown" /\ AcceptShutdown(s)
                 \/ ~Closed(s) /\ s.cmd \in {"start", "recover"} /\ GiveRank(s)
  BY AcceptCases, Zenon DEF Basics
<1>u. /\ backlog' = Tail(backlog) /\ backlog /= <<>> /\ tpc = "accept" /\ Types
      /\ UNCHANGED <<wait_conn, inc, wst, links>>
  BY <1>1, Zenon DEF Basics
<1>2. /\ s = backlog[1] /\ 1 \in DOMAIN backlog /\ s.w \in Workers /\ batch = <<>>
      /\ DOMAIN batch = {} /\ Past(s)
  <2>1. s = backlog[1] /\ 1 \in DOMAIN backlog
    BY <1>1, TailIs DEF Basics, Types
  <2>2. batch = <<>> /\ DOMAIN <<>> = {}
    BY <1>u, EmptyIs DEF Basics, Phases
  <2> QED BY <2>1, <2>2, Zenon DEF Entry, Behind
<1>3. \A w, i : Calls(i, w)' =>
          Calls(i + 1, w) /\ backlog'[i] = backlog[i + 1] /\ i \in Nat \ {0}
  BY <1>u, CallsTaken, Zenon
<1>4. /\ \A w, i, j : Calls(i, w)' /\ Calls(j, w)' => i = j
      /\ Asks(s) /\ Live(s) => Calls(1, s.w) /\ \A i : ~Calls(i, s.w)'
  <2>1. \A w, i, j : Calls(i, w)' /\ Calls(j, w)' => i + 1 = j + 1 /\ i \in Nat /\ j \in Nat
    BY <1>3, Zenon DEF OneRequest
  <2>2. Asks(s) /\ Live(s) => Calls(1, s.w)
    BY <1>2, Zenon DEF Calls
  <2>3. \A i : Calls(1, s.w) /\ Calls(i, s.w)' => i + 1 = 1 /\ i \in Nat \ {0}
    BY <1>3, Zenon DEF OneRequest
  <2>4. \A i \in Nat \ {0} : i + 1 /= 1
    OBVIOUS
  <2>5. \A i, j \in Nat : i + 1 = j + 1 => i = j
    OBVIOUS
  <2> QED BY <2>1, <2>2, <2>3, <2>4, <2>5, Zenon
<1>c. \A w, i : Calls(i, w)' =>
          /\ wst[w] = "tracker" /\ backlog'[i].rank = rk[w]
          /\ \A j : ~Seats(j, w)
  <2>1. SUFFICES ASSUME NEW w, NEW i, Calls(i, w)'
                 PROVE  /\ wst[w] = "tracker" /\ backlog'[i].rank = rk[w]
                        /\ \A j : ~Seats(j, w)
    BY Zenon
  <2>2. Calls(i + 1, w) /\ backlog'[i] = backlog[i + 1]
    BY <1>3, <2>1, Zenon
  <2>3. wst[w] = "tracker" /\ backlog[i + 1].rank = rk[w]
    BY <2>2, Zenon DEF Known
  <2>4. \A j : ~Seats(j, w)
    BY <2>2, Zenon DEF OneRequest
  <2> QED BY <2>2, <2>3, <2>4, Zenon
<1>5. /\ \A i \in DOMAIN backlog' : Past(backlog[i])'
      /\ \A r \in DOMAIN wait_conn' : Past(wait_conn[r])'
  <2>1. PICK b \in Seq(Entry) : b = backlog
    BY <1>u, Zenon DEF Types
  <2>2. \A i \in DOMAIN Tail(b) : Past(Tail(b)[i])'
    BY <1>u, <2>1, BehindTail, Zenon DEF Behind
  <2>3. \A i \in DOMAIN backlog' : Past(backlog[i])'
    BY <1>u, <2>1, <2>2, Zenon DEF Past
  <2> QED BY <1>u, <2>3, Zenon DEF Behind, Past
\* Nobody is given a rank, and nobody is put in line.
<1>6. ASSUME UNCHANGED <<pending, todo_nodes, batch, cur, rk>>, (started => started'),
             tpc' \in {"accept", "spin", "raised"}
      PROVE  LinksInv'
  <2>1. Line' = Line /\ \A w : ~Busy(w)'
    BY <1>6, Zenon DEF Line, Busy
  <2>2. \A i, w : Seats(i, w)' => Seats(i, w)
    BY <1>u, <2>1, Zenon DEF Seats, Live
  <2>3. OneRequest'
    <3>1. \A w, i, j : Seats(i, w)' /\ Seats(j, w)' => i = j
      BY <2>2, Zenon DEF OneRequest
    <3>2. \A w, i, j : Calls(i, w)' => ~Seats(j, w)'
      BY <1>c, <2>2, Zenon
    <3> QED BY <1>4, <2>1, <3>1, <3>2, Zenon DEF OneRequest
  <2>4. Known'
    <3>1. \A w, i : Calls(i, w)' => wst'[w] = "tracker" /\ backlog'[i].rank = rk'[w]
      BY <1>u, <1>c, <1>6, Zenon
    <3>2. \A w, i : Seats(i, w)' => wst'[w] = "tracker" /\ rk'[w] = -1
      BY <1>u, <1>6, <2>2, Zenon DEF Known
    <3>3. tpc' \notin {"good", "connect", "nerr"}
      BY <1>6, Zenon
    <3>4. \A k \in DOMAIN wait_conn' : Live(wait_conn[k])' => rk'[wait_conn'[k].w] = k
      BY <1>u, <1>6, Zenon DEF Known, Live
    <3>5. \A w \in Workers : wst'[w] = "down" => rk'[w] = -1
      BY <1>u, <1>6, Zenon DEF Known
    <3> QED BY <2>1, <3>1, <3>2, <3>3, <3>4, <3>5, Zenon DEF Known
  <2>5. Behind'
    BY <1>u, <1>5, <1>6, Zenon DEF Behind, Past
  <2>6. Counted' /\ LinksArePeers'
    BY <1>u, <1>6, Zenon DEF Counted, LinksArePeers
  <2> QED BY <2>3, <2>4, <2>5, <2>6, Zenon
<1>7. CASE \/ AcceptClosed(s) \/ UNCHANGED <<tpc, accepting, assigning, rk>> \/ AcceptShutdown(s)
  <2>1. /\ UNCHANGED <<pending, todo_nodes, batch, cur, rk, started>>
        /\ tpc' \in {"accept", "spin", "raised"}
    BY <1>u, <1>7, Zenon DEF AcceptClosed, AcceptShutdown, accepting, assigning
  <2> QED BY <1>6, <2>1, Zenon
<1>8. CASE ~Closed(s) /\ s.cmd \in {"start", "recover"} /\ GiveRank(s)
  <2>1. /\ Live(s) /\ Calls(1, s.w) /\ started' = TRUE
        /\ wst[s.w] = "tracker" /\ s.rank = rk[s.w]
        /\ \A i : ~Calls(i, s.w)' /\ ~Seats(i, s.w)
    <3>1. Live(s) /\ Asks(s)
      BY <1>8, Zenon DEF Closed, Live, Asks
    <3> QED BY <1>2, <1>4, <1>8, <3>1, StartCases, Zenon DEF Known, OneRequest
  <2>2. /\ decide_rank(s) \in Ranks \cup {-1} /\ -1 \notin Ranks
        /\ rk[s.w] \in Ranks \cup {-1} /\ rk[s.w] \in {-1, decide_rank(s)}
    <3>1. /\ decide_rank(s) \in Ranks \cup {-1} /\ -1 \notin Ranks
          /\ rk[s.w] \in Ranks \cup {-1}
      BY <1>u, <1>2, DecideType, Zenon DEF Types
    <3>2. rk[s.w] \in Ranks => decide_rank(s) = rk[s.w]
      BY <2>1 DEF decide_rank, Ranks
    <3> QED BY <3>1, <3>2, Zenon
  <2>3. CASE /\ decide_rank(s) /= -1 /\ BeginAssign(s, decide_rank(s)) /\ todo_nodes' = Todo
             /\ UNCHANGED <<job_map, pending, batch, badset, conset, nerr>>
    <3>1. PICK r \in Ranks : r = decide_rank(s)
      BY <2>2, <2>3, Zenon
    <3>2. /\ LinksArePeers'
          /\ \A k \in DOMAIN wait_conn' : Live(wait_conn[k])' => rk'[wait_conn'[k].w] = k
          /\ \A w \in Workers : wst'[w] = "down" => rk'[w] = -1
          /\ \A w \in Workers : rk'[w] = rk[w] \/ (w = s.w /\ Live(s))
          /\ tpc' \in {"good", "spin", "raised"} /\ cur' = s /\ rank' = r
          /\ tpc' = "good" => Live(s) /\ rk'[s.w] = r
      BY <1>u, <2>1, <2>2, <2>3, <3>1, RankGiven, Zenon
    <3>3. Line' = Line /\ Counted'
      BY <1>2, <2>1, <2>3, Zenon DEF Line, Todo, Counted
    <3>4. \A i, w : Seats(i, w)' => Seats(i, w)
      BY <1>u, <3>3, Zenon DEF Seats, Live
    <3>5. \A w : Busy(w)' => w = s.w
      BY <3>2, Zenon DEF Busy
    <3>6. OneRequest'
      <4>1. \A w, i, j : Seats(i, w)' /\ Seats(j, w)' => i = j
        BY <3>4, Zenon DEF OneRequest
      <4>2. \A w, i, j : Calls(i, w)' => ~Seats(j, w)' /\ ~Busy(w)'
        BY <1>c, <2>1, <3>4, <3>5, Zenon
      <4>3. \A w, i : Seats(i, w)' => ~Busy(w)'
        BY <2>1, <3>4, <3>5, Zenon
      <4> QED BY <1>4, <4>1, <4>2, <4>3, Zenon DEF OneRequest
    <3>7. Known'
      <4>1. \A w, i : Calls(i, w)' => wst'[w] = "tracker" /\ backlog'[i].rank = rk'[w]
        <5>1. SUFFICES ASSUME NEW w, NEW i, Calls(i, w)'
                       PROVE  wst'[w] = "tracker" /\ backlog'[i].rank = rk'[w]
          BY Zenon
        <5>2. w \in Workers
          BY <5>1, CallsWorkers, Zenon DEF Basics
        <5> QED BY <1>u, <1>c, <2>1, <3>2, <5>1, <5>2, Zenon
      <4>2. \A w, i : Seats(i, w)' => wst'[w] = "tracker" /\ rk'[w] = -1
        <5>1. SUFFICES ASSUME NEW w, NEW i, Seats(i, w)' PROVE wst'[w] = "tracker" /\ rk'[w] = -1
          BY Zenon
        <5>2. w \in Workers
          BY <5>1, CallsWorkers, Zenon DEF Basics
        <5> QED BY <1>u, <2>1, <3>2, <3>4, <5>1, <5>2, Zenon DEF Known
      <4>3. tpc' /= "connect" /\ tpc' /= "nerr"
        BY <3>2, Zenon
      <4> QED BY <1>u, <2>1, <3>2, <3>5, <4>1, <4>2, <4>3, Zenon DEF Known
    <3>8. Behind'
      BY <1>u, <1>2, <1>5, <2>3, <3>2, Zenon DEF Behind, Past
    <3> QED BY <3>2, <3>3, <3>6, <3>7, <3>8, Zenon
  <2>4. CASE /\ decide_rank(s) = -1 /\ Todo = <<>> /\ tpc' = "raised"
             /\ UNCHANGED <<todo_nodes, job_map, pending, assigning, rk>>
    BY <1>6, <2>1, <2>4, Zenon DEF assigning
  <2>5. PICK q \in Seq(Entry) :
               /\ q = Append(pending, s) /\ Len(q) \in Nat \ {0}
               /\ \A i \in DOMAIN q : \/ i \in DOMAIN pending /\ q[i] = pending[i]
                                      \/ i = Len(q) /\ q[i] = s
    <3>1. pending \in Seq(Entry)
      BY <1>u, Zenon DEF Types
    <3>2. /\ Append(pending, s) \in Seq(Entry) /\ Len(Append(pending, s)) = Len(pending) + 1
          /\ Len(pending) \in Nat
          /\ \A i \in DOMAIN Append(pending, s) :
                \/ i \in DOMAIN pending /\ Append(pending, s)[i] = pending[i]
                \/ i = Len(Append(pending, s)) /\ Append(pending, s)[i] = s
      BY <3>1, AppendCases
    <3>3. \A n \in Nat : n + 1 \in Nat \ {0}
      OBVIOUS
    <3> QED BY <3>2, <3>3, Zenon
  \* The worker is put in line, which may then be sorted.
  <2>6. ASSUME decide_rank(s) = -1, Todo /= <<>>, todo_nodes' = Todo, rk' = rk,
               NEW f \in [DOMAIN q -> DOMAIN q], \A k, l \in DOMAIN q : f[k] = f[l] => k = l,
               Line' = [k \in DOMAIN q |-> q[f[k]]], pending' = Line',
               batch' \in {<<>>, Line'}, batch' /= <<>> => Len(batch') = Len(todo_nodes'),
               tpc' = "accept" \/ (tpc' = "good" /\ cur' = None), cur' \in {cur, None}
        PROVE  LinksInv'
    <3>r. rk' = rk
      BY <2>6, Zenon
    <3>1. Line = pending
      BY <1>2, <2>6, Zenon DEF Line, Todo, Counted
    <3>2. rk[s.w] = -1
      BY <2>2, <2>6, Zenon
    <3>3. ASSUME NEW i \in DOMAIN q, Live(q[i])
          PROVE  /\ wst[q[i].w] = "tracker" /\ rk[q[i].w] = -1
                 /\ \A j : ~Calls(j, q[i].w)'
                 /\ Seats(i, q[i].w) \/ (i = Len(q) /\ q[i].w = s.w)
      <4>1. CASE i \in DOMAIN pending /\ q[i] = pending[i]
        <5>1. Seats(i, q[i].w)
          BY <3>1, <3>3, <4>1, Zenon DEF Seats
        <5> QED BY <1>3, <5>1, Zenon DEF Known, OneRequest
      <4>2. CASE i = Len(q) /\ q[i] = s
        BY <2>1, <3>2, <4>2, Zenon
      <4> QED BY <2>5, <4>1, <4>2, Zenon
    <3>4. \A i, j \in DOMAIN q : Live(q[i]) /\ Live(q[j]) /\ q[i].w = q[j].w => i = j
      BY <2>1, <3>3, Zenon DEF OneRequest
    <3>5. \A w, k : Seats(k, w)' =>
              /\ k \in DOMAIN q /\ f[k] \in DOMAIN q /\ q[f[k]].w = w /\ Live(q[f[k]])
      BY <1>u, <2>6, Zenon DEF Seats, Live
    <3>6. \A w : ~Busy(w)'
      BY <2>6, Zenon DEF Busy
    <3>7. OneRequest'
      <4>1. \A w, k, l : Seats(k, w)' /\ Seats(l, w)' => k = l
        <5>1. SUFFICES ASSUME NEW w, NEW k, NEW l, Seats(k, w)', Seats(l, w)' PROVE k = l
          BY Zenon
        <5>2. /\ k \in DOMAIN q /\ f[k] \in DOMAIN q /\ q[f[k]].w = w /\ Live(q[f[k]])
              /\ l \in DOMAIN q /\ f[l] \in DOMAIN q /\ q[f[l]].w = w /\ Live(q[f[l]])
          BY <3>5, <5>1, Zenon
        <5>3. f[k] = f[l]
          BY <3>4, <5>2, Zenon
        <5> QED BY <2>6, <5>2, <5>3, Zenon
      <4>2. \A w, k, l : Calls(k, w)' => ~Seats(l, w)'
        <5>1. SUFFICES ASSUME NEW w, NEW k, NEW l, Calls(k, w)', Seats(l, w)' PROVE FALSE
          BY Zenon
        <5>2. f[l] \in DOMAIN q /\ q[f[l]].w = w /\ Live(q[f[l]])
          BY <3>5, <5>1, Zenon
        <5> QED BY <3>3, <5>1, <5>2, Zenon
      <4> QED BY <1>4, <3>6, <4>1, <4>2, Zenon DEF OneRequest
    <3>8. Known'
      <4>1. \A w, i : Calls(i, w)' => wst'[w] = "tracker" /\ backlog'[i].rank = rk'[w]
        BY <1>u, <1>c, <3>r, Zenon
      <4>2. \A w, i : Seats(i, w)' => wst'[w] = "tracker" /\ rk'[w] = -1
        <5>1. SUFFICES ASSUME NEW w, NEW k, Seats(k, w)' PROVE wst'[w] = "tracker" /\ rk'[w] = -1
          BY Zenon
        <5>2. f[k] \in DOMAIN q /\ q[f[k]].w = w /\ Live(q[f[k]])
          BY <3>5, <5>1, Zenon
        <5> QED BY <1>u, <3>3, <3>r, <5>2, Zenon
      <4>3. tpc' \notin {"connect", "nerr"} /\ ~(cur' /= None /\ tpc' = "good")
        BY <2>6, Zenon
      <4>4. \A k \in DOMAIN wait_conn' : Live(wait_conn[k])' => rk'[wait_conn'[k].w] = k
        BY <1>u, <3>r, Zenon DEF Known, Live
      <4>5. \A w \in Workers : wst'[w] = "down" => rk'[w] = -1
        BY <1>u, <3>r, Zenon DEF Known
      <4> QED BY <3>6, <4>1, <4>2, <4>3, <4>4, <4>5, Zenon DEF Known
    <3>9. \A i \in DOMAIN Line' : Past(Line[i])'
      <4>1. \A i \in DOMAIN q : Past(q[i])'
        <5>1. \A i \in DOMAIN q : Past(q[i])
          BY <1>2, <2>5, Zenon DEF Behind
        <5> QED BY <1>u, <5>1, Zenon DEF Past
      <4> QED BY <2>6, <4>1, Zenon DEF Past
    <3>10. Behind'
      <4>1. \A i \in DOMAIN <<>> : FALSE
        BY EmptyIs
      <4>2. \A i \in DOMAIN batch' : Past(batch[i])'
        BY <2>6, <3>9, <4>1, Zenon DEF Past
      <4> QED BY <1>u, <1>5, <2>6, <3>9, <4>2, Zenon DEF Behind, Past
    <3>11. Counted' /\ LinksArePeers'
      BY <1>u, <2>1, <2>6, Zenon DEF Counted, LinksArePeers
    <3> QED BY <3>7, <3>8, <3>10, <3>11, Zenon
  <2>7. CASE /\ decide_rank(s) = -1 /\ Todo /= <<>>
             /\ pending' = q /\ todo_nodes' = Todo /\ tpc' = tpc
             /\ UNCHANGED <<job_map, assigning, rk>>
    <3>1. batch' = <<>> /\ cur' = cur /\ tpc' = "accept"
      BY <1>u, <1>2, <2>7, Zenon DEF assigning
    <3> DEFINE f == [k \in DOMAIN q |-> k]
    <3>2. /\ f \in [DOMAIN q -> DOMAIN q] /\ \A k, l \in DOMAIN q : f[k] = f[l] => k = l
          /\ [k \in DOMAIN q |-> q[f[k]]] = [k \in DOMAIN q |-> q[k]]
      BY Zenon
    <3>3. q = [k \in DOMAIN q |-> q[k]]
      <4>1. DOMAIN q = 1 .. Len(q) /\ q \in [1 .. Len(q) -> Entry]
        BY LenIs, Zenon
      <4> QED BY <4>1, Zenon
    <3>4. Line' = q
      BY <2>7, <3>1, Zenon DEF Line
    <3> HIDE DEF f
    <3> QED BY <2>6, <2>7, <3>1, <3>2, <3>3, <3>4, Zenon
  <2>8. CASE /\ decide_rank(s) = -1 /\ Todo /= <<>> /\ Len(q) = Len(Todo)
             /\ pending' = ByHost(q) /\ tpc' = "good"
             /\ batch' = ByHost(q) /\ todo_nodes' = Todo /\ cur' = None
             /\ UNCHANGED <<job_map, rank, badset, conset, nerr, rk>>
    <3>1. ByHost(q) \in Seq(Entry) /\ Len(ByHost(q)) = Len(q)
      BY SortKeeps, Zenon
    <3>2. ByHost(q) /= <<>>
      BY <2>5, <3>1, EmptyIs
    <3>3. PICK f \in [DOMAIN q -> DOMAIN q] :
               /\ \A k, l \in DOMAIN q : f[k] = f[l] => k = l
               /\ ByHost(q) = [k \in DOMAIN q |-> q[f[k]]]
      BY Zenon DEF Setting, SortPermutes
    <3>4. Line' = ByHost(q)
      BY <2>8, <3>2, Zenon DEF Line
    <3> QED BY <2>6, <2>8, <3>1, <3>3, <3>4, Zenon
  <2> QED BY <1>8, <2>3, <2>4, <2>5, <2>7, <2>8, StartCases, Zenon
<1> QED BY <1>1, <1>7, <1>8, Zenon

(* The loop over pending takes the next worker in line. *)
LEMMA BatchLinks ==
    ASSUME Setting, Basics, Basics', LinksInv, BatchNext
    PROVE  LinksInv'
<1> USE DEF LinksInv
<1>1. tpc = "good" /\ cur = None /\ batch /= <<>> /\ todo_nodes /= <<>> /\ Types
      /\ Len(batch) \in Nat \ {0} /\ Len(todo_nodes) = Len(batch)
  <2>1. batch /= <<>> /\ Types /\ tpc = "good" /\ cur = None
    BY Zenon DEF Basics, Phases, BatchNext
  <2>2. Len(batch) \in Nat \ {0}
    BY <2>1, TailIs, Zenon DEF Types
  <2>3. Len(todo_nodes) = Len(batch)
    BY <2>1, Zenon DEF Counted
  <2>4. todo_nodes /= <<>>
    BY <2>2, <2>3, EmptyIs
  <2> QED BY <2>1, <2>2, <2>3, <2>4, Zenon
<1>2. PICK b \in Seq(Entry), t \in Seq(Ranks) : b = batch /\ t = todo_nodes
  BY <1>1, Zenon DEF Types
<1>3. /\ b[1] \in Entry /\ 1 \in DOMAIN b /\ t[1] \in Ranks
      /\ Tail(b) \in Seq(Entry) /\ Tail(t) \in Seq(Ranks) /\ Len(Tail(b)) = Len(Tail(t))
      /\ \A i \in DOMAIN Tail(b) : /\ i + 1 \in DOMAIN b /\ Tail(b)[i] = b[i + 1]
                                   /\ i \in Nat \ {0}
  BY <1>1, <1>2, TailIs
<1>4. PICK s \in Entry, r \in Ranks : s = b[1] /\ r = t[1]
  BY <1>3, Zenon
<1>5. /\ BeginAssign(s, r) /\ batch' = Tail(b) /\ todo_nodes' = Tail(t)
      /\ UNCHANGED <<backlog, started, pending, wait_conn, inc, wst, links>>
  BY <1>2, <1>4, Zenon DEF BatchNext, BeginBatch
<1>6. Line = b /\ Line' = Tail(b) /\ s.w \in Workers
  <2>1. Tail(b) = <<>> => Tail(t) = <<>>
    BY <1>3, EmptyIs
  <2> QED BY <1>1, <1>2, <1>5, <2>1, Zenon DEF Line, Entry
<1>7. /\ \A w, i : Seats(i, w)' => Seats(i + 1, w) /\ i + 1 /= 1 /\ i \in Nat
      /\ Live(s) => Seats(1, s.w)
  <2>1. \A i \in DOMAIN Tail(b) : i + 1 \in DOMAIN b /\ Tail(b)[i] = b[i + 1]
                                  /\ i + 1 /= 1 /\ i \in Nat
    BY <1>3
  <2>2. Live(s) => Seats(1, s.w)
    BY <1>3, <1>4, <1>6, Zenon DEF Seats
  <2>3. \A w, i : Seats(i, w)' => Seats(i + 1, w) /\ i + 1 /= 1 /\ i \in Nat
    BY <1>5, <1>6, <2>1, Zenon DEF Seats, Live
  <2> QED BY <2>2, <2>3, Zenon
<1>8. /\ \A w, i : Calls(i, w)' => Calls(i, w)
      /\ \A w, i : Calls(i, w)' => backlog'[i] = backlog[i]
  BY <1>5, Zenon DEF Calls, Live, Asks
<1>9. Live(s) => /\ wst[s.w] = "tracker" /\ rk[s.w] = -1
                 /\ \A i : ~Calls(i, s.w) /\ ~Seats(i, s.w)'
  <2>1. SUFFICES ASSUME Live(s) PROVE /\ wst[s.w] = "tracker" /\ rk[s.w] = -1
                                      /\ \A i : ~Calls(i, s.w) /\ ~Seats(i, s.w)'
    BY Zenon
  <2>2. wst[s.w] = "tracker" /\ rk[s.w] = -1
    BY <1>7, <2>1, Zenon DEF Known
  <2>3. \A i : ~Calls(i, s.w)
    BY <1>7, <2>1, Zenon DEF OneRequest
  <2>4. \A i : ~Seats(i, s.w)'
    <3>1. SUFFICES ASSUME NEW i, Seats(i, s.w)' PROVE FALSE
      BY Zenon
    <3>2. Seats(i + 1, s.w) /\ Seats(1, s.w) /\ i + 1 /= 1
      BY <1>7, <2>1, <3>1, Zenon
    <3> QED BY <3>2, Zenon DEF OneRequest
  <2> QED BY <2>2, <2>3, <2>4, Zenon
<1>10. /\ LinksArePeers'
       /\ \A k \in DOMAIN wait_conn' : Live(wait_conn[k])' => rk'[wait_conn'[k].w] = k
       /\ \A w \in Workers : wst'[w] = "down" => rk'[w] = -1
       /\ \A w \in Workers : rk'[w] = rk[w] \/ (w = s.w /\ Live(s))
       /\ tpc' \in {"good", "spin", "raised"} /\ cur' = s /\ rank' = r
       /\ tpc' = "good" => Live(s) /\ rk'[s.w] = r
  BY <1>1, <1>5, <1>9, RankGiven, Zenon
<1>11. \A w : Busy(w)' => w = s.w /\ Live(s)
  BY <1>10, Zenon DEF Busy
<1>12. OneRequest'
  <2>1. \A w, i, j : Seats(i, w)' /\ Seats(j, w)' => i = j
    <3>1. ASSUME NEW w, NEW i, NEW j, Seats(i, w)', Seats(j, w)'
          PROVE  i + 1 = j + 1 /\ i \in Nat /\ j \in Nat
      <4>1. Seats(i + 1, w) /\ Seats(j + 1, w) /\ i \in Nat /\ j \in Nat
        BY <1>7, <3>1, Zenon
      <4> QED BY <4>1, Zenon DEF OneRequest
    <3>2. \A i, j \in Nat : i + 1 = j + 1 => i = j
      OBVIOUS
    <3> QED BY <3>1, <3>2, Zenon
  <2>2. \A w, i, j : Calls(i, w)' /\ Calls(j, w)' => i = j
    BY <1>8, Zenon DEF OneRequest
  <2>3. ASSUME NEW w, NEW i, NEW j, Calls(i, w)', Seats(j, w)' PROVE FALSE
    <3>1. Calls(i, w) /\ Seats(j + 1, w)
      BY <1>7, <1>8, <2>3, Zenon
    <3> QED BY <3>1, Zenon DEF OneRequest
  <2>4. \A w, i : Calls(i, w)' => ~Busy(w)'
    BY <1>8, <1>9, <1>11, Zenon
  <2>5. \A w, i : Seats(i, w)' => ~Busy(w)'
    BY <1>9, <1>11, Zenon
  <2> QED BY <2>1, <2>2, <2>3, <2>4, <2>5, Zenon DEF OneRequest
<1>13. Known'
  <2>1. \A w, i : Calls(i, w)' => wst'[w] = "tracker" /\ backlog'[i].rank = rk'[w]
    <3>1. SUFFICES ASSUME NEW w, NEW i, Calls(i, w)'
                   PROVE  wst'[w] = "tracker" /\ backlog'[i].rank = rk'[w]
      BY Zenon
    <3>2. w \in Workers
      BY <3>1, CallsWorkers, Zenon DEF Basics
    <3>3. wst[w] = "tracker" /\ backlog'[i].rank = rk[w]
      <4>1. Calls(i, w) /\ backlog'[i] = backlog[i]
        BY <1>8, <3>1, Zenon
      <4> QED BY <4>1, Zenon DEF Known
    <3>4. rk'[w] = rk[w]
      BY <1>8, <1>9, <1>10, <3>1, <3>2, Zenon
    <3> QED BY <1>5, <3>3, <3>4, Zenon
  <2>2. \A w, i : Seats(i, w)' => wst'[w] = "tracker" /\ rk'[w] = -1
    <3>1. SUFFICES ASSUME NEW w, NEW i, Seats(i, w)' PROVE wst'[w] = "tracker" /\ rk'[w] = -1
      BY Zenon
    <3>2. w \in Workers
      BY <3>1, CallsWorkers, Zenon DEF Basics
    <3>3. wst[w] = "tracker" /\ rk[w] = -1
      BY <1>7, <3>1, Zenon DEF Known
    <3>4. rk'[w] = rk[w]
      BY <1>9, <1>10, <3>1, <3>2, Zenon
    <3> QED BY <1>5, <3>3, <3>4, Zenon
  <2>3. tpc' /= "connect" /\ tpc' /= "nerr"
    BY <1>10, Zenon
  <2>4. \A w : Busy(w)' => wst'[w] = "tracker"
    BY <1>5, <1>9, <1>11, Zenon
  <2> QED BY <1>10, <2>1, <2>2, <2>3, <2>4, Zenon DEF Known
<1>14. Behind'
  <2>1. \A i \in DOMAIN Tail(b) : Past(Tail(b)[i])'
    BY <1>1, <1>2, <1>5, BehindTail, Zenon DEF Behind
  <2>2. Past(s)
    BY <1>2, <1>3, <1>4, Zenon DEF Behind
  <2>3. \A i \in DOMAIN batch' : Past(batch[i])'
    BY <1>5, <2>1, Zenon DEF Past
  <2>4. Past(cur)'
    BY <1>5, <1>10, <2>2, Zenon DEF Past
  <2> QED BY <1>5, <2>3, <2>4, Zenon DEF Behind, Past
<1>15. Counted'
  BY <1>3, <1>5 DEF Counted
<1> QED BY <1>10, <1>12, <1>13, <1>14, <1>15, Zenon

(* A step of the tracker that leaves the requests where they are. *)
LEMMA RequestsStay ==
    ASSUME LinksInv, UNCHANGED <<backlog, started, pending, todo_nodes, batch, inc>>,
           \A w : Busy(w)' => Busy(w)
    PROVE  /\ OneRequest' /\ Counted'
           /\ \A w, i : Calls(i, w)' => Calls(i, w) /\ backlog'[i] = backlog[i]
           /\ \A w, i : Seats(i, w)' => Seats(i, w)
<1>1. Line' = Line
  BY Zenon DEF Line
<1>2. \A w, i : Calls(i, w)' => Calls(i, w) /\ backlog'[i] = backlog[i]
  BY Zenon DEF Calls, Live, Asks
<1>3. \A w, i : Seats(i, w)' => Seats(i, w)
  BY <1>1, Zenon DEF Seats, Live
<1>4. OneRequest'
  <2>1. \A w, i, j : Calls(i, w)' /\ Calls(j, w)' => i = j
    BY <1>2, Zenon DEF LinksInv, OneRequest
  <2>2. \A w, i, j : Seats(i, w)' /\ Seats(j, w)' => i = j
    BY <1>3, Zenon DEF LinksInv, OneRequest
  <2>3. \A w, i, j : Calls(i, w)' => ~Seats(j, w)' /\ ~Busy(w)'
    BY <1>2, <1>3, Zenon DEF LinksInv, OneRequest
  <2>4. \A w, i : Seats(i, w)' => ~Busy(w)'
    BY <1>3, Zenon DEF LinksInv, OneRequest
  <2> QED BY <2>1, <2>2, <2>3, <2>4, Zenon DEF OneRequest
<1>5. Counted'
  BY DEF LinksInv, Counted
<1> QED BY <1>2, <1>3, <1>4, <1>5, Zenon

LEMMA QuietLinks ==
    ASSUME Setting, Basics, LinksInv,
           TrackerEnds \/ Negotiate \/ WorkerGone \/ TrackerStays \/ UNCHANGED vars
    PROVE  LinksInv'
<1> USE DEF LinksInv
<1>1. /\ UNCHANGED <<backlog, started, pending, todo_nodes, batch, cur, rank, nerr, wait_conn, inc,
                     wst, rk, links>>
      /\ \/ tpc' = tpc /\ badset' = badset /\ conset' = conset
         \/ /\ tpc = "good" /\ tpc' = "connect"
            /\ badset' \subseteq nnset[rank] /\ conset' \subseteq DOMAIN wait_conn
         \/ tpc' \notin {"good", "connect", "nerr"}
  BY Zenon DEF TrackerEnds, Negotiate, ConnectTo, WorkerGone, TrackerStays, vars, accepting,
               assigning, workers
<1>2. \A w : Busy(w)' => Busy(w)
  BY <1>1, Zenon DEF Busy, Live
<1>3. /\ OneRequest' /\ Counted'
      /\ \A w, i : Calls(i, w)' => Calls(i, w) /\ backlog'[i] = backlog[i]
      /\ \A w, i : Seats(i, w)' => Seats(i, w)
  BY <1>1, <1>2, RequestsStay, Zenon
<1>4. Known'
  <2>1. \A w, i : Calls(i, w)' => wst'[w] = "tracker" /\ backlog'[i].rank = rk'[w]
    BY <1>1, <1>3, Zenon DEF Known
  <2>2. \A w, i : Seats(i, w)' => wst'[w] = "tracker" /\ rk'[w] = -1
    BY <1>1, <1>3, Zenon DEF Known
  <2>3. \A w : Busy(w)' => wst'[w] = "tracker"
    BY <1>1, <1>2, Zenon DEF Known
  <2>4. cur' /= None /\ (Live(cur))' /\ tpc' \in {"good", "connect", "nerr"} => rk'[cur'.w] = rank'
    BY <1>1, Zenon DEF Known, Live
  <2>5. tpc' = "connect" => badset' \subseteq nnset[rank'] /\ conset' \subseteq DOMAIN wait_conn'
    BY <1>1, Zenon DEF Known
  <2>6. \A k \in DOMAIN wait_conn' : Live(wait_conn[k])' => rk'[wait_conn'[k].w] = k
    BY <1>1, Zenon DEF Known, Live
  <2>7. \A w \in Workers : wst'[w] = "down" => rk'[w] = -1
    BY <1>1, Zenon DEF Known
  <2> QED BY <2>1, <2>2, <2>3, <2>4, <2>5, <2>6, <2>7, Zenon DEF Known
<1>5. Behind' /\ LinksArePeers'
  BY <1>1, Zenon DEF Behind, Past, LinksArePeers
<1> QED BY <1>3, <1>4, <1>5, Zenon

LEMMA PairIs ==
    ASSUME NEW a, NEW b, NEW c, NEW d, {a, b} = {c, d}
    PROVE  (a = c /\ b = d) \/ (a = d /\ b = c)
  BY Zenon

(* The worker connects to peers that the tracker named, and that listen. *)
LEMMA ConnectLinks ==
    ASSUME Setting, Symmetric, Basics, LinksInv, PeersConnect
    PROVE  LinksInv'
<1> USE DEF LinksInv
<1>1. /\ tpc = "connect" /\ tpc' = "nerr" /\ Live(cur) /\ Types /\ cur /= None /\ cur \in Entry
      /\ rank \in Ranks /\ badset \subseteq nnset[rank] /\ conset \subseteq badset
      /\ UNCHANGED <<backlog, started, pending, todo_nodes, wait_conn, batch, cur, rank, badset,
                     inc, rk>>
  BY Zenon DEF PeersConnect, Closed, Live, accepting, Basics, Types, Phases, Known
<1>2. PICK c \in Workers : c = cur.w /\ Busy(c) /\ rk[c] = rank
  BY <1>1, Zenon DEF Entry, Busy, Known
<1>3. PICK failing \in SUBSET conset :
           LET gone == {r \in conset : ~Listens(wait_conn[r])}
               peers == {wait_conn[r].w : r \in conset \ failing}
           IN  /\ gone \subseteq failing
               /\ links' = links \cup {{cur.w, v} : v \in peers}
               /\ nerr' = Cardinality(failing)
               /\ wst' = IF failing = {} THEN [wst EXCEPT ![cur.w] = "job"] ELSE wst
  BY Zenon DEF PeersConnect
<1>4. /\ \A w \in Workers : w /= c => wst'[w] = wst[w]
      /\ \A w : wst'[w] = wst[w] \/ (w = c /\ wst'[w] = "job" /\ nerr' = 0)
  <2>1. failing = {} => nerr' = 0
    BY <1>3, FS_EmptySet, Zenon
  <2>2. CASE failing = {}
    <3>1. wst' = [wst EXCEPT ![c] = "job"]
      BY <1>2, <1>3, <2>2, Zenon
    <3>2. wst \in [Workers -> {"down", "tracker", "job", "done"}]
      BY <1>1, Zenon DEF Types
    <3> QED BY <2>1, <2>2, <3>1, <3>2
  <2>3. CASE failing /= {}
    BY <1>3, <2>3, Zenon
  <2> QED BY <2>2, <2>3, Zenon
<1>5. \A w : Busy(w)' => Busy(w) /\ nerr' /= 0
  BY <1>1, Zenon DEF Busy, Live
<1>6. /\ OneRequest' /\ Counted'
      /\ \A w, i : Calls(i, w)' => Calls(i, w) /\ backlog'[i] = backlog[i]
      /\ \A w, i : Seats(i, w)' => Seats(i, w)
  BY <1>1, <1>5, RequestsStay, Zenon
<1>7. Known'
  <2>1. \A w, i : Calls(i, w)' => wst'[w] = "tracker" /\ backlog'[i].rank = rk'[w]
    <3>1. \A w, i : Calls(i, w)' => w /= c
      BY <1>2, <1>6, Zenon DEF OneRequest
    <3>2. ASSUME NEW w, NEW i, Calls(i, w)' PROVE wst[w] = "tracker" /\ backlog'[i].rank = rk[w]
      <4>1. Calls(i, w) /\ backlog'[i] = backlog[i]
        BY <1>6, <3>2, Zenon
      <4> QED BY <4>1, Zenon DEF Known
    <3> QED BY <1>1, <1>4, <3>1, <3>2, Zenon
  <2>2. \A w, i : Seats(i, w)' => wst'[w] = "tracker" /\ rk'[w] = -1
    <3>1. \A w, i : Seats(i, w)' => w /= c
      BY <1>2, <1>6, Zenon DEF OneRequest
    <3>2. \A w, i : Seats(i, w)' => wst[w] = "tracker" /\ rk[w] = -1
      BY <1>6, Zenon DEF Known
    <3> QED BY <1>1, <1>4, <3>1, <3>2, Zenon
  <2>3. \A w : Busy(w)' => wst'[w] = "tracker"
    BY <1>4, <1>5, Zenon DEF Known
  <2>4. rk'[cur'.w] = rank'
    BY <1>1, <1>2, Zenon
  <2>5. \A k \in DOMAIN wait_conn' : Live(wait_conn[k])' => rk'[wait_conn'[k].w] = k
    BY <1>1, Zenon DEF Known, Live
  <2>6. \A w \in Workers : wst'[w] = "down" => rk'[w] = -1
    BY <1>1, <1>4, Zenon DEF Known
  <2> QED BY <1>1, <2>1, <2>2, <2>3, <2>4, <2>5, <2>6, Zenon DEF Known
<1>8. Behind'
  BY <1>1, Zenon DEF Behind, Past
<1>9. ASSUME NEW k \in conset \ failing
      PROVE  /\ rk[wait_conn[k].w] = k /\ k \in nnset[rank] /\ rank \in nnset[k] /\ k \in Ranks
  <2>1. Listens(wait_conn[k])
    BY <1>3, Zenon
  <2>2. Live(wait_conn[k]) /\ k \in nnset[rank] /\ k \in Ranks
    BY <1>1, <2>1, Zenon DEF Listens, Closed, Live, Types
  <2>3. k \in DOMAIN wait_conn
    BY <1>1, Zenon DEF Known
  <2> QED BY <1>1, <2>2, <2>3, Zenon DEF Known, Symmetric
<1>10. LinksArePeers'
  <2>1. SUFFICES ASSUME NEW v \in Workers, NEW w \in Workers, {v, w} \in links'
                 PROVE  rk[v] \in Ranks /\ rk[w] \in nnset[rk[v]]
    BY <1>1, Zenon DEF LinksArePeers
  <2>2. CASE {v, w} \in links
    BY <2>2, Zenon DEF LinksArePeers
  <2>3. CASE {v, w} \notin links
    <3>1. PICK k \in conset \ failing : {v, w} = {c, wait_conn[k].w}
      BY <1>2, <1>3, <2>1, <2>3, Zenon
    <3>2. (v = c /\ w = wait_conn[k].w) \/ (v = wait_conn[k].w /\ w = c)
      BY <3>1, PairIs, Zenon
    <3> QED BY <1>1, <1>2, <1>9, <3>2, Zenon
  <2> QED BY <2>2, <2>3, Zenon
<1> QED BY <1>6, <1>7, <1>8, <1>10, Zenon

(* The count of errors is read, and wait_conn is brought up to date. *)
LEMMA ReadLinks ==
    ASSUME Setting, Basics, Basics', LinksInv, ReadErrors
    PROVE  LinksInv'
<1> USE DEF LinksInv
<1>1. /\ tpc = "nerr" /\ Types /\ cur /= None /\ cur \in Entry
      /\ UNCHANGED <<backlog, started, pending, todo_nodes, batch, rank, nerr, inc, wst, rk, links>>
  BY Zenon DEF ReadErrors, accepting, workers, Basics, Types, Phases
<1>2. /\ \A w : Busy(w)' => Busy(w)
      /\ cur' = cur \/ cur' = None
      /\ tpc' \in {"good", "accept"}
  <2>1. CASE nerr /= 0 /\ tpc' = "good" /\ UNCHANGED <<wait_conn, cur, uncounted>>
    BY <1>1, <2>1, Zenon DEF Busy, Live
  <2>2. CASE Assigned
    BY <2>2, Zenon DEF Assigned, Busy
  <2> QED BY <2>1, <2>2, Zenon DEF ReadErrors
<1>3. /\ OneRequest' /\ Counted'
      /\ \A w, i : Calls(i, w)' => Calls(i, w) /\ backlog'[i] = backlog[i]
      /\ \A w, i : Seats(i, w)' => Seats(i, w)
  BY <1>1, <1>2, RequestsStay, Zenon
\* An entry of wait_conn is one that was there, or that of the worker in hand.
<1>4. ASSUME NEW r \in DOMAIN wait_conn'
      PROVE  \/ /\ r \in DOMAIN wait_conn
                /\ wait_conn'[r].w = wait_conn[r].w /\ wait_conn'[r].inc = wait_conn[r].inc
             \/ r = rank /\ wait_conn'[r].w = cur.w /\ wait_conn'[r].inc = cur.inc
  <2>1. CASE UNCHANGED wait_conn
    BY <2>1, Zenon
  <2>2. CASE Assigned
    <3>1. PICK n : wait_conn' = IF n > 0
                       THEN [k \in DOMAIN CountDown \cup {rank} |->
                                IF k = rank THEN [w |-> cur.w, inc |-> cur.inc, wait_accept |-> n]
                                ELSE CountDown[k]]
                       ELSE CountDown
      BY <2>2, Zenon DEF Assigned
    <3>2. \A k \in DOMAIN CountDown :
              /\ k \in DOMAIN wait_conn
              /\ CountDown[k].w = wait_conn[k].w /\ CountDown[k].inc = wait_conn[k].inc
      <4> DEFINE d(k) == IF k \in conset THEN 1 ELSE 0
                 L == {k \in DOMAIN wait_conn :
                          wait_conn[k].wait_accept - d(k) /= 0 \/ k \notin conset}
      <4>1. CountDown = [k \in L |->
                [wait_conn[k] EXCEPT !.wait_accept = wait_conn[k].wait_accept - d(k)]]
        BY Zenon DEF CountDown
      <4> HIDE DEF d
      <4>2. SUFFICES ASSUME NEW k \in DOMAIN CountDown
                     PROVE  /\ k \in DOMAIN wait_conn
                            /\ CountDown[k].w = wait_conn[k].w /\ CountDown[k].inc = wait_conn[k].inc
        BY Zenon
      <4>3. /\ k \in DOMAIN wait_conn
            /\ CountDown[k] = [wait_conn[k] EXCEPT !.wait_accept = wait_conn[k].wait_accept - d(k)]
        BY <4>1, <4>2, Zenon
      <4>4. wait_conn[k] \in Slot
        BY <1>1, <4>3, Zenon DEF Types
      <4> QED BY <4>3, <4>4, Zenon DEF Slot
    <3>3. CASE r \in DOMAIN CountDown /\ wait_conn'[r] = CountDown[r]
      BY <3>2, <3>3, Zenon
    <3>4. CASE r = rank /\ wait_conn'[r] = [w |-> cur.w, inc |-> cur.inc, wait_accept |-> n]
      BY <3>4
    <3> HIDE DEF CountDown
    <3> QED BY <3>1, <3>3, <3>4, Zenon
  <2> QED BY <2>1, <2>2, Zenon DEF ReadErrors
<1>5. Known'
  <2>1. \A w, i : Calls(i, w)' => wst'[w] = "tracker" /\ backlog'[i].rank = rk'[w]
    BY <1>1, <1>3, Zenon DEF Known
  <2>2. \A w, i : Seats(i, w)' => wst'[w] = "tracker" /\ rk'[w] = -1
    BY <1>1, <1>3, Zenon DEF Known
  <2>3. \A w : Busy(w)' => wst'[w] = "tracker"
    BY <1>1, <1>2, Zenon DEF Known
  <2>4. cur' /= None /\ (Live(cur))' => rk'[cur'.w] = rank'
    BY <1>1, <1>2, Zenon DEF Known, Live
  <2>5. ASSUME NEW k \in DOMAIN wait_conn', Live(wait_conn[k])' PROVE rk'[wait_conn'[k].w] = k
    BY <1>1, <1>4, <2>5, Zenon DEF Known, Live
  <2>6. \A w \in Workers : wst'[w] = "down" => rk'[w] = -1
    BY <1>1, Zenon DEF Known
  <2>7. tpc' /= "connect"
    BY <1>2, Zenon
  <2> QED BY <2>1, <2>2, <2>3, <2>4, <2>5, <2>6, <2>7, Zenon DEF Known
<1>6. Behind'
  <2>1. ASSUME NEW k \in DOMAIN wait_conn' PROVE Past(wait_conn[k])'
    BY <1>1, <1>4, Zenon DEF Behind, Past
  <2>2. cur' /= None => Past(cur)'
    BY <1>1, <1>2, Zenon DEF Behind, Past
  <2> QED BY <1>1, <2>1, <2>2, Zenon DEF Behind, Past
<1>7. LinksArePeers'
  BY <1>1, Zenon DEF LinksArePeers
<1> QED BY <1>3, <1>5, <1>6, <1>7, Zenon

(* A worker calls the tracker. *)
LEMMA WorkerLinks ==
    ASSUME Setting, Basics, Basics', LinksInv, NEW w \in Workers, Worker(w) \/ LogMessage(w)
    PROVE  LinksInv'
<1> USE DEF LinksInv
<1>1. Types /\ rk[w] \in Ranks \cup {-1} /\ inc[w] \in Nat
  BY Zenon DEF Basics, Types
<1>2. /\ UNCHANGED <<tpc, started, pending, todo_nodes, wait_conn, batch, cur, rank, badset, conset,
                     nerr, inc, rk, links>>
      /\ \/ /\ \E cmd \in {"shutdown", "print"}, k \in Ranks \cup {-1} : Call(w, cmd, k)
            /\ \A v \in Workers : v /= w => wst'[v] = wst[v]
            /\ wst'[w] = wst[w] \/ (wst[w] = "job" /\ wst'[w] = "done")
         \/ /\ \E cmd \in {"start", "recover"} : Call(w, cmd, rk[w])
            /\ \A v \in Workers : v /= w => wst'[v] = wst[v]
            /\ wst[w] \in {"down", "job"} /\ wst'[w] = "tracker"
  <2>1. wst \in [Workers -> {"down", "tracker", "job", "done"}]
    BY <1>1, Zenon DEF Types
  <2>2. CASE Start(w)
    <3>1. Call(w, "start", rk[w]) /\ wst[w] = "down" /\ wst' = [wst EXCEPT ![w] = "tracker"]
      BY <2>2, Zenon DEF Start, Known
    <3> QED BY <2>1, <2>2, <3>1, Zenon DEF Start, accepting, assigning
  <2>3. CASE Recover(w)
    BY <2>1, <2>3, Zenon DEF Recover, accepting, assigning
  <2>4. CASE Shutdown(w)
    BY <1>1, <2>1, <2>4, Zenon DEF Shutdown, accepting, assigning
  <2>5. CASE LogMessage(w)
    BY <1>1, <2>5, Zenon DEF LogMessage, accepting, assigning, workers
  <2> QED BY <2>2, <2>3, <2>4, <2>5, Zenon DEF Worker
<1>3. PICK m \in Entry :
             /\ backlog' = Append(backlog, m) /\ m.w = w /\ m.inc = inc[w]
             /\ Asks(m) => m.rank = rk[w] /\ wst[w] \in {"down", "job"} /\ wst'[w] = "tracker"
             /\ ~Asks(m) => wst'[w] = wst[w] \/ (wst[w] = "job" /\ wst'[w] = "done")
  <2>1. ASSUME NEW cmd \in {"start", "recover", "shutdown", "print"}, NEW k \in Ranks \cup {-1},
               Call(w, cmd, k)
        PROVE  \E m \in Entry : /\ backlog' = Append(backlog, m) /\ m.w = w /\ m.inc = inc[w]
                                /\ m.cmd = cmd /\ m.rank = k
    <3> DEFINE m == [w |-> w, inc |-> inc[w], cmd |-> cmd, rank |-> k]
    <3>1. m \in Entry /\ m.w = w /\ m.inc = inc[w] /\ m.cmd = cmd /\ m.rank = k
      BY <1>1, Zenon DEF Entry
    <3>2. backlog' = Append(backlog, m)
      BY <2>1, Zenon DEF Call
    <3> HIDE DEF m
    <3> QED BY <3>1, <3>2, Zenon
  <2>2. CASE /\ \E cmd \in {"shutdown", "print"}, k \in Ranks \cup {-1} : Call(w, cmd, k)
             /\ wst'[w] = wst[w] \/ (wst[w] = "job" /\ wst'[w] = "done")
    <3>1. PICK cmd \in {"shutdown", "print"}, k \in Ranks \cup {-1} : Call(w, cmd, k)
      BY <2>2, Zenon
    <3>2. PICK m \in Entry : /\ backlog' = Append(backlog, m) /\ m.w = w /\ m.inc = inc[w]
                             /\ m.cmd = cmd /\ m.rank = k
      <4>1. cmd \in {"start", "recover", "shutdown", "print"}
        BY <3>1, Zenon
      <4> QED BY <2>1, <3>1, <4>1
    <3>3. ~Asks(m)
      BY <3>1, <3>2, Zenon DEF Asks
    <3> QED BY <2>2, <3>2, <3>3, Zenon
  <2>3. CASE /\ \E cmd \in {"start", "recover"} : Call(w, cmd, rk[w])
             /\ wst[w] \in {"down", "job"} /\ wst'[w] = "tracker"
    <3>1. PICK cmd \in {"start", "recover"} : Call(w, cmd, rk[w])
      BY <2>3, Zenon
    <3>2. PICK m \in Entry : /\ backlog' = Append(backlog, m) /\ m.w = w /\ m.inc = inc[w]
                             /\ m.cmd = cmd /\ m.rank = rk[w]
      <4>1. cmd \in {"start", "recover", "shutdown", "print"}
        BY <3>1, Zenon
      <4> QED BY <1>1, <2>1, <3>1, <4>1
    <3>3. Asks(m)
      BY <3>1, <3>2, Zenon DEF Asks
    <3> QED BY <2>3, <3>2, <3>3, Zenon
  <2> QED BY <1>2, <2>2, <2>3, Zenon
<1>4. \A v \in Workers : v /= w => wst'[v] = wst[v]
  BY <1>2, Zenon
<1>5. \A v, i : Calls(i, v)' => \/ Calls(i, v) /\ backlog'[i] = backlog[i]
                                \/ i = Len(backlog') /\ Asks(m) /\ v = w /\ backlog'[i] = m
  <2>1. Types /\ backlog' = Append(backlog, m) /\ inc' = inc /\ m.w = w
    BY <1>1, <1>2, <1>3, Zenon
  <2>2. \A v, i : Calls(i, v)' => \/ Calls(i, v) /\ backlog'[i] = backlog[i]
                                  \/ i = Len(backlog') /\ Asks(m) /\ m.w = v /\ backlog'[i] = m
    BY <2>1, CallsAdded, Zenon
  <2> QED BY <2>1, <2>2, Zenon
<1>6. /\ \A v, i : Seats(i, v)' => Seats(i, v)
      /\ \A v : Busy(v)' => Busy(v)
  <2>1. Line' = Line
    BY <1>2, Zenon DEF Line
  <2> QED BY <1>2, <2>1, Zenon DEF Seats, Busy, Live
\* One who asks has no other request; the requests of the others stand.
<1>7. /\ Asks(m) => \A i : ~Calls(i, w) /\ ~Seats(i, w) /\ ~Busy(w)
      /\ \A v \in Workers : wst[v] = "tracker" => wst'[v] = "tracker"
  <2>1. Asks(m) => \A i : ~Calls(i, w) /\ ~Seats(i, w) /\ ~Busy(w)
    BY <1>3, Zenon DEF Known
  <2>2. wst[w] = "tracker" => wst'[w] = "tracker"
    BY <1>3, Zenon
  <2> QED BY <1>4, <2>1, <2>2, Zenon
<1>8. OneRequest'
  <2>1. ASSUME NEW v, NEW i, NEW j, Calls(i, v)', Calls(j, v)' PROVE i = j
    <3>1. CASE Calls(i, v) /\ Calls(j, v)
      BY <3>1, Zenon DEF OneRequest
    <3>2. CASE i = Len(backlog') /\ j = Len(backlog')
      BY <3>2, Zenon
    <3>3. CASE Asks(m) /\ v = w
      <4>1. ~Calls(i, v) /\ ~Calls(j, v)
        BY <1>7, <3>3, Zenon
      <4>2. i = Len(backlog') /\ j = Len(backlog')
        BY <1>5, <2>1, <4>1
      <4> QED BY <3>2, <4>2, Zenon
    <3> QED BY <1>5, <2>1, <3>1, <3>3, Zenon
  <2>2. ASSUME NEW v, NEW i, NEW j, Calls(i, v)' PROVE ~Seats(j, v)' /\ ~Busy(v)'
    <3>1. CASE Calls(i, v)
      BY <1>6, <3>1, Zenon DEF OneRequest
    <3>2. CASE Asks(m) /\ v = w
      BY <1>6, <1>7, <3>2, Zenon
    <3> QED BY <1>5, <2>2, <3>1, <3>2, Zenon
  <2>3. \A v, i, j : Seats(i, v)' /\ Seats(j, v)' => i = j
    BY <1>6, Zenon DEF OneRequest
  <2>4. \A v, i : Seats(i, v)' => ~Busy(v)'
    BY <1>6, Zenon DEF OneRequest
  <2> QED BY <2>1, <2>2, <2>3, <2>4, Zenon DEF OneRequest
<1>9. Known'
  <2>1. ASSUME NEW v, NEW i, Calls(i, v)' PROVE wst'[v] = "tracker" /\ backlog'[i].rank = rk'[v]
    <3>1. v \in Workers
      BY <2>1, CallsWorkers, Zenon DEF Basics
    <3>2. CASE Calls(i, v) /\ backlog'[i] = backlog[i]
      <4>1. wst[v] = "tracker" /\ backlog[i].rank = rk[v]
        BY <3>2, Zenon DEF Known
      <4> QED BY <1>2, <1>7, <3>1, <3>2, <4>1, Zenon
    <3>3. CASE Asks(m) /\ v = w /\ backlog'[i] = m
      BY <1>2, <1>3, <3>3, Zenon
    <3> QED BY <1>5, <2>1, <3>2, <3>3, Zenon
  <2>2. ASSUME NEW v, NEW i, Seats(i, v)' PROVE wst'[v] = "tracker" /\ rk'[v] = -1
    <3>1. v \in Workers
      BY <2>2, CallsWorkers, Zenon DEF Basics
    <3>2. wst[v] = "tracker" /\ rk[v] = -1
      BY <1>6, <2>2, Zenon DEF Known
    <3> QED BY <1>2, <1>7, <3>1, <3>2, Zenon
  <2>3. ASSUME NEW v, Busy(v)' PROVE wst'[v] = "tracker"
    <3>1. v \in Workers
      BY <1>1, <1>2, <2>3, Zenon DEF Busy, Types, Entry
    <3> QED BY <1>6, <1>7, <2>3, <3>1, Zenon DEF Known
  <2>4. cur' /= None /\ (Live(cur))' /\ tpc' \in {"good", "connect", "nerr"} => rk'[cur'.w] = rank'
    BY <1>2, Zenon DEF Known, Live
  <2>5. tpc' = "connect" => badset' \subseteq nnset[rank'] /\ conset' \subseteq DOMAIN wait_conn'
    BY <1>2, Zenon DEF Known
  <2>6. \A k \in DOMAIN wait_conn' : Live(wait_conn[k])' => rk'[wait_conn'[k].w] = k
    BY <1>2, Zenon DEF Known, Live
  <2>7. \A v \in Workers : wst'[v] = "down" => rk'[v] = -1
    <3>1. \A v \in Workers : wst'[v] = "down" => wst[v] = "down"
      BY <1>3, <1>4, Zenon
    <3> QED BY <1>2, <3>1, Zenon DEF Known
  <2> QED BY <2>1, <2>2, <2>3, <2>4, <2>5, <2>6, <2>7, Zenon DEF Known
<1>10. Behind'
  <2>1. \A i \in DOMAIN backlog' : \/ i \in DOMAIN backlog /\ backlog'[i] = backlog[i]
                                   \/ backlog'[i] = m
    BY <1>1, <1>3, AppendCases DEF Types
  <2>2. Past(m)
    BY <1>1, <1>3 DEF Past
  <2>3. \A i \in DOMAIN backlog' : Past(backlog[i])'
    BY <1>2, <2>1, <2>2, Zenon DEF Behind, Past
  <2> QED BY <1>2, <2>3, Zenon DEF Behind, Past
<1>11. Counted' /\ LinksArePeers'
  BY <1>2 DEF Counted, LinksArePeers
<1> QED BY <1>8, <1>9, <1>10, <1>11, Zenon

(* A worker crashes: what it had sent is of the past. *)
LEMMA CrashLinks ==
    ASSUME Setting, Basics, Basics', LinksInv, NEW w \in Workers, Crash(w)
    PROVE  LinksInv'
<1> USE DEF LinksInv
<1>1. /\ Types /\ inc[w] \in Nat
      /\ UNCHANGED <<tpc, backlog, started, pending, todo_nodes, wait_conn, batch, cur, rank, badset,
                     conset, nerr>>
      /\ links' = {l \in links : w \notin l}
  BY Zenon DEF Crash, accepting, assigning, Basics, Types
<1>2. /\ inc'[w] = inc[w] + 1 /\ rk'[w] = -1 /\ wst'[w] = "down"
      /\ \A v \in Workers : v /= w => inc'[v] = inc[v] /\ rk'[v] = rk[v] /\ wst'[v] = wst[v]
  <2>1. /\ inc \in [Workers -> Nat] /\ rk \in [Workers -> Ranks \cup {-1}]
        /\ wst \in [Workers -> {"down", "tracker", "job", "done"}]
    BY <1>1, Zenon DEF Types
  <2> QED BY <2>1, Zenon DEF Crash
<1>3. ASSUME NEW e, e.w \in Workers, e.inc \in Nat, Past(e)
      PROVE  /\ e.inc <= inc'[e.w]
             /\ inc'[e.w] = e.inc => Live(e) /\ e.w /= w
  <2>1. CASE e.w = w
    BY <1>1, <1>2, <1>3, <2>1 DEF Past
  <2>2. CASE e.w /= w
    BY <1>2, <1>3, <2>2, Zenon DEF Past, Live
  <2> QED BY <2>1, <2>2, Zenon
<1>4. /\ \A i \in DOMAIN backlog : backlog[i].w \in Workers /\ backlog[i].inc \in Nat
      /\ \A i \in DOMAIN pending : pending[i].w \in Workers /\ pending[i].inc \in Nat
      /\ \A i \in DOMAIN batch : batch[i].w \in Workers /\ batch[i].inc \in Nat
      /\ cur /= None => cur.w \in Workers /\ cur.inc \in Nat
      /\ \A r \in DOMAIN wait_conn : wait_conn[r].w \in Workers /\ wait_conn[r].inc \in Nat
  <2>1. ASSUME NEW s \in Seq(Entry), NEW i \in DOMAIN s PROVE s[i].w \in Workers /\ s[i].inc \in Nat
    <3>1. s[i] \in Entry
      BY LenIs, ElementIs, Zenon
    <3> QED BY <3>1, Zenon DEF Entry
  <2>2. cur /= None => cur.w \in Workers /\ cur.inc \in Nat
    BY <1>1, Zenon DEF Types, Entry
  <2>3. \A r \in DOMAIN wait_conn : wait_conn[r].w \in Workers /\ wait_conn[r].inc \in Nat
    <3>1. \A r \in DOMAIN wait_conn : wait_conn[r] \in Slot
      BY <1>1, Zenon DEF Types
    <3> QED BY <3>1, Zenon DEF Slot
  <2> QED BY <1>1, <2>1, <2>2, <2>3, Zenon DEF Types
<1>5. \A i \in DOMAIN Line : Line[i].w \in Workers /\ Line[i].inc \in Nat /\ Past(Line[i])
  <2>1. DOMAIN <<>> = {}
    BY EmptyIs
  <2> QED BY <1>4, <2>1, Zenon DEF Line, Behind
<1>6. \A v, i : Calls(i, v)' => Calls(i, v) /\ v /= w
  <2>1. \A i \in DOMAIN backlog : inc'[backlog[i].w] = backlog[i].inc => Live(backlog[i]) /\ backlog[i].w /= w
    BY <1>3, <1>4, Zenon DEF Behind
  <2> QED BY <1>1, <2>1, Zenon DEF Calls, Live, Asks
<1>7. \A v, i : Seats(i, v)' => Seats(i, v) /\ v /= w
  <2>1. \A i \in DOMAIN Line : inc'[Line[i].w] = Line[i].inc => Live(Line[i]) /\ Line[i].w /= w
    BY <1>3, <1>5, Zenon
  <2>2. Line' = Line
    BY <1>1, Zenon DEF Line
  <2> QED BY <2>1, <2>2, Zenon DEF Seats, Live
<1>8. /\ cur /= None /\ (Live(cur))' => Live(cur) /\ cur.w /= w /\ cur.w \in Workers
      /\ \A v : Busy(v)' => Busy(v) /\ v /= w /\ v \in Workers
  <2>1. cur /= None /\ (Live(cur))' => Live(cur) /\ cur.w /= w /\ cur.w \in Workers
    BY <1>1, <1>3, <1>4, Zenon DEF Behind, Live
  <2> QED BY <1>1, <2>1, Zenon DEF Busy
<1>9. OneRequest'
  <2>1. \A v, i, j : Calls(i, v)' /\ Calls(j, v)' => i = j
    BY <1>6, Zenon DEF OneRequest
  <2>2. \A v, i, j : Seats(i, v)' /\ Seats(j, v)' => i = j
    BY <1>7, Zenon DEF OneRequest
  <2>3. ASSUME NEW v, NEW i, NEW j, Calls(i, v)' PROVE ~Seats(j, v)' /\ ~Busy(v)'
    BY <1>6, <1>7, <1>8, <2>3, Zenon DEF OneRequest
  <2>4. \A v, i : Seats(i, v)' => ~Busy(v)'
    BY <1>7, <1>8, Zenon DEF OneRequest
  <2> QED BY <2>1, <2>2, <2>3, <2>4, Zenon DEF OneRequest
<1>10. Known'
  <2>1. ASSUME NEW v, NEW i, Calls(i, v)' PROVE wst'[v] = "tracker" /\ backlog'[i].rank = rk'[v]
    <3>1. v \in Workers /\ v /= w /\ Calls(i, v)
      BY <1>6, <2>1, CallsWorkers, Zenon DEF Basics
    <3>2. wst[v] = "tracker" /\ backlog[i].rank = rk[v]
      BY <3>1, Zenon DEF Known
    <3> QED BY <1>1, <1>2, <3>1, <3>2, Zenon
  <2>2. ASSUME NEW v, NEW i, Seats(i, v)' PROVE wst'[v] = "tracker" /\ rk'[v] = -1
    <3>1. v \in Workers /\ v /= w /\ Seats(i, v)
      BY <1>7, <2>2, CallsWorkers, Zenon DEF Basics
    <3>2. wst[v] = "tracker" /\ rk[v] = -1
      BY <3>1, Zenon DEF Known
    <3> QED BY <1>1, <1>2, <3>1, <3>2, Zenon
  <2>3. ASSUME NEW v, Busy(v)' PROVE wst'[v] = "tracker"
    BY <1>2, <1>8, <2>3, Zenon DEF Known
  <2>4. cur' /= None /\ (Live(cur))' /\ tpc' \in {"good", "connect", "nerr"} => rk'[cur'.w] = rank'
    BY <1>1, <1>2, <1>8, Zenon DEF Known
  <2>5. tpc' = "connect" => badset' \subseteq nnset[rank'] /\ conset' \subseteq DOMAIN wait_conn'
    BY <1>1, Zenon DEF Known
  <2>6. ASSUME NEW k \in DOMAIN wait_conn', Live(wait_conn[k])' PROVE rk'[wait_conn'[k].w] = k
    <3>1. k \in DOMAIN wait_conn /\ inc'[wait_conn[k].w] = wait_conn[k].inc
      BY <1>1, <2>6, Zenon DEF Live
    <3>2. Live(wait_conn[k]) /\ wait_conn[k].w /= w /\ wait_conn[k].w \in Workers
      BY <1>3, <1>4, <3>1, Zenon DEF Behind
    <3> QED BY <1>1, <1>2, <3>1, <3>2, Zenon DEF Known
  <2>7. \A v \in Workers : wst'[v] = "down" => rk'[v] = -1
    BY <1>2, Zenon DEF Known
  <2> QED BY <2>1, <2>2, <2>3, <2>4, <2>5, <2>6, <2>7, Zenon DEF Known
<1>11. Behind'
  <2>1. /\ \A i \in DOMAIN backlog : backlog[i].inc <= inc'[backlog[i].w]
        /\ \A i \in DOMAIN pending : pending[i].inc <= inc'[pending[i].w]
        /\ \A i \in DOMAIN batch : batch[i].inc <= inc'[batch[i].w]
    BY <1>3, <1>4, Zenon DEF Behind
  <2>2. /\ cur /= None => cur.inc <= inc'[cur.w]
        /\ \A r \in DOMAIN wait_conn : wait_conn[r].inc <= inc'[wait_conn[r].w]
    BY <1>3, <1>4, Zenon DEF Behind
  <2> QED BY <1>1, <2>1, <2>2, Zenon DEF Behind, Past
<1>12. Counted'
  BY <1>1 DEF Counted
<1>13. LinksArePeers'
  <2>1. SUFFICES ASSUME NEW u \in Workers, NEW v \in Workers, {u, v} \in links'
                 PROVE  rk'[u] \in Ranks /\ rk'[v] \in nnset[rk'[u]]
    BY Zenon DEF LinksArePeers
  <2>2. {u, v} \in links /\ u /= w /\ v /= w
    BY <1>1, <2>1, Zenon
  <2> QED BY <1>2, <2>2, Zenon DEF LinksArePeers
<1> QED BY <1>9, <1>10, <1>11, <1>12, <1>13, Zenon

LEMMA LinksStep == Setting /\ Symmetric /\ Basics /\ Basics' /\ LinksInv /\ [Next]_vars => LinksInv'
<1> SUFFICES ASSUME Setting, Symmetric, Basics, Basics', LinksInv, [Next]_vars PROVE LinksInv'
  BY Zenon
<1>1. CASE TrackerEnds \/ Negotiate \/ WorkerGone \/ TrackerStays \/ UNCHANGED vars
  BY <1>1, QuietLinks, Zenon
<1>2. CASE \E w \in Workers : Worker(w) \/ LogMessage(w) \/ Crash(w)
  BY <1>2, WorkerLinks, CrashLinks, Zenon
<1> QED BY <1>1, <1>2, AcceptLinks, BatchLinks, ConnectLinks, ReadLinks, Zenon DEF Next, Tracker

---------------------------------------------------------------------------
(* The assertions *)

InHand(w) == tpc \in {"good", "connect"} /\ cur /= None /\ cur.w = w
Waits(w) == \E i \in DOMAIN backlog : backlog[i].w = w /\ Asks(backlog[i])

\* The workers of s wait for their rank, each in one place.
Queued(s) ==
    /\ \A i, j \in DOMAIN s : s[i].w = s[j].w => i = j
    /\ \A i \in DOMAIN s : wst[s[i].w] = "tracker" /\ ~InHand(s[i].w) /\ ~Waits(s[i].w)

FirstLife ==
    /\ \A w \in Workers : inc[w] = 0
    /\ \A i \in DOMAIN backlog : backlog[i].inc = 0
    /\ \A i \in DOMAIN pending : pending[i].inc = 0
    /\ \A i \in DOMAIN batch : batch[i].inc = 0
    /\ cur /= None => cur.inc = 0
    /\ \A r \in DOMAIN wait_conn : wait_conn[r].inc = 0

\* A message that asks for a rank is the only one of its worker, and so is one
\* that reports its end.
Asking(i) ==
    Asks(backlog[i]) =>
        /\ wst[backlog[i].w] = "tracker" /\ ~InHand(backlog[i].w)
        /\ \A j \in DOMAIN backlog : Asks(backlog[j]) /\ backlog[j].w = backlog[i].w => j = i

Naming(i) ==
    /\ backlog[i].cmd = "start" => backlog[i].rank = -1 /\ backlog[i].w \notin DOMAIN job_map
    /\ backlog[i].cmd = "recover" => backlog[i].rank \in Ranks

Ending(i) ==
    backlog[i].cmd = "shutdown" =>
        /\ wst[backlog[i].w] = "done" /\ backlog[i].rank = rk[backlog[i].w]
        /\ backlog[i].rank \notin shutdown
        /\ \A j \in DOMAIN backlog :
              backlog[j].cmd = "shutdown" /\ backlog[j].w = backlog[i].w => j = i

Messages == \A i \in DOMAIN backlog : Asking(i) /\ Naming(i) /\ Ending(i)

\* The worker in assign_rank. Once it has connected it goes on without waiting
\* for the tracker to read its answer.
Assigning ==
    cur /= None /\ tpc \in {"good", "connect", "nerr"} =>
        /\ rk[cur.w] = rank /\ rank \notin DOMAIN wait_conn
        /\ tpc /= "nerr" => wst[cur.w] = "tracker"
        /\ tpc /= "good" => conset \subseteq DOMAIN wait_conn
        /\ tpc = "nerr" =>
              /\ nerr = 0
              /\ toaccept[cur.w] = Cardinality(badset) - Cardinality(conset)
              /\ toaccept[cur.w] > 0 => wst[cur.w] = "job"

\* wait_conn agrees with the workers, except for what assign_rank has yet to read.
Unread(r) == IF tpc = "nerr" /\ r \in conset THEN 1 ELSE 0

Waiting ==
    \A r \in DOMAIN wait_conn :
        /\ rk[wait_conn[r].w] = r /\ wait_conn[r].wait_accept > 0
        /\ toaccept[wait_conn[r].w] = wait_conn[r].wait_accept - Unread(r)
        /\ toaccept[wait_conn[r].w] > 0 => wst[wait_conn[r].w] = "job"

Standing ==
    /\ \A w \in Workers : wst[w] \in {"job", "done"} => rk[w] \in Ranks
    /\ \A w \in DOMAIN job_map : wst[w] /= "down"
    /\ \A r \in shutdown : \E w \in Workers : rk[w] = r /\ wst[w] = "done"

\* Before all ranks are handed out at once, and from then on.
Gathering ==
    /\ batch = <<>> /\ Len(pending) < nslave
    /\ started => Len(todo_nodes) = nslave
    /\ Queued(pending)

Gathered ==
    /\ \A w \in Workers : wst[w] /= "down"
    /\ \A i \in DOMAIN backlog : backlog[i].cmd /= "start"

Peaceful == crashes = 0 /\ errors = 0

Calm ==
    /\ tpc \notin {"spin", "raised"}
    /\ FirstLife /\ Messages /\ Assigning /\ Waiting /\ Standing
    /\ Queued(batch)
    /\ Gathering \/ Gathered

LEMMA OwnRank ==
    ASSUME RanksApart, NEW w \in Workers, NEW v \in Workers, rk[w] \in Ranks, rk[v] = rk[w]
    PROVE  w = v
  BY Zenon DEF RanksApart, Owns

(* What a step that touches neither assign_rank nor wait_conn leaves as it was. *)
LEMMA AssigningKept ==
    ASSUME UNCHANGED <<tpc, cur, rank, badset, conset, nerr, wait_conn, rk, wst, toaccept>>
    PROVE  (Assigning => Assigning') /\ (Waiting => Waiting')
<1>1. \A r : Unread(r)' = Unread(r)
  BY Zenon DEF Unread
<1> QED BY <1>1, Zenon DEF Assigning, Waiting

LEMMA StandingKept ==
    ASSUME Standing, UNCHANGED <<job_map, shutdown, rk, wst>>
    PROVE  Standing'
  BY Zenon DEF Standing

(* Between two calls of assign_rank, whoever is in wait_conn waits. *)
LEMMA WaitingWorker ==
    ASSUME Waiting, tpc = "accept", NEW r \in DOMAIN wait_conn, wait_conn[r] \in Slot
    PROVE  rk[wait_conn[r].w] = r /\ toaccept[wait_conn[r].w] > 0
<1>1. /\ rk[wait_conn[r].w] = r /\ wait_conn[r].wait_accept > 0
      /\ toaccept[wait_conn[r].w] = wait_conn[r].wait_accept - 0
  BY Zenon DEF Waiting, Unread
<1>2. wait_conn[r].wait_accept \in Int
  BY Zenon DEF Slot
<1> QED BY <1>1, <1>2

(* One connection less, and not the last. *)
LEMMA OneLess ==
    ASSUME NEW a \in Int, NEW b \in {0, 1}, a > 0, a - b /= 0 \/ b = 0
    PROVE  a - b > 0
  OBVIOUS

(* One worker more in pending, and not the last. *)
LEMMA OneMore ==
    ASSUME NEW a \in Nat, NEW b \in Nat, a < b, a + 1 /= b
    PROVE  a + 1 < b
  OBVIOUS

LEMMA CalmInit == Setting /\ Init => Calm
<1> SUFFICES ASSUME Setting, Init PROVE Calm
  BY Zenon
<1>1. /\ DOMAIN backlog = {} /\ DOMAIN pending = {} /\ DOMAIN batch = {} /\ DOMAIN wait_conn = {}
      /\ DOMAIN job_map = {} /\ shutdown = {} /\ cur = None /\ tpc = "accept" /\ ~started
      /\ batch = <<>> /\ Len(pending) = 0
  BY EmptyIs DEF Init
<1>2. \A w \in Workers : inc[w] = 0 /\ wst[w] = "down"
  BY Zenon DEF Init
<1>3. FirstLife /\ Messages /\ Assigning /\ Waiting
  BY <1>1, <1>2, Zenon DEF FirstLife, Messages, Assigning, Waiting
<1>4. Standing /\ Queued(batch) /\ Queued(pending)
  BY <1>1, <1>2, Zenon DEF Standing, Queued
<1>5. Gathering
  BY <1>1, <1>4 DEF Gathering, Setting, Proper
<1> QED BY <1>1, <1>3, <1>4, <1>5, Zenon DEF Calm

(* A worker that waits for its rank gets one that is nobody's. *)
LEMMA HandTaken ==
    ASSUME Setting, Basics, RanksApart', Basics', FirstLife, Waiting, Standing,
           tpc \in {"accept", "good"}, NEW s \in Entry, NEW r \in Ranks,
           s.inc = 0, wst[s.w] = "tracker", BeginAssign(s, r),
           UNCHANGED <<wait_conn, inc, wst, toaccept, shutdown>>
    PROVE  /\ tpc' = "good" /\ cur' = s /\ cur' /= None
           /\ \A w \in Workers : w /= s.w => rk'[w] = rk[w]
           /\ \A w : InHand(w)' <=> w = s.w
           /\ Assigning' /\ Waiting'
           /\ \A w \in Workers : wst'[w] \in {"job", "done"} => rk'[w] \in Ranks
           /\ \A k \in shutdown' : \E w \in Workers : rk'[w] = k /\ wst'[w] = "done"
<1>1. s.w \in Workers /\ s /= None /\ Types
  BY Zenon DEF Entry, Setting, Proper, Basics
<1>2. ~Closed(s)
  BY <1>1, Zenon DEF Closed, FirstLife
<1>3. tpc' = "good" /\ cur' = s /\ rank' = r /\ rk' = [rk EXCEPT ![s.w] = r]
  BY <1>2, Zenon DEF BeginAssign
<1>4. rk'[s.w] = r /\ \A w \in Workers : w /= s.w => rk'[w] = rk[w]
  BY <1>1, <1>3, Zenon DEF Types
<1>5. \A w : InHand(w)' <=> w = s.w
  BY <1>1, <1>3, Zenon DEF InHand
<1>6. ASSUME NEW k \in DOMAIN wait_conn
      PROVE  wait_conn[k].w \in Workers /\ wait_conn[k].w /= s.w
  <2>1. wait_conn[k] \in Slot
    BY <1>1, Zenon DEF Types
  <2>2. wait_conn[k].w \in Workers /\ wait_conn[k].wait_accept \in Int
    BY <2>1, Zenon DEF Slot
  <2>3. toaccept[wait_conn[k].w] > 0
    BY <2>2 DEF Waiting, Unread
  <2>4. wst[wait_conn[k].w] = "job"
    BY <2>3, Zenon DEF Waiting
  <2> QED BY <2>2, <2>4, Zenon
<1>7. r \notin DOMAIN wait_conn
  <2>1. SUFFICES ASSUME r \in DOMAIN wait_conn PROVE FALSE
    BY Zenon
  <2>2. PICK v \in Workers : v = wait_conn[r].w /\ v /= s.w
    BY <1>6, <2>1, Zenon
  <2>3. rk'[v] = r
    BY <1>4, <2>1, <2>2, Zenon DEF Waiting
  <2>4. (Owns(v, r))' /\ (Owns(s.w, r))'
    BY <1>4, <2>3, Zenon DEF Owns
  <2> QED BY <1>1, <2>2, <2>4, Zenon DEF RanksApart
<1>8. Assigning'
  BY <1>3, <1>4, <1>7, Zenon DEF Assigning
<1>9. Waiting'
  BY <1>3, <1>4, <1>6 DEF Waiting, Unread
<1>10. \A w \in Workers : wst'[w] \in {"job", "done"} => rk'[w] \in Ranks
  BY <1>4, Zenon DEF Standing
<1>11. \A k \in shutdown' : \E w \in Workers : rk'[w] = k /\ wst'[w] = "done"
  BY <1>4 DEF Standing
<1> QED BY <1>1, <1>3, <1>4, <1>5, <1>8, <1>9, <1>10, <1>11, Zenon

(* The permutation of a queue of waiting workers is one. *)
LEMMA SortQueued ==
    ASSUME Setting, NEW p \in Seq(Entry), Queued(p)'
    PROVE  Queued(ByHost(p))'
<1>1. PICK f \in [DOMAIN p -> DOMAIN p] :
               /\ \A k, l \in DOMAIN p : f[k] = f[l] => k = l
               /\ ByHost(p) = [k \in DOMAIN p |-> p[f[k]]]
  BY Zenon DEF Setting, SortPermutes
<1>2. DOMAIN ByHost(p) = DOMAIN p /\ \A k \in DOMAIN p : f[k] \in DOMAIN p /\ ByHost(p)[k] = p[f[k]]
  BY <1>1, Zenon
<1>3. \A k, l \in DOMAIN p : p[f[k]].w = p[f[l]].w => k = l
  BY <1>1, <1>2, Zenon DEF Queued
<1>4. \A k \in DOMAIN p : wst'[p[f[k]].w] = "tracker" /\ ~InHand(p[f[k]].w)' /\ ~Waits(p[f[k]].w)'
  BY <1>2, Zenon DEF Queued
<1> QED BY <1>2, <1>3, <1>4 DEF Queued

(* The messages and the queues, when only the workers in hand change. *)
LEMMA MessagesKept ==
    ASSUME Basics, Messages, UNCHANGED <<backlog, shutdown>>,
           \A w \in Workers : wst[w] = "tracker" /\ ~InHand(w) /\ Waits(w) =>
               wst'[w] = "tracker" /\ ~InHand(w)',
           \A w \in Workers : wst[w] = "done" => wst'[w] = "done" /\ rk'[w] = rk[w],
           job_map' = job_map \/ \A i \in DOMAIN backlog : backlog[i].cmd /= "start"
    PROVE  Messages'
<1>1. SUFFICES ASSUME NEW i \in DOMAIN backlog PROVE Asking(i)' /\ Naming(i)' /\ Ending(i)'
  BY Zenon DEF Messages
<1>2. PICK m \in Entry : m = backlog[i] /\ m.w \in Workers
  <2>1. backlog[i] \in Entry
    BY ElementIs, LenIs DEF Basics, Types
  <2> QED BY <2>1, Zenon DEF Entry
<1>3. m = backlog'[i] /\ Asking(i) /\ Naming(i) /\ Ending(i)
  BY <1>2, Zenon DEF Messages
<1>4. Asking(i)'
  <2>1. SUFFICES ASSUME Asks(m)
                 PROVE  /\ wst'[m.w] = "tracker" /\ ~InHand(m.w)'
                        /\ \A j \in DOMAIN backlog' : Asks(backlog'[j]) /\ backlog'[j].w = m.w => j = i
    BY <1>3, Zenon DEF Asking, Asks
  <2>2. /\ wst[m.w] = "tracker" /\ ~InHand(m.w)
        /\ \A j \in DOMAIN backlog : Asks(backlog[j]) /\ backlog[j].w = m.w => j = i
    BY <1>2, <1>3, <2>1, Zenon DEF Asking
  <2>3. Waits(m.w)
    BY <1>2, <2>1, Zenon DEF Waits
  <2> QED BY <1>2, <2>2, <2>3, Zenon
<1>5. Naming(i)'
  BY <1>2, <1>3, Zenon DEF Naming
<1>6. Ending(i)'
  BY <1>2, <1>3, Zenon DEF Ending
<1> QED BY <1>4, <1>5, <1>6, Zenon

LEMMA QueuedKept ==
    ASSUME NEW p \in Seq(Entry), Queued(p),
           \A w \in Workers : wst[w] = "tracker" /\ ~InHand(w) /\ ~Waits(w) =>
               wst'[w] = "tracker" /\ ~InHand(w)' /\ ~Waits(w)'
    PROVE  Queued(p)'
<1>1. \A i \in DOMAIN p : p[i].w \in Workers
  <2>1. \A i \in DOMAIN p : p[i] \in Entry
    BY ElementIs, LenIs, Zenon
  <2> QED BY <2>1, Zenon DEF Entry
<1>2. \A i, j \in DOMAIN p : p[i].w = p[j].w => i = j
  BY Zenon DEF Queued
<1>3. \A i \in DOMAIN p : wst[p[i].w] = "tracker" /\ ~InHand(p[i].w) /\ ~Waits(p[i].w)
  BY Zenon DEF Queued
<1>4. \A i \in DOMAIN p : wst'[p[i].w] = "tracker" /\ ~InHand(p[i].w)' /\ ~Waits(p[i].w)'
  BY <1>1, <1>3, Zenon
<1> QED BY <1>2, <1>4, Zenon DEF Queued

LEMMA QueuesKept ==
    ASSUME Basics, Queued(batch), UNCHANGED <<started, todo_nodes, pending, batch>>,
           \A w \in Workers : wst[w] = "tracker" /\ ~InHand(w) /\ ~Waits(w) =>
               wst'[w] = "tracker" /\ ~InHand(w)' /\ ~Waits(w)'
    PROVE  Queued(batch)' /\ (Gathering => Gathering')
<1>1. PICK b \in Seq(Entry), p \in Seq(Entry) : b = batch /\ p = pending
  BY Zenon DEF Basics, Types
<1>2. Queued(b)'
  BY <1>1, QueuedKept, Zenon
<1>3. Queued(p) => Queued(p)'
  BY QueuedKept, Zenon
<1>4. Queued(batch)'
  BY <1>1, <1>2, Zenon
<1> QED BY <1>1, <1>3, <1>4, Zenon DEF Gathering

(* A worker without crashes behind it sends a message. *)
Sends(w, m) ==
    /\ m.w = w /\ m.inc = 0 /\ backlog' = Append(backlog, m)
    /\ UNCHANGED <<tpc, accepting, wait_conn, assigning, inc, rk, toaccept>>
    /\ \/ m.cmd = "print" /\ wst' = wst
       \/ /\ m.cmd = "start" /\ m.rank = -1 /\ wst[w] = "down"
          /\ wst' = [wst EXCEPT ![w] = "tracker"]
       \/ /\ m.cmd = "recover" /\ m.rank = rk[w] /\ wst[w] = "job" /\ toaccept[w] = 0
          /\ wst' = [wst EXCEPT ![w] = "tracker"]
       \/ /\ m.cmd = "shutdown" /\ m.rank = rk[w] /\ wst[w] = "job" /\ toaccept[w] = 0
          /\ wst' = [wst EXCEPT ![w] = "done"]

LEMMA SendCalm ==
    ASSUME Setting, Basics, Basics', RanksApart, Calm, NEW w \in Workers, NEW m \in Entry,
           Sends(w, m)
    PROVE  Calm'
<1> USE DEF Calm
<1>0. /\ m.w = w /\ m.inc = 0 /\ backlog' = Append(backlog, m)
      /\ m.cmd = "start" => m.rank = -1 /\ wst[w] = "down"
      /\ m.cmd \in {"recover", "shutdown"} => m.rank = rk[w] /\ wst[w] = "job"
  BY Zenon DEF Sends
<1>1. /\ UNCHANGED <<tpc, started, shutdown, job_map, pending, todo_nodes, wait_conn, batch, cur,
                     rank, badset, conset, nerr, inc, rk, toaccept>>
      /\ Types /\ Phases /\ m.cmd \in {"print", "start", "recover", "shutdown"}
  BY Zenon DEF Sends, accepting, assigning, Basics
<1>2. /\ Asks(m) => wst'[w] = "tracker"
      /\ m.cmd = "shutdown" => wst'[w] = "done"
      /\ m.cmd = "print" => wst'[w] = wst[w]
      /\ m.cmd /= "print" => wst[w] \in {"down", "job"}
      /\ wst[w] = "job" /\ m.cmd /= "print" => toaccept[w] = 0
      /\ wst'[w] /= "down" \/ m.cmd = "print"
      /\ \A v \in Workers : v /= w => wst'[v] = wst[v]
  BY <1>1, Zenon DEF Sends, Types, Asks
<1>3. /\ \A i \in DOMAIN backlog' : \/ i \in DOMAIN backlog /\ backlog'[i] = backlog[i]
                                    \/ i = Len(backlog') /\ backlog'[i] = m
      /\ \A i \in DOMAIN backlog : i \in DOMAIN backlog' /\ i /= Len(backlog')
  <2>1. \A i \in DOMAIN backlog' : \/ i \in DOMAIN backlog /\ backlog'[i] = backlog[i]
                                   \/ i = Len(backlog') /\ backlog'[i] = m
    BY <1>0, <1>1, AppendCases DEF Types
  <2>2. /\ Len(backlog') = Len(backlog) + 1 /\ Len(backlog) \in Nat
        /\ DOMAIN backlog = 1 .. Len(backlog) /\ DOMAIN backlog' = 1 .. Len(backlog) + 1
    BY <1>0, <1>1, AppendIs DEF Types
  <2> QED BY <2>1, <2>2
<1>4. /\ \A v : InHand(v)' <=> InHand(v)
      /\ \A v : v /= w => (Waits(v)' <=> Waits(v))
      /\ ~Asks(m) => \A v : Waits(v)' <=> Waits(v)
  <2>1. \A v : InHand(v)' <=> InHand(v)
    BY <1>1, Zenon DEF InHand
  <2>2. ASSUME NEW v, v /= w \/ ~Asks(m), Waits(v)' PROVE Waits(v)
    BY <1>0, <1>3, <2>2, Zenon DEF Waits, Asks
  <2>3. ASSUME NEW v, Waits(v) PROVE Waits(v)'
    <3>1. PICK i \in DOMAIN backlog : backlog[i].w = v /\ Asks(backlog[i])
      BY <2>3, Zenon DEF Waits
    <3>2. i \in DOMAIN backlog' /\ backlog'[i] = backlog[i]
      BY <1>3, <3>1, Zenon
    <3> QED BY <3>1, <3>2, Zenon DEF Waits, Asks
  <2> QED BY <2>1, <2>2, <2>3, Zenon
\* A worker that sends anything but a log message has no rank to wait for.
<1>5. m.cmd /= "print" => ~InHand(w)
  BY <1>2, Zenon DEF InHand, Assigning
<1>6. ASSUME NEW i \in DOMAIN backlog
      PROVE  /\ Asks(backlog[i]) /\ backlog[i].w = w => m.cmd = "print"
             /\ backlog[i].cmd = "shutdown" /\ backlog[i].w = w => m.cmd = "print"
  BY <1>2, Zenon DEF Messages, Asking, Ending
<1>7. Messages'
  <2>1. SUFFICES ASSUME NEW i \in DOMAIN backlog' PROVE Asking(i)' /\ Naming(i)' /\ Ending(i)'
    BY Zenon DEF Messages
  <2>2. CASE i \in DOMAIN backlog /\ backlog'[i] = backlog[i]
    <3>1. PICK e \in Entry : e = backlog[i] /\ e.w \in Workers
      <4>1. backlog[i] \in Entry
        BY <1>1, <2>2, ElementIs, LenIs DEF Types
      <4> QED BY <4>1, Zenon DEF Entry
    <3>2. e = backlog'[i] /\ Asking(i) /\ Naming(i) /\ Ending(i)
      BY <2>2, <3>1 DEF Messages
    <3>3. Asking(i)'
      <4>1. SUFFICES ASSUME Asks(e)
                     PROVE  /\ wst'[e.w] = "tracker" /\ ~InHand(e.w)'
                            /\ \A j \in DOMAIN backlog' : Asks(backlog'[j]) /\ backlog'[j].w = e.w => j = i
        BY <3>2, Zenon DEF Asking, Asks
      <4>2. /\ wst[e.w] = "tracker" /\ ~InHand(e.w)
            /\ \A j \in DOMAIN backlog : Asks(backlog[j]) /\ backlog[j].w = e.w => j = i
        BY <3>1, <3>2, <4>1 DEF Asking
      <4>3. e.w = w => m.cmd = "print"
        BY <1>6, <2>2, <3>1, <4>1
      <4>4. wst'[e.w] = "tracker"
        BY <1>2, <3>1, <4>2, <4>3
      <4>5. ASSUME NEW j \in DOMAIN backlog', Asks(backlog'[j]), backlog'[j].w = e.w PROVE j = i
        <5>1. backlog'[j] /= m
          BY <1>0, <4>3, <4>5 DEF Asks
        <5> QED BY <1>3, <4>2, <4>5, <5>1
      <4> QED BY <1>4, <4>2, <4>4, <4>5
    <3>4. Naming(i)'
      BY <1>1, <3>1, <3>2 DEF Naming
    <3>5. Ending(i)'
      <4>1. SUFFICES ASSUME e.cmd = "shutdown"
                     PROVE  /\ wst'[e.w] = "done" /\ e.rank = rk'[e.w] /\ e.rank \notin shutdown'
                            /\ \A j \in DOMAIN backlog' :
                                  backlog'[j].cmd = "shutdown" /\ backlog'[j].w = e.w => j = i
        BY <3>2, Zenon DEF Ending
      <4>2. /\ wst[e.w] = "done" /\ e.rank = rk[e.w] /\ e.rank \notin shutdown
            /\ \A j \in DOMAIN backlog : backlog[j].cmd = "shutdown" /\ backlog[j].w = e.w => j = i
        BY <3>1, <3>2, <4>1 DEF Ending
      <4>3. e.w = w => m.cmd = "print"
        BY <1>6, <2>2, <3>1, <4>1
      <4>4. wst'[e.w] = "done"
        BY <1>2, <3>1, <4>2, <4>3
      <4>5. ASSUME NEW j \in DOMAIN backlog', backlog'[j].cmd = "shutdown", backlog'[j].w = e.w
            PROVE  j = i
        <5>1. backlog'[j] /= m
          BY <1>0, <4>3, <4>5
        <5> QED BY <1>3, <4>2, <4>5, <5>1
      <4> QED BY <1>1, <4>2, <4>4, <4>5
    <3> QED BY <3>3, <3>4, <3>5, Zenon
  <2>3. CASE i = Len(backlog') /\ backlog'[i] = m
    <3>1. Asking(i)'
      <4>1. SUFFICES ASSUME Asks(m)
                     PROVE  /\ wst'[w] = "tracker" /\ ~InHand(w)'
                            /\ \A j \in DOMAIN backlog' : Asks(backlog'[j]) /\ backlog'[j].w = w => j = i
        BY <1>0, <2>3, Zenon DEF Asking, Asks
      <4>2. m.cmd /= "print"
        BY <4>1, Zenon DEF Asks
      <4>3. ASSUME NEW j \in DOMAIN backlog', Asks(backlog'[j]), backlog'[j].w = w PROVE j = i
        BY <1>3, <1>6, <2>3, <4>2, <4>3
      <4> QED BY <1>2, <1>4, <1>5, <4>1, <4>2, <4>3
    <3>2. Naming(i)'
      <4>1. m.cmd = "start" => m.rank = -1 /\ w \notin DOMAIN job_map
        BY <1>0, Zenon DEF Standing
      <4>2. m.cmd = "recover" => m.rank \in Ranks
        BY <1>0, Zenon DEF Standing
      <4> QED BY <1>0, <1>1, <2>3, <4>1, <4>2 DEF Naming
    <3>3. Ending(i)'
      <4>1. SUFFICES ASSUME m.cmd = "shutdown"
                     PROVE  /\ wst'[w] = "done" /\ m.rank = rk'[w] /\ m.rank \notin shutdown'
                            /\ \A j \in DOMAIN backlog' :
                                  backlog'[j].cmd = "shutdown" /\ backlog'[j].w = w => j = i
        BY <1>0, <2>3, Zenon DEF Ending
      <4>2. m.rank = rk[w] /\ wst[w] = "job" /\ rk[w] \in Ranks
        BY <1>0, <4>1, Zenon DEF Standing
      <4>3. rk[w] \notin shutdown
        <5>1. SUFFICES ASSUME rk[w] \in shutdown PROVE FALSE
          BY Zenon
        <5>2. PICK v \in Workers : rk[v] = rk[w] /\ wst[v] = "done"
          BY <5>1, Zenon DEF Standing
        <5> QED BY <4>2, <5>2, OwnRank
      <4>4. ASSUME NEW j \in DOMAIN backlog', backlog'[j].cmd = "shutdown", backlog'[j].w = w
            PROVE  j = i
        BY <1>3, <1>6, <2>3, <4>1, <4>4
      <4> QED BY <1>1, <1>2, <4>1, <4>2, <4>3, <4>4
    <3> QED BY <3>1, <3>2, <3>3
  <2> QED BY <1>3, <2>2, <2>3
<1>8. Queued(batch)' /\ (Gathering => Gathering')
  <2>1. \A v \in Workers : wst[v] = "tracker" /\ ~InHand(v) /\ ~Waits(v) =>
               wst'[v] = "tracker" /\ ~InHand(v)' /\ ~Waits(v)'
    <3>1. SUFFICES ASSUME NEW v \in Workers, wst[v] = "tracker", ~InHand(v), ~Waits(v)
                   PROVE  wst'[v] = "tracker" /\ ~InHand(v)' /\ ~Waits(v)'
      BY Zenon
    <3>2. v /= w \/ m.cmd = "print"
      BY <1>2, <3>1, Zenon
    <3>3. wst'[v] = "tracker"
      BY <1>2, <3>1, <3>2
    <3>4. ~Waits(v)'
      BY <1>4, <3>1, <3>2 DEF Asks
    <3> QED BY <1>4, <3>1, <3>3, <3>4
  <2> QED BY <1>1, <2>1, QueuesKept
<1>9. Gathered => Gathered'
  <2>1. SUFFICES ASSUME Gathered PROVE Gathered'
    BY Zenon
  <2>2. m.cmd /= "start" /\ wst'[w] /= "down"
    BY <1>0, <1>2, <2>1 DEF Gathered
  <2>3. \A v \in Workers : wst'[v] /= "down"
    BY <1>2, <2>1, <2>2 DEF Gathered
  <2>4. \A i \in DOMAIN backlog' : backlog'[i].cmd /= "start"
    BY <1>3, <2>1, <2>2 DEF Gathered
  <2> QED BY <2>3, <2>4, Zenon DEF Gathered
<1>10. FirstLife'
  <2>1. \A i \in DOMAIN backlog' : backlog'[i].inc = 0
    BY <1>0, <1>3 DEF FirstLife
  <2> QED BY <1>1, <2>1, Zenon DEF FirstLife
<1>11. Standing'
  <2>1. \A v \in Workers : wst'[v] \in {"job", "done"} => wst[v] \in {"job", "done"}
    BY <1>0, <1>1, <1>2 DEF Asks
  <2>2. \A v \in Workers : wst[v] = "done" => wst'[v] = "done"
    BY <1>2, Zenon
  <2>3. \A v \in Workers : wst[v] /= "down" => wst'[v] /= "down"
    BY <1>2, Zenon
  <2> QED BY <1>1, <2>1, <2>2, <2>3 DEF Standing, Types
<1>12. \A v \in Workers : wst[v] = "job" => wst'[v] = "job" \/ toaccept[v] = 0
  BY <1>2, Zenon
<1>13. Waiting'
  <2>1. \A r \in DOMAIN wait_conn : wait_conn[r].w \in Workers
    <3>1. \A r \in DOMAIN wait_conn : wait_conn[r] \in Slot
      BY <1>1, Zenon DEF Types
    <3> QED BY <3>1, Zenon DEF Slot
  <2>2. \A r \in DOMAIN wait_conn :
            toaccept[wait_conn[r].w] > 0 => wst'[wait_conn[r].w] = "job"
    BY <1>12, <2>1 DEF Waiting
  <2> QED BY <1>1, <2>2, Zenon DEF Waiting, Unread
<1>14. Assigning'
  <2>1. SUFFICES ASSUME cur /= None, tpc \in {"good", "connect", "nerr"} PROVE Assigning'
    BY <1>1, Zenon DEF Assigning
  <2>2. PICK c \in Workers : c = cur.w
    BY <1>1, <2>1, Zenon DEF Types, Entry
  <2>3. tpc /= "nerr" => wst'[c] = "tracker"
    <3>1. SUFFICES ASSUME tpc /= "nerr" PROVE wst'[c] = "tracker"
      BY Zenon
    <3>2. InHand(c) /\ wst[c] = "tracker"
      BY <2>1, <2>2, <3>1, Zenon DEF InHand, Assigning
    <3> QED BY <1>2, <1>5, <3>2, Zenon
  <2>4. tpc = "nerr" /\ toaccept[c] > 0 => wst'[c] = "job"
    BY <1>12, <2>1, <2>2 DEF Assigning
  <2> QED BY <1>1, <2>1, <2>2, <2>3, <2>4 DEF Assigning
<1> QED BY <1>1, <1>7, <1>8, <1>9, <1>10, <1>11, <1>13, <1>14

(* accept_slaves takes the next connection. *)
LEMMA AcceptCalm ==
    ASSUME Setting, Enough, Basics, Basics', RanksApart, RanksApart', Calm, Accept
    PROVE  Calm'
<1> USE DEF Calm
<1>1. PICK s \in Entry :
              /\ backlog /= <<>> /\ s = Head(backlog) /\ backlog' = Tail(backlog) /\ tpc = "accept"
              /\ UNCHANGED <<wait_conn, inc, wst, toaccept, links, bounds, uncounted>>
              /\ \/ (Closed(s) \/ Misplaced(s)) /\ AcceptClosed(s)
                 \/ ~Closed(s) /\ s.cmd = "print" /\ UNCHANGED <<tpc, accepting, assigning, rk>>
                 \/ ~Closed(s) /\ s.cmd = "shutdown" /\ AcceptShutdown(s)
                 \/ ~Closed(s) /\ s.cmd \in {"start", "recover"} /\ GiveRank(s)
  BY AcceptCases, Zenon DEF Basics
<1>2. /\ s = backlog[1] /\ 1 \in DOMAIN backlog
      /\ \A i \in DOMAIN backlog' : /\ i + 1 \in DOMAIN backlog /\ backlog'[i] = backlog[i + 1]
                                    /\ i \in Nat \ {0}
  BY <1>1, TailIs DEF Basics, Types
<1>3. Types /\ Phases /\ s.w \in Workers /\ s.inc = 0 /\ ~Closed(s) /\ batch = <<>> /\ DOMAIN batch = {}
  BY <1>1, <1>2 DEF Basics, Phases, FirstLife, Closed, Entry
<1>u. /\ backlog' = Tail(backlog) /\ tpc = "accept"
      /\ UNCHANGED <<wait_conn, inc, wst, toaccept>>
  BY <1>1, Zenon
<1>4. /\ \A w : Waits(w)' => Waits(w)
      /\ Asks(s) => Waits(s.w) /\ ~Waits(s.w)' /\ wst[s.w] = "tracker"
  <2>1. \A w : Waits(w)' => Waits(w)
    BY <1>2, Zenon DEF Waits, Asks
  <2>2. Asks(s) => Waits(s.w) /\ wst[s.w] = "tracker" /\ ~Waits(s.w)'
    <3>1. SUFFICES ASSUME Asks(s) PROVE Waits(s.w) /\ wst[s.w] = "tracker" /\ ~Waits(s.w)'
      BY Zenon
    <3>2. /\ wst[s.w] = "tracker"
          /\ \A j \in DOMAIN backlog : Asks(backlog[j]) /\ backlog[j].w = s.w => j = 1
      BY <1>2, <3>1, Zenon DEF Messages, Asking
    <3>3. \A j \in DOMAIN backlog' : ~(Asks(backlog'[j]) /\ backlog'[j].w = s.w)
      BY <1>2, <3>2
    <3> QED BY <1>2, <3>1, <3>2, <3>3, Zenon DEF Waits, Asks
  <2> QED BY <2>1, <2>2, Zenon
<1>5. /\ \A i \in DOMAIN backlog' : backlog'[i].inc = 0
      /\ \A w \in Workers : inc'[w] = 0
      /\ \A r \in DOMAIN wait_conn' : wait_conn'[r].inc = 0
  BY <1>u, <1>2 DEF FirstLife
\* The messages that are left, when nothing that they are about has changed.
<1>6. ASSUME \A w \in Workers : InHand(w)' => w = s.w /\ Asks(s),
             job_map' = job_map, shutdown' = shutdown \/ (s.cmd = "shutdown" /\ shutdown' = shutdown \cup {s.rank}),
             \A w \in Workers : rk'[w] = rk[w] \/ (w = s.w /\ Asks(s))
      PROVE  Messages'
  <2>1. SUFFICES ASSUME NEW i \in DOMAIN backlog' PROVE Asking(i)' /\ Naming(i)' /\ Ending(i)'
    BY Zenon DEF Messages
  <2>2. PICK m \in Entry : m = backlog[i + 1] /\ m = backlog'[i] /\ i + 1 \in DOMAIN backlog
    <3>1. backlog'[i] \in Entry
      BY ElementIs, LenIs DEF Basics, Types
    <3> QED BY <1>2, <3>1, Zenon
  <2>3. m.w \in Workers /\ i + 1 /= 1 /\ Asking(i + 1) /\ Naming(i + 1) /\ Ending(i + 1)
        /\ Asking(1) /\ Naming(1) /\ Ending(1)
    BY <1>2, <2>2 DEF Entry, Messages
  <2>4. Asking(i)'
    <3>1. SUFFICES ASSUME Asks(m)
                   PROVE  /\ wst'[m.w] = "tracker" /\ ~InHand(m.w)'
                          /\ \A j \in DOMAIN backlog' : Asks(backlog'[j]) /\ backlog'[j].w = m.w => j = i
      BY <2>2, Zenon DEF Asking, Asks
    <3>2. /\ wst[m.w] = "tracker"
          /\ \A j \in DOMAIN backlog : Asks(backlog[j]) /\ backlog[j].w = m.w => j = i + 1
      BY <2>2, <2>3, <3>1, Zenon DEF Asking
    <3>3. Asks(s) => m.w /= s.w
      BY <1>2, <2>3, <3>2, Zenon
    <3>4. \A j \in DOMAIN backlog' : Asks(backlog'[j]) /\ backlog'[j].w = m.w => j = i
      BY <1>2, <3>2
    <3> QED BY <1>u, <1>6, <2>3, <3>2, <3>3, <3>4, Zenon
  <2>5. Naming(i)'
    BY <1>6, <2>2, <2>3, Zenon DEF Naming
  <2>6. Ending(i)'
    <3>1. SUFFICES ASSUME m.cmd = "shutdown"
                   PROVE  /\ wst'[m.w] = "done" /\ m.rank = rk'[m.w] /\ m.rank \notin shutdown'
                          /\ \A j \in DOMAIN backlog' :
                                backlog'[j].cmd = "shutdown" /\ backlog'[j].w = m.w => j = i
      BY <2>2, Zenon DEF Ending
    <3>2. /\ wst[m.w] = "done" /\ m.rank = rk[m.w] /\ m.rank \notin shutdown
          /\ \A j \in DOMAIN backlog : backlog[j].cmd = "shutdown" /\ backlog[j].w = m.w => j = i + 1
      BY <2>2, <2>3, <3>1, Zenon DEF Ending
    <3>3. m.w /= s.w \/ ~Asks(s)
      BY <1>4, <3>2, Zenon
    <3>4. m.rank = rk'[m.w]
      BY <1>6, <2>3, <3>2, <3>3, Zenon
    <3>5. s.cmd = "shutdown" => m.rank /= s.rank
      <4>1. SUFFICES ASSUME s.cmd = "shutdown", m.rank = s.rank PROVE FALSE
        BY Zenon
      <4>2. rk[s.w] = rk[m.w]
        BY <1>2, <2>3, <3>2, <4>1, Zenon DEF Ending
      <4>3. rk[m.w] \in Ranks
        BY <2>3, <3>2, Zenon DEF Standing
      <4>4. m.w = s.w
        BY <1>3, <2>3, <4>2, <4>3, OwnRank, Zenon
      <4> QED BY <1>2, <2>3, <3>2, <4>1, <4>4, Zenon
    <3>6. \A j \in DOMAIN backlog' : backlog'[j].cmd = "shutdown" /\ backlog'[j].w = m.w => j = i
      BY <1>2, <3>2
    <3>7. m.rank \notin shutdown'
      BY <1>6, <3>2, <3>5, Zenon
    <3> QED BY <1>u, <3>2, <3>4, <3>6, <3>7, Zenon
  <2> QED BY <2>4, <2>5, <2>6, Zenon
\* Those who wait still do.
<1>p. PICK p \in Seq(Entry) : p = pending
  BY <1>3, Zenon DEF Types
<1>7. ASSUME Gathering, \A w \in Workers : InHand(w)' => w = s.w /\ Asks(s)
      PROVE  Queued(p)' /\ (Asks(s) => \A i \in DOMAIN p : p[i].w /= s.w)
  <2>1. \A i \in DOMAIN p : p[i].w \in Workers
    <3>1. \A i \in DOMAIN p : p[i] \in Entry
      BY ElementIs, LenIs, Zenon
    <3> QED BY <3>1, Zenon DEF Entry
  <2>2. /\ \A i \in DOMAIN p : wst[p[i].w] = "tracker" /\ ~Waits(p[i].w)
        /\ \A i, j \in DOMAIN p : p[i].w = p[j].w => i = j
    BY <1>p, <1>7, Zenon DEF Gathering, Queued
  <2>3. \A i \in DOMAIN p :
            /\ wst'[p[i].w] = "tracker" /\ ~Waits(p[i].w)'
            /\ Asks(s) => p[i].w /= s.w
    BY <1>u, <1>4, <2>2, Zenon
  <2>4. \A i \in DOMAIN p : ~InHand(p[i].w)'
    BY <1>7, <2>1, <2>3, Zenon
  <2> QED BY <2>2, <2>3, <2>4, Zenon DEF Queued
<1>8. Gathered => Gathered'
  BY <1>u, <1>2, Zenon DEF Gathered
<1>9. CASE s.cmd = "print" /\ UNCHANGED <<tpc, accepting, assigning, rk>>
  <2>1. /\ UNCHANGED <<tpc, started, shutdown, job_map, pending, todo_nodes, batch, cur, rank,
                       badset, conset, nerr, rk>>
        /\ \A w : ~InHand(w)'
    BY <1>u, <1>9, Zenon DEF accepting, assigning, InHand
  <2>2. Messages'
    BY <1>6, <2>1, Zenon
  <2>3. FirstLife'
    BY <1>3, <1>5, <2>1, Zenon DEF FirstLife
  <2>4. Assigning' /\ Waiting' /\ Standing'
    BY <1>u, <2>1, AssigningKept, StandingKept, Zenon
  <2>5. Queued(batch)'
    BY <1>3, <2>1, Zenon DEF Queued
  <2>6. Gathering => Gathering'
    BY <1>p, <1>7, <2>1, Zenon DEF Gathering
  <2> QED BY <1>u, <1>8, <2>1, <2>2, <2>3, <2>4, <2>5, <2>6, Zenon
<1>10. CASE s.cmd = "shutdown" /\ AcceptShutdown(s)
  <2>1. /\ UNCHANGED <<started, job_map, pending, todo_nodes, batch, cur, rank, badset, conset,
                       nerr, rk>>
        /\ wst[s.w] = "done" /\ s.rank = rk[s.w] /\ s.rank \notin shutdown /\ s.rank \in Ranks
    BY <1>2, <1>3, <1>10, Zenon DEF AcceptShutdown, assigning, Messages, Ending, Standing
  <2>2. s.rank \notin DOMAIN wait_conn
    <3>1. SUFFICES ASSUME s.rank \in DOMAIN wait_conn PROVE FALSE
      BY Zenon
    <3>2. wait_conn[s.rank] \in Slot
      BY <1>3, <3>1, Zenon DEF Types
    <3>3. PICK v \in Workers : v = wait_conn[s.rank].w
      BY <3>2, Zenon DEF Slot
    <3>4. rk[v] = s.rank /\ toaccept[v] > 0
      BY <1>u, <3>1, <3>2, <3>3, WaitingWorker, Zenon
    <3>5. v = s.w
      BY <1>3, <2>1, <3>4, OwnRank, Zenon
    <3> QED BY <2>1, <3>1, <3>3, <3>4, <3>5, Zenon DEF Waiting
  <2>0. ~(s.rank < 0)
    BY <2>1, RankIsNat, Zenon
  <2>3. tpc' = "accept" /\ shutdown' = shutdown \cup {s.rank} /\ \A w : ~InHand(w)'
    BY <1>u, <1>10, <2>0, <2>1, <2>2, Zenon DEF AcceptShutdown, InHand
  <2>4. Messages'
    BY <1>6, <1>10, <2>1, <2>3, Zenon
  <2>5. FirstLife'
    BY <1>3, <1>5, <2>1, Zenon DEF FirstLife
  <2>6. Assigning' /\ Waiting'
    BY <1>u, <2>1, <2>3, Zenon DEF Assigning, Waiting, Unread
  <2>7. Standing'
    <3>1. \A k \in shutdown' : \E w \in Workers : rk[w] = k /\ wst[w] = "done"
      <4>1. s.w \in Workers
        BY <1>3, Zenon DEF Entry
      <4> QED BY <2>1, <2>3, <4>1, Zenon DEF Standing
    <3> QED BY <1>u, <2>1, <3>1, Zenon DEF Standing
  <2>8. Queued(batch)'
    BY <1>3, <2>1, Zenon DEF Queued
  <2>9. Gathering => Gathering'
    BY <1>p, <1>7, <2>1, <2>3, Zenon DEF Gathering
  <2> QED BY <1>8, <2>3, <2>4, <2>5, <2>6, <2>7, <2>8, <2>9, Zenon
<1>11. CASE s.cmd \in {"start", "recover"} /\ GiveRank(s)
  <2>1. /\ Asks(s) /\ started' = TRUE /\ shutdown' = shutdown
        /\ decide_rank(s) \in Ranks \cup {-1} /\ -1 \notin Ranks
    BY <1>3, <1>11, StartCases, DecideType, Zenon DEF Asks
  <2>2. Gathering => Len(Todo) = nslave
    BY FirstRanksType, Zenon DEF Gathering, Todo
  <2>3. CASE /\ decide_rank(s) /= -1 /\ BeginAssign(s, decide_rank(s)) /\ todo_nodes' = Todo
             /\ UNCHANGED <<job_map, pending, batch, badset, conset, nerr>>
    <3>1. PICK r \in Ranks : r = decide_rank(s)
      BY <2>1, <2>3, Zenon
    <3>2. /\ tpc' = "good" /\ cur' = s /\ cur' /= None
          /\ \A w \in Workers : w /= s.w => rk'[w] = rk[w]
          /\ \A w : InHand(w)' <=> w = s.w
          /\ Assigning' /\ Waiting'
          /\ \A w \in Workers : wst'[w] \in {"job", "done"} => rk'[w] \in Ranks
          /\ \A k \in shutdown' : \E w \in Workers : rk'[w] = k /\ wst'[w] = "done"
      BY <1>u, <1>3, <1>4, <2>1, <2>3, <3>1, HandTaken, Zenon
    <3>3. Messages'
      BY <1>6, <2>1, <2>3, <3>2, Zenon
    <3>4. FirstLife'
      BY <1>3, <1>5, <2>3, <3>2, Zenon DEF FirstLife
    <3>5. Standing'
      BY <1>u, <2>3, <3>2, Zenon DEF Standing
    <3>6. Queued(batch)'
      BY <1>3, <2>3, Zenon DEF Queued
    <3>7. Gathering => Gathering'
      BY <1>p, <1>7, <2>1, <2>2, <2>3, <3>2, Zenon DEF Gathering
    <3> QED BY <1>8, <3>2, <3>3, <3>4, <3>5, <3>6, <3>7, ZenonT(40)
  <2>4. ASSUME decide_rank(s) = -1
        PROVE  s.cmd = "start" /\ Gathering
    <3>1. s.rank \notin Ranks
      BY <1>3, <2>1, <2>4 DEF decide_rank, Ranks
    <3>2. s.cmd = "start"
      BY <1>2, <1>11, <3>1, Zenon DEF Messages, Naming
    <3> QED BY <1>2, <3>2, Zenon DEF Gathered
  <2>5. CASE decide_rank(s) = -1 /\ Todo = <<>>
    BY <2>2, <2>4, <2>5, EmptyIs, Zenon DEF Setting, Proper
  <2>6. PICK q : /\ q = Append(p, s)
                 /\ q \in Seq(Entry) /\ Len(q) = Len(p) + 1 /\ Len(p) \in Nat
                 /\ \A i \in DOMAIN q : \/ i \in DOMAIN p /\ q[i] = p[i]
                                        \/ i = Len(q) /\ q[i] = s
    <3>1. p \in Seq(Entry) /\ s \in Entry
      BY Zenon
    <3> HIDE DEF Calm
    <3>2. /\ Append(p, s) \in Seq(Entry) /\ Len(Append(p, s)) = Len(p) + 1 /\ Len(p) \in Nat
          /\ \A i \in DOMAIN Append(p, s) :
                \/ i \in DOMAIN p /\ Append(p, s)[i] = p[i]
                \/ i = Len(Append(p, s)) /\ Append(p, s)[i] = s
      BY <3>1, AppendCases, Zenon
    <3> QED BY <3>2, Zenon
  <2>7. ASSUME Gathering, \A w \in Workers : ~InHand(w)'
        PROVE  Queued(q)' /\ \A i \in DOMAIN q : q[i].inc = 0
    <3>1. Queued(p)' /\ \A i \in DOMAIN p : p[i].w /= s.w
      BY <1>7, <2>1, <2>7, Zenon
    <3>2. \A i, j \in DOMAIN q : q[i].w = q[j].w => i = j
      BY <2>6, <3>1 DEF Queued
    <3>3. wst'[s.w] = "tracker" /\ ~InHand(s.w)' /\ ~Waits(s.w)'
      BY <1>u, <1>3, <1>4, <2>1, <2>7, Zenon
    <3>4. \A i \in DOMAIN p : wst'[p[i].w] = "tracker" /\ ~InHand(p[i].w)' /\ ~Waits(p[i].w)'
      BY <3>1, Zenon DEF Queued
    <3>5. \A i \in DOMAIN q : wst'[q[i].w] = "tracker" /\ ~InHand(q[i].w)' /\ ~Waits(q[i].w)'
      BY <2>6, <3>3, <3>4, Zenon
    <3>6. \A i \in DOMAIN q : q[i].inc = 0
      BY <1>3, <1>p, <2>6 DEF FirstLife
    <3> QED BY <3>2, <3>5, <3>6, Zenon DEF Queued
  <2>8. CASE /\ decide_rank(s) = -1 /\ Len(q) /= Len(Todo)
             /\ pending' = q /\ todo_nodes' = Todo /\ tpc' = tpc
             /\ UNCHANGED <<job_map, assigning, rk>>
    <3>1. /\ UNCHANGED <<job_map, batch, cur, rank, badset, conset, nerr, rk>>
          /\ tpc' = "accept" /\ \A w : ~InHand(w)'
      BY <1>u, <2>8, Zenon DEF assigning, InHand
    <3>2. Queued(q)' /\ (\A i \in DOMAIN q : q[i].inc = 0) /\ Len(Todo) = nslave
          /\ Len(p) < nslave
      BY <1>p, <2>2, <2>4, <2>7, <2>8, <3>1, Zenon DEF Gathering
    <3>3. Gathering'
      <4>1. Len(q) < nslave
        <5>1. nslave \in Nat
          BY Zenon DEF Setting, Proper
        <5> QED BY <2>6, <2>8, <3>2, <5>1, OneMore, Zenon
      <4> QED BY <1>3, <2>8, <3>1, <3>2, <4>1, Zenon DEF Gathering
    <3>4. Messages'
      BY <1>6, <2>1, <3>1, Zenon
    <3>5. FirstLife'
      BY <1>3, <1>5, <2>8, <3>1, <3>2, Zenon DEF FirstLife
    <3>6. Assigning' /\ Waiting' /\ Standing'
      BY <1>u, <2>1, <3>1, AssigningKept, StandingKept, Zenon
    <3>7. Queued(batch)'
      BY <1>3, <3>1, Zenon DEF Queued
    <3> QED BY <3>1, <3>3, <3>4, <3>5, <3>6, <3>7, Zenon
  <2>9. CASE /\ decide_rank(s) = -1 /\ Len(q) = Len(Todo)
             /\ pending' = ByHost(q) /\ tpc' = "good"
             /\ batch' = ByHost(q) /\ todo_nodes' = Todo /\ cur' = None
             /\ UNCHANGED <<job_map, rank, badset, conset, nerr, rk>>
    <3>1. \A w : ~InHand(w)'
      BY <2>9, Zenon DEF InHand
    <3>2. Queued(q)' /\ (\A i \in DOMAIN q : q[i].inc = 0) /\ Len(q) = nslave
      BY <2>2, <2>4, <2>7, <2>9, <3>1, Zenon
    <3>3. PICK b \in Seq(Entry) : b = ByHost(q)
      BY <2>6, SortKeeps, Zenon
    <3>4. Queued(b)'
      BY <2>6, <3>2, <3>3, SortQueued, Zenon
    <3>5. \A i \in DOMAIN b : b[i].inc = 0
      <4>1. PICK f \in [DOMAIN q -> DOMAIN q] :
                     /\ \A k, l \in DOMAIN q : f[k] = f[l] => k = l
                     /\ ByHost(q) = [k \in DOMAIN q |-> q[f[k]]]
        BY <2>6, Zenon DEF Setting, SortPermutes
      <4> QED BY <3>2, <3>3, <4>1
    <3>6. Gathered'
      <4>1. \A w \in Workers : \E i \in DOMAIN q : q[i].w = w
        BY <2>6, <3>2, Zenon DEF Queued, Setting, AllQueued
      <4>2. \A w \in Workers : wst'[w] = "tracker" /\ ~Waits(w)'
        BY <3>2, <4>1 DEF Queued
      <4>3. ASSUME NEW i \in DOMAIN backlog' PROVE backlog'[i].cmd /= "start"
        <5>1. backlog'[i].w \in Workers
          <6>2. backlog' \in Seq(Entry)
            BY Zenon DEF Basics, Types
          <6>1. backlog'[i] \in Entry
            BY <6>2, ElementIs, LenIs, Zenon
          <6> QED BY <6>1, Zenon DEF Entry
        <5> QED BY <4>2, <5>1, Zenon DEF Waits, Asks
      <4> QED BY <4>2, <4>3, Zenon DEF Gathered
    <3>7. Messages'
      BY <1>6, <2>1, <2>9, <3>1, Zenon
    <3>8. FirstLife'
      BY <1>5, <2>9, <3>3, <3>5, Zenon DEF FirstLife
    <3>9. Assigning'
      BY <2>9, Zenon DEF Assigning
    <3>10. Waiting'
      BY <1>u, <2>9, Zenon DEF Waiting, Unread
    <3>11. Standing'
      BY <1>u, <2>1, <2>9, Zenon DEF Standing
    <3> QED BY SMTT(40), <2>9, <3>3, <3>4, <3>6, <3>7, <3>8, <3>9, <3>10, <3>11
  <2> QED BY <1>p, <1>11, <2>3, <2>5, <2>6, <2>8, <2>9, StartCases, ZenonT(40)
\* A worker that recovers has a rank, and it was this tracker that gave it.
<1>12. ~Misplaced(s)
  <2>1. SUFFICES ASSUME s.cmd = "recover" PROVE started /\ ~(s.rank < 0)
    BY Zenon DEF Misplaced
  <2>2. s.rank \in Ranks
    BY <1>2, <2>1, Zenon DEF Messages, Naming
  <2>3. Owns(s.w, s.rank)
    BY <1>2, Zenon DEF Owns
  <2> QED BY <1>3, <2>2, <2>3, RankIsNat, Zenon DEF RanksApart
<1> QED BY <1>1, <1>3, <1>9, <1>10, <1>11, <1>12, Zenon

(* The loop over pending takes the next worker. *)
LEMMA BatchCalm ==
    ASSUME Setting, Basics, Basics', RanksApart, RanksApart', Calm, BatchNext
    PROVE  Calm'
<1> USE DEF Calm
<1>1. tpc = "good" /\ cur = None /\ batch /= <<>> /\ todo_nodes /= <<>> /\ Types
  <2>1. batch /= <<>> /\ Types /\ Phases /\ tpc = "good" /\ cur = None
    BY Zenon DEF Basics, Phases, BatchNext
  <2>2. Len(batch) \in Nat \ {0}
    BY <2>1, TailIs, Zenon DEF Types
  <2>3. Len(todo_nodes) /= 0
    BY <2>1, <2>2, LenIs DEF Types, Phases
  <2> QED BY <2>1, <2>3, EmptyIs, Zenon
<1>2. /\ batch[1] \in Entry /\ todo_nodes[1] \in Ranks /\ 1 \in DOMAIN batch
      /\ \A i \in DOMAIN Tail(batch) : /\ i + 1 \in DOMAIN batch /\ Tail(batch)[i] = batch[i + 1]
                                       /\ i \in Nat \ {0}
  BY <1>1, TailIs DEF Types
<1>3. PICK s \in Entry, r \in Ranks : s = batch[1] /\ r = todo_nodes[1]
  BY <1>2, Zenon
<1>4. /\ BeginAssign(s, r) /\ batch' = Tail(batch)
      /\ job_map' = Named(s.w, r)
      /\ UNCHANGED <<backlog, shutdown, pending, wait_conn, inc, wst, toaccept>>
  BY <1>3, Zenon DEF BatchNext, BeginBatch
<1>5. /\ s.w \in Workers /\ s.inc = 0 /\ wst[s.w] = "tracker" /\ ~Waits(s.w)
      /\ \A i \in DOMAIN batch : batch[i].w = s.w => i = 1
  BY <1>2, <1>3, Zenon DEF FirstLife, Queued, Entry
<1>6. /\ tpc' = "good" /\ cur' = s /\ cur' /= None
      /\ \A w \in Workers : w /= s.w => rk'[w] = rk[w]
      /\ \A w : InHand(w)' <=> w = s.w
      /\ Assigning' /\ Waiting'
      /\ \A w \in Workers : wst'[w] \in {"job", "done"} => rk'[w] \in Ranks
      /\ \A k \in shutdown' : \E w \in Workers : rk'[w] = k /\ wst'[w] = "done"
  BY <1>1, <1>4, <1>5, HandTaken, Zenon
<1>7. Gathered
  BY <1>1, Zenon DEF Gathering
<1>8. Gathered'
  BY <1>4, <1>7, Zenon DEF Gathered
<1>9. Messages'
  <2>1. \A w \in Workers : wst[w] = "tracker" /\ ~InHand(w) /\ Waits(w) =>
            wst'[w] = "tracker" /\ ~InHand(w)'
    BY <1>4, <1>5, <1>6
  <2>2. \A w \in Workers : wst[w] = "done" => wst'[w] = "done" /\ rk'[w] = rk[w]
    BY <1>4, <1>5, <1>6, Zenon
  <2> QED BY <1>4, <1>7, <2>1, <2>2, MessagesKept, Zenon DEF Gathered
<1>10. Standing'
  <2>1. \A w \in DOMAIN job_map' : w \in DOMAIN job_map \/ w = s.w
    BY <1>4, Zenon DEF Named
  <2> QED BY <1>4, <1>5, <1>6, <2>1, Zenon DEF Standing
<1>11. PICK b \in Seq(Entry) : b = Tail(batch)
  BY <1>1, TailIs, Zenon DEF Types
<1>12. Queued(b)'
  <2>1. \A i \in DOMAIN b : /\ i + 1 \in DOMAIN batch /\ b[i] = batch[i + 1]
                            /\ i \in Nat \ {0} /\ i + 1 /= 1
    BY <1>2, <1>11
  <2>2. \A i, j \in DOMAIN b : b[i].w = b[j].w => i = j
    <3>1. \A i, j \in DOMAIN batch : batch[i].w = batch[j].w => i = j
      BY Zenon DEF Queued
    <3>2. \A i, j \in DOMAIN b : b[i].w = b[j].w => i + 1 = j + 1
      BY <2>1, <3>1
    <3> QED BY <2>1, <3>2
  <2>3. \A i \in DOMAIN b : wst[b[i].w] = "tracker" /\ ~Waits(b[i].w) /\ b[i].w /= s.w
    BY <1>5, <2>1 DEF Queued
  <2>4. \A w : Waits(w)' <=> Waits(w)
    BY <1>4, Zenon DEF Waits
  <2>5. wst' = wst /\ \A w : ~InHand(w)' <=> w /= s.w
    BY <1>4, <1>6, Zenon
  <2>6. \A i \in DOMAIN b : wst'[b[i].w] = "tracker" /\ ~InHand(b[i].w)' /\ ~Waits(b[i].w)'
    BY <2>3, <2>4, <2>5, Zenon
  <2> QED BY <2>2, <2>6, Zenon DEF Queued
<1>13. Queued(batch)'
  BY <1>4, <1>11, <1>12, Zenon
<1>14. FirstLife'
  <2>1. \A i \in DOMAIN batch' : batch'[i].inc = 0
    BY <1>2, <1>4 DEF FirstLife
  <2> QED BY <1>4, <1>5, <1>6, <2>1, Zenon DEF FirstLife
<1> QED BY <1>6, <1>8, <1>9, <1>10, <1>13, <1>14, Zenon

(* The tracker tells the worker whom to connect to. *)
LEMMA NegotiateCalm ==
    ASSUME Setting, Basics, Calm, LinksArePeers, Negotiate
    PROVE  Calm'
<1> USE DEF Calm
<1>0. RanksOf(Linked(cur.w)) \subseteq nnset[rank]
  <2>1. cur /= None /\ tpc = "good" /\ cur.w \in Workers /\ rk[cur.w] = rank
    BY Zenon DEF Negotiate, Basics, Types, Entry, Assigning
  <2>2. ASSUME NEW v \in Workers, {v, cur.w} \in links PROVE rk[v] \in nnset[rank]
    <3>1. {cur.w, v} = {v, cur.w}
      BY Zenon
    <3> QED BY <2>1, <2>2, <3>1, Zenon DEF LinksArePeers
  <2> QED BY <2>2, Zenon DEF RanksOf, Linked
<1>1. /\ tpc = "good" /\ tpc' = "connect" /\ cur /= None /\ conset' \subseteq DOMAIN wait_conn
      /\ UNCHANGED <<backlog, started, shutdown, job_map, pending, todo_nodes, wait_conn, batch,
                     cur, rank, nerr, inc, wst, rk, toaccept>>
  BY <1>0, Zenon DEF Negotiate, ConnectTo, accepting, workers
<1>2. /\ \A w : InHand(w)' <=> InHand(w)
      /\ \A w : Waits(w)' <=> Waits(w)
  BY <1>1, Zenon DEF InHand, Waits
<1>3. Messages'
  BY <1>1, <1>2, MessagesKept, Zenon
<1>4. Queued(batch)' /\ (Gathering => Gathering')
  BY <1>1, <1>2, QueuesKept, Zenon
<1>5. FirstLife' /\ Standing'
  BY <1>1, Zenon DEF FirstLife, Standing
<1>6. Assigning'
  BY <1>1, Zenon DEF Assigning
<1>7. Waiting'
  BY <1>1, Zenon DEF Waiting, Unread
<1>8. Gathered => Gathered'
  BY <1>1, Zenon DEF Gathered
<1> QED BY <1>1, <1>3, <1>4, <1>5, <1>6, <1>7, <1>8

(* What wait_conn says of the workers behind it. *)
LEMMA SlotWorker ==
    ASSUME Basics, FirstLife, Waiting, tpc /= "nerr", NEW r \in DOMAIN wait_conn
    PROVE  /\ wait_conn[r].w \in Workers /\ rk[wait_conn[r].w] = r
           /\ wait_conn[r].wait_accept \in Int /\ wait_conn[r].wait_accept > 0
           /\ toaccept[wait_conn[r].w] = wait_conn[r].wait_accept
           /\ wst[wait_conn[r].w] = "job" /\ Listens(wait_conn[r])
<1>1. wait_conn[r] \in Slot
  BY Zenon DEF Basics, Types
<1>2. wait_conn[r].w \in Workers /\ wait_conn[r].wait_accept \in Int
  BY <1>1, Zenon DEF Slot
<1>3. /\ rk[wait_conn[r].w] = r /\ wait_conn[r].wait_accept > 0
      /\ toaccept[wait_conn[r].w] = wait_conn[r].wait_accept - 0
  BY Zenon DEF Waiting, Unread
<1>4. toaccept[wait_conn[r].w] = wait_conn[r].wait_accept
  BY <1>2, <1>3
<1>5. wst[wait_conn[r].w] = "job"
  BY <1>3, <1>4, Zenon DEF Waiting
<1>6. Listens(wait_conn[r])
  BY <1>2, <1>5, Zenon DEF Listens, Closed, FirstLife
<1> QED BY <1>2, <1>3, <1>4, <1>5, <1>6

(* Without an error the worker connects to all the peers named. *)
LEMMA AllConnect ==
    ASSUME Setting, Basics, FirstLife, Waiting, Assigning, PeersConnect, errors = 0, errors' = 0
    PROVE  /\ nerr' = 0
           /\ wst' = [wst EXCEPT ![cur.w] = "job"]
           /\ toaccept' = [v \in Workers |->
                  IF v \in {wait_conn[r].w : r \in conset} THEN toaccept[v] - 1
                  ELSE IF v = cur.w THEN Cardinality(badset) - Cardinality(conset)
                  ELSE toaccept[v]]
<1>1. tpc = "connect" /\ cur /= None /\ conset \subseteq DOMAIN wait_conn
  BY Zenon DEF PeersConnect, Basics, Phases, Assigning
<1>2. {r \in conset : ~Listens(wait_conn[r])} = {}
  BY <1>1, SlotWorker, Zenon
<1>3. PICK failing \in SUBSET conset :
           LET gone == {r \in conset : ~Listens(wait_conn[r])}
               peers == {wait_conn[r].w : r \in conset \ failing}
           IN  /\ gone \subseteq failing
               /\ errors + Cardinality(failing \ gone) <= MaxErrors
               /\ errors' = errors + Cardinality(failing \ gone)
               /\ links' = links \cup {{cur.w, v} : v \in peers}
               /\ nerr' = Cardinality(failing)
               /\ uncounted' = uncounted \cup (IF failing = {} THEN {} ELSE conset \ failing)
               /\ toaccept' = [v \in Workers |->
                      IF v \in peers THEN toaccept[v] - 1
                      ELSE IF v = cur.w THEN Cardinality(badset) - Cardinality(conset)
                      ELSE toaccept[v]]
               /\ wst' = IF failing = {} THEN [wst EXCEPT ![cur.w] = "job"] ELSE wst
  BY Zenon DEF PeersConnect
<1>4. /\ Cardinality(failing) \in Nat
      /\ Cardinality(failing) = 0 => failing = {}
  <2>1. failing \in SUBSET Ranks
    BY Zenon DEF Basics, Types
  <2> QED BY <2>1, Zenon DEF Setting, RanksCount
<1>5. Cardinality(failing) = 0
  <2>1. failing \ {r \in conset : ~Listens(wait_conn[r])} = failing
    BY <1>2, Zenon
  <2>3. errors' = errors + Cardinality(failing)
    BY <1>3, <2>1, Zenon
  <2> QED BY <1>4, <2>3
<1>6. failing = {}
  BY <1>4, <1>5, Zenon
<1>7. conset \ failing = conset
  BY <1>6, Zenon
<1> QED BY <1>3, <1>5, <1>6, <1>7

LEMMA ConnectCalm ==
    ASSUME Setting, Basics, Basics', RanksApart, Calm, PeersConnect, errors = 0, errors' = 0
    PROVE  Calm'
<1> USE DEF Calm
<1>1. /\ tpc = "connect" /\ tpc' = "nerr" /\ cur /= None /\ conset \subseteq DOMAIN wait_conn
      /\ cur \in Entry /\ rank \in Ranks /\ Types
      /\ UNCHANGED <<backlog, started, shutdown, job_map, pending, todo_nodes, wait_conn, batch,
                     cur, rank, badset, conset, inc, rk>>
  BY Zenon DEF PeersConnect, accepting, Basics, Types, Phases, Assigning
<1>2. PICK c \in Workers : c = cur.w
  BY <1>1, Zenon DEF Entry
<1>3. rk[c] = rank /\ wst[c] = "tracker" /\ rank \notin DOMAIN wait_conn
  BY <1>1, <1>2, Zenon DEF Assigning
<1>4. /\ nerr' = 0
      /\ wst' = [wst EXCEPT ![c] = "job"]
      /\ toaccept' = [v \in Workers |->
             IF v \in {wait_conn[r].w : r \in conset} THEN toaccept[v] - 1
             ELSE IF v = c THEN Cardinality(badset) - Cardinality(conset)
             ELSE toaccept[v]]
  BY <1>2, AllConnect, Zenon
<1>5. /\ wst'[c] = "job"
      /\ \A w \in Workers : w /= c => wst'[w] = wst[w]
  BY <1>1, <1>4, Zenon DEF Types
<1>6. /\ \A w : InHand(w) <=> w = c
      /\ \A w : ~InHand(w)'
      /\ \A w : Waits(w)' <=> Waits(w)
  BY <1>1, <1>2, Zenon DEF InHand, Waits
<1>7. Messages'
  <2>1. \A w \in Workers : wst[w] = "tracker" /\ ~InHand(w) /\ Waits(w) =>
            wst'[w] = "tracker" /\ ~InHand(w)'
    BY <1>5, <1>6, Zenon
  <2>2. \A w \in Workers : wst[w] = "done" => wst'[w] = "done" /\ rk'[w] = rk[w]
    BY <1>1, <1>3, <1>5, Zenon
  <2> QED BY <1>1, <2>1, <2>2, MessagesKept, Zenon
<1>8. Queued(batch)' /\ (Gathering => Gathering')
  <2>1. \A w \in Workers : wst[w] = "tracker" /\ ~InHand(w) /\ ~Waits(w) =>
               wst'[w] = "tracker" /\ ~InHand(w)' /\ ~Waits(w)'
    BY <1>5, <1>6, Zenon
  <2> QED BY <1>1, <2>1, QueuesKept, Zenon
<1>9. Gathered => Gathered'
  BY <1>1, <1>5, Zenon DEF Gathered
<1>10. FirstLife'
  BY <1>1, Zenon DEF FirstLife
<1>11. Standing'
  <2>1. \A w \in Workers : wst'[w] \in {"job", "done"} => rk'[w] \in Ranks
    BY <1>1, <1>3, <1>5 DEF Standing
  <2>2. \A w \in DOMAIN job_map : wst'[w] /= "down"
    BY <1>1, <1>5, Zenon DEF Standing, Types
  <2>3. \A r \in shutdown : \E w \in Workers : rk'[w] = r /\ wst'[w] = "done"
    BY <1>1, <1>3, <1>5 DEF Standing
  <2> QED BY <1>1, <2>1, <2>2, <2>3 DEF Standing
<1>12. ASSUME NEW r \in DOMAIN wait_conn
       PROVE  /\ rk'[wait_conn[r].w] = r /\ wait_conn[r].wait_accept > 0
              /\ toaccept'[wait_conn[r].w] = wait_conn[r].wait_accept - (IF r \in conset THEN 1 ELSE 0)
              /\ wst'[wait_conn[r].w] = "job"
  <2>1. PICK v \in Workers : v = wait_conn[r].w
    BY <1>1, SlotWorker, Zenon
  <2>2. /\ rk[v] = r /\ wait_conn[r].wait_accept \in Int /\ wait_conn[r].wait_accept > 0
        /\ toaccept[v] = wait_conn[r].wait_accept /\ wst[v] = "job"
    BY <1>1, <2>1, SlotWorker, Zenon
  <2>3. v /= c /\ wst'[v] = "job"
    BY <1>3, <1>5, <2>2, Zenon
  <2>4. v \in {wait_conn[k].w : k \in conset} <=> r \in conset
    <3>1. \A k \in conset : wait_conn[k].w = v => k = r
      <4>1. \A k \in conset : rk[wait_conn[k].w] = k
        BY <1>1, SlotWorker, Zenon
      <4> QED BY <2>2, <4>1, Zenon
    <3> QED BY <2>1, <3>1, Zenon
  <2>5. toaccept'[v] = IF r \in conset THEN toaccept[v] - 1 ELSE toaccept[v]
    BY <1>4, <2>3, <2>4, Zenon
  <2> QED BY <1>1, <2>1, <2>2, <2>3, <2>5
<1>13. Waiting'
  BY <1>1, <1>12, Zenon DEF Waiting, Unread
<1>14. Assigning'
  <2>1. c \notin {wait_conn[r].w : r \in conset}
    BY <1>1, <1>3, SlotWorker
  <2>2. toaccept'[c] = Cardinality(badset) - Cardinality(conset)
    BY <1>4, <2>1, Zenon
  <2>3. nerr' = 0 /\ wst'[c] = "job" /\ rk'[c] = rank
    BY <1>1, <1>3, <1>4, <1>5, Zenon
  <2> QED BY <1>1, <1>2, <1>3, <2>2, <2>3 DEF Assigning
<1> QED BY <1>1, <1>7, <1>8, <1>9, <1>10, <1>11, <1>13, <1>14

(* assign_rank reads the count of errors, and wait_conn is brought up to date. *)
LEMMA ReadCalm ==
    ASSUME Setting, Basics, Basics', Calm, ReadErrors
    PROVE  Calm'
<1> USE DEF Calm
<1>1. /\ tpc = "nerr" /\ cur /= None /\ cur \in Entry /\ rank \in Ranks /\ Types
      /\ UNCHANGED <<backlog, started, shutdown, job_map, pending, todo_nodes, batch, inc, wst, rk,
                     toaccept>>
  BY Zenon DEF ReadErrors, accepting, workers, Basics, Types, Phases
<1>2. PICK c \in Workers : c = cur.w /\ cur.inc = 0
  BY <1>1, Zenon DEF Entry, FirstLife
<1>3. PICK n \in Int : n = Cardinality(badset) - Cardinality(conset) /\ n = toaccept[c]
  <2>1. toaccept[c] \in Int
    BY <1>1, Zenon DEF Types
  <2> QED BY <1>1, <1>2, <2>1, Zenon DEF Assigning
<1>4. /\ rk[c] = rank /\ rank \notin DOMAIN wait_conn /\ nerr = 0 /\ (n > 0 => wst[c] = "job")
  BY <1>1, <1>2, <1>3, Zenon DEF Assigning
<1>5. Assigned
  BY <1>4, Zenon DEF ReadErrors
<1>6. cur' = None /\ tpc' \in {"accept", "good"} /\ \A w : ~InHand(w)'
  BY <1>5, Zenon DEF Assigned, InHand
<1>7. \A w : Waits(w)' <=> Waits(w)
  BY <1>1, Zenon DEF Waits
<1>8. Messages'
  BY <1>1, <1>6, MessagesKept, Zenon
<1>9. Queued(batch)' /\ (Gathering => Gathering')
  BY <1>1, <1>6, <1>7, QueuesKept
<1>10. (Gathered => Gathered') /\ Standing' /\ Assigning'
  BY <1>1, <1>6 DEF Gathered, Standing, Assigning
<1> DEFINE d(r) == IF r \in conset THEN 1 ELSE 0
           L == {r \in DOMAIN wait_conn : wait_conn[r].wait_accept - d(r) /= 0 \/ r \notin conset}
<1>11. ASSUME NEW r \in DOMAIN CountDown
       PROVE  /\ r \in L
              /\ CountDown[r].w = wait_conn[r].w /\ CountDown[r].inc = wait_conn[r].inc
              /\ CountDown[r].wait_accept = wait_conn[r].wait_accept - d(r)
  <2>1. CountDown = [k \in L |-> [wait_conn[k] EXCEPT !.wait_accept = wait_conn[k].wait_accept - d(k)]]
    BY Zenon DEF CountDown
  <2>2. r \in L /\ CountDown[r] = [wait_conn[r] EXCEPT !.wait_accept = wait_conn[r].wait_accept - d(r)]
    BY <2>1, Zenon
  <2>3. wait_conn[r] \in Slot
    BY <1>1, <2>2, Zenon DEF Types
  <2> QED BY <2>2, <2>3, Zenon DEF Slot
<1>12. ASSUME NEW r \in DOMAIN CountDown
       PROVE  /\ r \in DOMAIN wait_conn
              /\ CountDown[r].w \in Workers /\ CountDown[r].inc = 0
              /\ rk[CountDown[r].w] = r /\ CountDown[r].wait_accept > 0
              /\ toaccept[CountDown[r].w] = CountDown[r].wait_accept
              /\ toaccept[CountDown[r].w] > 0 => wst[CountDown[r].w] = "job"
  <2>1. /\ r \in DOMAIN wait_conn
        /\ wait_conn[r].wait_accept - d(r) /= 0 \/ r \notin conset
    BY <1>11, Zenon
  <2>2. wait_conn[r].w \in Workers /\ wait_conn[r].wait_accept \in Int
    <3>1. wait_conn[r] \in Slot
      BY <1>1, <2>1, Zenon DEF Types
    <3> QED BY <3>1, Zenon DEF Slot
  <2>3. Unread(r) = d(r)
    BY <1>1, Zenon DEF Unread
  <2>4. /\ rk[wait_conn[r].w] = r /\ wait_conn[r].wait_accept > 0
        /\ toaccept[wait_conn[r].w] = wait_conn[r].wait_accept - d(r)
        /\ toaccept[wait_conn[r].w] > 0 => wst[wait_conn[r].w] = "job"
    BY <2>1, <2>3, Zenon DEF Waiting
  <2>5. wait_conn[r].wait_accept - d(r) > 0
    <3>1. d(r) \in {0, 1} /\ (r \notin conset => d(r) = 0)
      BY Zenon
    <3> HIDE DEF d
    <3> QED BY <2>1, <2>2, <2>4, <3>1, OneLess, Zenon
  <2>6. wait_conn[r].inc = 0
    BY <2>1, Zenon DEF FirstLife
  <2> HIDE DEF d
  <2> QED BY <1>11, <2>1, <2>2, <2>4, <2>5, <2>6, Zenon
<1> HIDE DEF L, d
<1>13. wait_conn' = IF n > 0
                    THEN [r \in DOMAIN CountDown \cup {rank} |->
                             IF r = rank THEN [w |-> cur.w, inc |-> cur.inc, wait_accept |-> n]
                             ELSE CountDown[r]]
                    ELSE CountDown
  BY <1>3, <1>5, Zenon DEF Assigned
<1>14. ASSUME NEW r \in DOMAIN wait_conn'
       PROVE  /\ wait_conn'[r].w \in Workers /\ wait_conn'[r].inc = 0
              /\ rk[wait_conn'[r].w] = r /\ wait_conn'[r].wait_accept > 0
              /\ toaccept[wait_conn'[r].w] = wait_conn'[r].wait_accept
              /\ toaccept[wait_conn'[r].w] > 0 => wst[wait_conn'[r].w] = "job"
  <2>1. CASE r \in DOMAIN CountDown
    <3>1. r /= rank
      BY <1>4, <1>12, <2>1
    <3>2. wait_conn'[r] = CountDown[r]
      BY <1>13, <2>1, <3>1, Zenon
    <3> QED BY <1>12, <2>1, <3>2, Zenon
  <2>2. CASE r \notin DOMAIN CountDown
    <3>1. n > 0 /\ r = rank
      BY <1>13, <2>2, Zenon
    <3>2. wait_conn'[r] = [w |-> cur.w, inc |-> cur.inc, wait_accept |-> n]
      BY <1>13, <3>1, Zenon
    <3> QED BY <1>2, <1>3, <1>4, <3>1, <3>2
  <2> QED BY <2>1, <2>2, Zenon
<1>15. Waiting'
  <2>1. \A r \in DOMAIN wait_conn' : (Unread(r))' = 0
    BY <1>6, Zenon DEF Unread
  <2>2. \A r \in DOMAIN wait_conn' : wait_conn'[r].wait_accept \in Int
    <3>1. \A r \in DOMAIN wait_conn' : wait_conn'[r] \in Slot
      BY Zenon DEF Basics, Types
    <3> QED BY <3>1, Zenon DEF Slot
  <2>3. \A r \in DOMAIN wait_conn' :
            toaccept[wait_conn'[r].w] = wait_conn'[r].wait_accept - (Unread(r))'
    BY <1>14, <2>1, <2>2
  <2> QED BY <1>1, <1>14, <2>3 DEF Waiting
<1>16. FirstLife'
  BY <1>1, <1>6, <1>14, Zenon DEF FirstLife
<1> QED BY <1>6, <1>8, <1>9, <1>10, <1>15, <1>16

LEMMA WorkerCalm ==
    ASSUME Setting, Basics, Basics', RanksApart, Calm, NEW w \in Workers, Worker(w) \/ LogMessage(w)
    PROVE  Calm'
<1>0. PICK k \in Ranks \cup {-1} : k = rk[w]
  BY Zenon DEF Basics, Types
<1>1. inc[w] = 0 /\ 0 \in Nat
  BY Zenon DEF Calm, FirstLife, Basics, Types
<1>2. ASSUME NEW cmd \in {"start", "recover", "shutdown", "print"}, NEW r \in Ranks \cup {-1},
             Call(w, cmd, r)
      PROVE  \E m \in Entry : /\ m.w = w /\ m.inc = 0 /\ m.cmd = cmd /\ m.rank = r
                              /\ backlog' = Append(backlog, m)
  <2> DEFINE m == [w |-> w, inc |-> 0, cmd |-> cmd, rank |-> r]
  <2>1. m \in Entry /\ m.w = w /\ m.inc = 0 /\ m.cmd = cmd /\ m.rank = r
    BY <1>1, Zenon DEF Entry
  <2>2. backlog' = Append(backlog, m)
    BY <1>1, <1>2, Zenon DEF Call
  <2> HIDE DEF m
  <2> QED BY <2>1, <2>2, Zenon
<1>3. CASE Start(w)
  <2>1. /\ Call(w, "start", -1) /\ wst[w] = "down"
        /\ wst' = [wst EXCEPT ![w] = "tracker"]
        /\ UNCHANGED <<tpc, accepting, wait_conn, assigning, inc, rk, toaccept>>
    BY <1>0, <1>3, Zenon DEF Start
  <2>2. PICK m \in Entry : /\ m.w = w /\ m.inc = 0 /\ m.cmd = "start" /\ m.rank = -1
                           /\ backlog' = Append(backlog, m)
    BY <1>2, <2>1
  <2>3. Sends(w, m)
    BY <1>0, <2>1, <2>2, Zenon DEF Sends
  <2> QED BY <2>3, SendCalm, Zenon
<1>4. CASE Recover(w)
  <2>1. /\ Call(w, "recover", k) /\ wst[w] = "job" /\ toaccept[w] = 0
        /\ wst' = [wst EXCEPT ![w] = "tracker"]
        /\ UNCHANGED <<tpc, accepting, wait_conn, assigning, inc, rk, toaccept>>
    BY <1>0, <1>4, Zenon DEF Recover
  <2>2. PICK m \in Entry : /\ m.w = w /\ m.inc = 0 /\ m.cmd = "recover" /\ m.rank = k
                           /\ backlog' = Append(backlog, m)
    BY <1>2, <2>1, Zenon
  <2>3. Sends(w, m)
    BY <1>0, <2>1, <2>2, Zenon DEF Sends
  <2> QED BY <2>3, SendCalm, Zenon
<1>5. CASE Shutdown(w)
  <2>1. /\ Call(w, "shutdown", k) /\ wst[w] = "job" /\ toaccept[w] = 0
        /\ wst' = [wst EXCEPT ![w] = "done"]
        /\ UNCHANGED <<tpc, accepting, wait_conn, assigning, inc, rk, toaccept>>
    BY <1>0, <1>5, Zenon DEF Shutdown
  <2>2. PICK m \in Entry : /\ m.w = w /\ m.inc = 0 /\ m.cmd = "shutdown" /\ m.rank = k
                           /\ backlog' = Append(backlog, m)
    BY <1>2, <2>1, Zenon
  <2>3. Sends(w, m)
    BY <1>0, <2>1, <2>2, Zenon DEF Sends
  <2> QED BY <2>3, SendCalm, Zenon
<1>6. CASE LogMessage(w)
  <2>1. /\ Call(w, "print", k) 
        /\ wst' = wst
        /\ UNCHANGED <<tpc, accepting, wait_conn, assigning, inc, rk, toaccept>>
    BY <1>0, <1>6, Zenon DEF LogMessage, workers
  <2>2. PICK m \in Entry : /\ m.w = w /\ m.inc = 0 /\ m.cmd = "print" /\ m.rank = k
                           /\ backlog' = Append(backlog, m)
    BY <1>2, <2>1, Zenon
  <2>3. Sends(w, m)
    BY <1>0, <2>1, <2>2, Zenon DEF Sends
  <2> QED BY <2>3, SendCalm, Zenon
<1> QED BY <1>3, <1>4, <1>5, <1>6, Zenon DEF Worker

(* Nothing that is counted against the peace is ever taken back. *)
LEMMA PeaceBefore ==
    ASSUME Setting, Basics, [Next]_vars, Peaceful'
    PROVE  Peaceful /\ \A w \in Workers : ~Crash(w)
<1>1. crashes \in Nat /\ errors \in Nat /\ crashes' = 0 /\ errors' = 0
  BY Zenon DEF Basics, Types, Peaceful
<1>2. ASSUME NEW w \in Workers, Crash(w) PROVE FALSE
  BY <1>1, <1>2 DEF Crash
<1>3. CASE PeersConnect
  <2>1. crashes' = crashes
    BY <1>3, Zenon DEF PeersConnect
  <2>2. PICK k : errors' = errors + k /\ k \in Nat
    <3>1. PICK failing \in SUBSET conset :
              errors' = errors + Cardinality(failing \ {r \in conset : ~Listens(wait_conn[r])})
      BY <1>3, Zenon DEF PeersConnect
    <3>3. failing \ {r \in conset : ~Listens(wait_conn[r])} \in SUBSET Ranks
      BY Zenon DEF Basics, Types
    <3>4. Cardinality(failing \ {r \in conset : ~Listens(wait_conn[r])}) \in Nat
      BY <3>3, Zenon DEF Setting, RanksCount
    <3> QED BY <3>1, <3>4, Zenon
  <2> QED BY <1>1, <1>2, <2>1, <2>2 DEF Peaceful
<1>4. CASE UNCHANGED <<crashes, errors>>
  BY <1>1, <1>2, <1>4, Zenon DEF Peaceful
<1>5. PeersConnect \/ UNCHANGED <<crashes, errors>>
  <2>1. CASE Tracker \/ TrackerStays \/ UNCHANGED vars
    BY <2>1, Zenon
       DEF Tracker, TrackerStays, vars, bounds, Accept, BatchNext, TrackerEnds, Negotiate,
       ReadErrors, WorkerGone
  <2>2. CASE \E w \in Workers : Worker(w) \/ LogMessage(w)
    BY <2>2, Zenon DEF Worker, Start, Recover, Shutdown, LogMessage, bounds
  <2> QED BY <1>2, <2>1, <2>2, Zenon DEF Next
<1> QED BY <1>3, <1>4, <1>5

LEMMA CalmStep ==
    ASSUME Setting, Enough, Basics, Basics', RanksApart, RanksApart', LinksArePeers, Peaceful => Calm,
           [Next]_vars
    PROVE  Peaceful' => Calm'
<1> SUFFICES ASSUME Peaceful' PROVE Calm'
  BY Zenon
<1>1. Calm /\ errors = 0 /\ errors' = 0 /\ \A w \in Workers : ~Crash(w)
  BY PeaceBefore, Zenon DEF Peaceful
<1>2. CASE TrackerEnds \/ TrackerStays \/ UNCHANGED vars
  <2>1. /\ tpc' = tpc \/ (tpc = "accept" /\ tpc' = "finished")
        /\ UNCHANGED <<backlog, started, shutdown, job_map, pending, todo_nodes, wait_conn, batch, cur,
                       rank, badset, conset, nerr, inc, wst, rk, toaccept>>
    BY <1>2, Zenon DEF TrackerEnds, TrackerStays, vars, accepting, assigning, workers
  <2>2. \A w : (InHand(w)' <=> InHand(w)) /\ (Waits(w)' <=> Waits(w))
    BY <2>1, Zenon DEF InHand, Waits
  <2>3. Messages'
    BY <1>1, <2>1, <2>2, MessagesKept DEF Calm
  <2>4. Queued(batch)' /\ (Gathering => Gathering')
    BY <1>1, <2>1, <2>2, QueuesKept DEF Calm
  <2>5. FirstLife' /\ Standing' /\ (Gathered => Gathered')
    BY <1>1, <2>1, Zenon DEF Calm, FirstLife, Standing, Gathered
  <2>6. Assigning' /\ Waiting'
    BY <1>1, <2>1 DEF Calm, Assigning, Waiting, Unread
  <2> QED BY <1>1, <2>1, <2>3, <2>4, <2>5, <2>6 DEF Calm
<1>3. CASE WorkerGone
  <2>1. cur \in Entry /\ cur.inc = 0 /\ inc[cur.w] /= cur.inc
    BY <1>1, <1>3, Zenon DEF WorkerGone, Closed, Calm, FirstLife, Basics, Types
  <2>2. inc[cur.w] = 0
    BY <1>1, <2>1, Zenon DEF Calm, FirstLife, Entry
  <2> QED BY <2>1, <2>2, Zenon
<1>4. CASE Tracker
  BY SMTT(40), <1>1, <1>2, <1>3, <1>4, AcceptCalm, BatchCalm, NegotiateCalm, ConnectCalm, ReadCalm
     DEF Tracker
<1>5. CASE \E w \in Workers : Worker(w) \/ LogMessage(w) \/ Crash(w)
  BY <1>1, <1>5, WorkerCalm, Zenon
<1> QED BY <1>2, <1>4, <1>5 DEF Next

TrackerInv == Basics /\ RanksApart /\ LinksInv /\ (Peaceful => Calm)

LEMMA TrackerInvariant == Setting /\ Enough /\ Symmetric => (Spec => []TrackerInv)
<1> SUFFICES ASSUME Setting, Enough, Symmetric PROVE Spec => []TrackerInv
  BY Zenon
<1>1. Init => TrackerInv
  BY BasicsInit, ApartInit, LinksInit, CalmInit, Zenon DEF TrackerInv
<1>2. TrackerInv /\ [Next]_vars => TrackerInv'
  <2>1. SUFFICES ASSUME TrackerInv, [Next]_vars PROVE TrackerInv'
    BY Zenon
  <2>2. Basics /\ RanksApart /\ LinksInv /\ (Peaceful => Calm) /\ LinksArePeers
    BY <2>1, Zenon DEF TrackerInv, LinksInv
  <2>3. Basics' /\ RanksApart'
    BY <2>1, <2>2, BasicsStep, ApartStep, Zenon
  <2>4. LinksInv'
    BY <2>1, <2>2, <2>3, LinksStep, Zenon
  <2>5. Peaceful' => Calm'
    BY <2>1, <2>2, <2>3, CalmStep
  <2> QED BY <2>3, <2>4, <2>5, Zenon DEF TrackerInv
<1> QED BY <1>1, <1>2, PTL DEF Spec

---------------------------------------------------------------------------
(* Finite sets, and the theorems *)

(* The place of an entry is one more than the number of entries before it. *)
LEMMA SortIsPermutation ==
    ASSUME host \in [Workers -> Int], NEW p \in Seq(Entry)
    PROVE  \E f \in [DOMAIN p -> DOMAIN p] :
               /\ \A k, l \in DOMAIN p : f[k] = f[l] => k = l
               /\ ByHost(p) = [k \in DOMAIN p |-> p[f[k]]]
<1> DEFINE n == Len(p)
           D == 1 .. n
           Before(i, j) == \/ host[p[i].w] < host[p[j].w]
                           \/ host[p[i].w] = host[p[j].w] /\ i < j
           B(i) == {j \in D : Before(j, i)}
           Place(i) == Cardinality(B(i)) + 1
           g == [i \in D |-> Place(i)]
           f == [k \in D |-> CHOOSE i \in D : Place(i) = k]
<1>1. n \in Nat /\ DOMAIN p = D /\ IsFiniteSet(D) /\ Cardinality(D) = n
  <2>1. n \in Nat /\ DOMAIN p = D
    BY LenIs, Zenon
  <2> HIDE DEF n
  <2>2. IsFiniteSet(D) /\ Cardinality(D) = IF 1 > n THEN 0 ELSE n - 1 + 1
    BY <2>1, FS_Interval
  <2> QED BY <2>1, <2>2
<1> HIDE DEF n
<1>2. \A i \in D : host[p[i].w] \in Int /\ i \in Int
  <2>1. \A i \in D : p[i] \in Entry
    BY <1>1, ElementIs
  <2> QED BY <2>1 DEF Entry
<1>3. \A i, j, k \in D : /\ ~Before(i, i)
                         /\ Before(i, j) /\ Before(j, k) => Before(i, k)
                         /\ i /= j => Before(i, j) \/ Before(j, i)
  BY <1>2
<1> HIDE DEF Before
<1>4. ASSUME NEW i \in D
      PROVE  IsFiniteSet(B(i)) /\ Cardinality(B(i)) \in Nat /\ Place(i) \in D
  <2>1. B(i) \in SUBSET (D \ {i})
    BY <1>3, Zenon
  <2>2. IsFiniteSet(D \ {i}) /\ Cardinality(D \ {i}) = n - 1
    <3>1. /\ IsFiniteSet(D \ {i})
          /\ Cardinality(D \ {i}) = IF i \in D THEN Cardinality(D) - 1 ELSE Cardinality(D)
      BY <1>1, FS_RemoveElement, Zenon
    <3> QED BY <3>1, <1>1, Zenon
  <2>3. IsFiniteSet(B(i)) /\ Cardinality(B(i)) <= n - 1
    BY <2>1, <2>2, FS_Subset
  <2>4. Cardinality(B(i)) \in Nat
    BY <2>3, FS_CardinalityType, Zenon
  <2> QED BY <2>3, <2>4, <1>1
<1>5. ASSUME NEW i \in D, NEW j \in D, Before(i, j) PROVE Place(i) < Place(j)
  <2>1. B(i) \in SUBSET B(j) /\ i \in B(j) /\ i \notin B(i)
    BY <1>3, <1>5, Zenon
  <2>2. Cardinality(B(i)) <= Cardinality(B(j)) /\ Cardinality(B(i)) /= Cardinality(B(j))
    BY <2>1, <1>4, FS_Subset, Zenon
  <2>3. Cardinality(B(i)) \in Nat /\ Cardinality(B(j)) \in Nat
    BY <1>4, Zenon
  <2> HIDE DEF B
  <2> QED BY <2>2, <2>3
<1>6. \A i, j \in D : Place(i) = Place(j) => i = j
  <2>1. SUFFICES ASSUME NEW i \in D, NEW j \in D, i /= j PROVE Place(i) /= Place(j)
    BY Zenon
  <2>2. Place(i) < Place(j) \/ Place(j) < Place(i)
    BY <2>1, <1>3, <1>5
  <2>3. Place(i) \in D /\ Place(j) \in D
    BY <1>4, Zenon
  <2> HIDE DEF Place
  <2> QED BY <2>2, <2>3, <1>1
<1> HIDE DEF B, Place
<1>7. g \in Injection(D, D)
  BY <1>4, <1>6, Zenon DEF Injection, IsInjective
<1>8. \A k \in D : \E i \in D : Place(i) = k
  <2>1. g \in Surjection(D, D)
    BY <1>7, <1>1, FS_Injection, Zenon
  <2> QED BY <2>1, Zenon DEF Surjection
<1>9. \A k \in D : f[k] \in D /\ Place(f[k]) = k
  BY <1>8, Zenon
<1>10. f \in [D -> D] /\ \A k, l \in D : f[k] = f[l] => k = l
  BY <1>9, Zenon
<1>11. ByHost(p) = [k \in D |-> p[f[k]]]
  BY <1>1 DEF ByHost, Place, B, Before
<1> HIDE DEF f, D
<1> QED BY <1>1, <1>10, <1>11

LEMMA NoOneMissing ==
    ASSUME Proper, Enough, NEW p \in Seq(Entry), Len(p) = nslave,
           \A i, j \in DOMAIN p : p[i].w = p[j].w => i = j
    PROVE  \A w \in Workers : \E i \in DOMAIN p : p[i].w = w
<1> DEFINE D == 1 .. nslave
           f == [i \in D |-> p[i].w]
<1>1. DOMAIN p = D /\ \A i \in D : p[i].w \in Workers
  <2>1. DOMAIN p = D
    BY LenIs, Zenon
  <2>2. \A i \in D : p[i] \in Entry
    BY ElementIs, Zenon
  <2> QED BY <2>1, <2>2, Zenon DEF Entry
<1>2. f \in Injection(D, Workers)
  BY <1>1, Zenon DEF Injection, IsInjective
<1>3. IsFiniteSet(D) /\ Cardinality(D) = nslave
  <2>1. 1 \in Int /\ nslave \in Int /\ nslave >= 1
    BY DEF Proper
  <2>2. IsFiniteSet(D) /\ Cardinality(D) = IF 1 > nslave THEN 0 ELSE nslave - 1 + 1
    BY <2>1, FS_Interval, Zenon
  <2> QED BY <2>1, <2>2
<1> HIDE DEF f
<1>4. Cardinality(D) <= Cardinality(Workers)
  BY <1>2, FS_Injection, Zenon DEF Enough
<1>5. Cardinality(D) = Cardinality(Workers)
  <2>1. Cardinality(Workers) \in Nat /\ nslave \in Nat
    BY FS_CardinalityType, Zenon DEF Enough, Proper
  <2> QED BY <1>3, <1>4, <2>1 DEF Enough
<1>6. f \in Surjection(D, Workers)
  BY <1>2, <1>5, FS_Injection, Zenon DEF Enough
<1>7. \A w \in Workers : \E i \in D : f[i] = w
  BY <1>6, Zenon DEF Surjection
<1> QED BY <1>1, <1>7, Zenon DEF f

LEMMA SettingHolds == Proper => Setting
<1> SUFFICES ASSUME Proper PROVE Setting
  BY Zenon
<1>1. RanksCount
  <2>1. IsFiniteSet(Ranks)
    BY FS_Interval DEF Ranks, Proper
  <2>2. ASSUME NEW S \in SUBSET Ranks
        PROVE  Cardinality(S) \in Nat /\ (Cardinality(S) = 0 => S = {})
    <3>1. IsFiniteSet(S)
      BY <2>1, FS_Subset, Zenon
    <3> QED BY <3>1, FS_CardinalityType, FS_EmptySet, Zenon
  <2> QED BY <2>2, Zenon DEF RanksCount
<1>2. SortPermutes
  BY SortIsPermutation, Zenon DEF SortPermutes, Proper
<1>3. AllQueued
  BY NoOneMissing, Zenon DEF AllQueued
<1> QED BY <1>1, <1>2, <1>3, Zenon DEF Setting

(***************************************************************************)
(* The rank that assign_rank sends to a worker is no other worker's, for   *)
(* any number of workers and links, and however many of them crash at      *)
(* whatever moment, are started again or fail to connect: a rank of        *)
(* todo_nodes is handed out once, and job_map and the messages on their    *)
(* way name a worker's own rank only.                                      *)
(***************************************************************************)
THEOREM RanksNeverShared == Proper => (Spec => []RanksUnique)
<1> SUFFICES ASSUME Proper PROVE Spec => []RanksUnique
  BY Zenon
<1>1. Init => Basics /\ RanksApart
  BY SettingHolds, BasicsInit, ApartInit, Zenon
<1>2. Basics /\ RanksApart /\ [Next]_vars => (Basics /\ RanksApart)'
  BY SettingHolds, BasicsStep, ApartStep, Zenon
<1>3. Basics /\ RanksApart => RanksUnique
  <2> SUFFICES ASSUME Basics, RanksApart, NEW w \in Workers, NEW v \in Workers,
                      w /= v, rk[w] >= 0, rk[w] = rk[v]
               PROVE  FALSE
    BY Zenon DEF RanksUnique
  <2>1. rk[w] \in Ranks
    BY DEF Basics, Types
  <2> QED BY <2>1, Zenon DEF RanksApart, Owns
<1> QED BY <1>1, <1>2, <1>3, PTL DEF Spec

\* What assign_rank asserts of the good links that a worker reports: they are links
\* with ranks that the worker was told to be linked with, so that
\* goodset.issubset(nnset) holds whoever crashes, at whatever moment, is started
\* again or fails to connect. It takes links that both ends know of, as
\* get_link_map's are, and fails without: a worker would report the link that
\* another made to it.
THEOREM LinksStayPeers == Proper /\ Symmetric => (Spec => []LinksArePeers)
<1> SUFFICES ASSUME Proper, Symmetric PROVE Spec => []LinksArePeers
  BY Zenon
<1>1. Init => Basics /\ LinksInv
  BY SettingHolds, BasicsInit, LinksInit, Zenon
<1>2. Basics /\ LinksInv /\ [Next]_vars => (Basics /\ LinksInv)'
  BY SettingHolds, BasicsStep, LinksStep, Zenon
<1>3. Basics /\ LinksInv => LinksArePeers
  BY Zenon DEF LinksInv
<1> QED BY <1>1, <1>2, <1>3, PTL DEF Spec

\* As long as no worker crashes and no connection fails, accept_slaves never raises
\* nor hangs, for any number of workers that does not exceed nslave, any links that
\* both ends know of and any order of their messages: the ranks it pops are there
\* when it pops them, no end is reported twice or by a worker others still have to
\* connect to, the first command is a start, the good links reported are among
\* those the worker was told of, and nobody has gone when it reads.
THEOREM AssertionsNeverFail == Proper /\ Enough /\ Symmetric => (Spec => []AssertionsHold)
<1> SUFFICES ASSUME Proper, Enough, Symmetric PROVE Spec => []AssertionsHold
  BY Zenon
<1>1. TrackerInv => AssertionsHold
  BY Zenon DEF TrackerInv, AssertionsHold, Peaceful, Calm
<1>2. Spec => []TrackerInv
  BY SettingHolds, TrackerInvariant, Zenon
<1> QED BY <1>1, <1>2, PTL

\* Under the same conditions wait_conn is what its comment says, the nodes that
\* wait for connections, and counts exactly those that each of them waits for.
THEOREM WaitConnExact ==
    Proper /\ Enough /\ Symmetric => (Spec => [](Peaceful => AcceptsAgree /\ WaitConnWaits))
<1> SUFFICES ASSUME Proper, Enough, Symmetric
             PROVE  Spec => [](Peaceful => AcceptsAgree /\ WaitConnWaits)
  BY Zenon
<1>1. TrackerInv => (Peaceful => AcceptsAgree /\ WaitConnWaits)
  <2>1. SUFFICES ASSUME Basics, FirstLife, Waiting, tpc /= "nerr", NEW r \in DOMAIN wait_conn
                 PROVE  /\ wait_conn[r].wait_accept = toaccept[wait_conn[r].w]
                        /\ toaccept[wait_conn[r].w] > 0
    BY Zenon DEF TrackerInv, Calm, AcceptsAgree, WaitConnWaits
  <2> QED BY <2>1, SlotWorker, Zenon
<1>2. Spec => []TrackerInv
  BY SettingHolds, TrackerInvariant, Zenon
<1> QED BY <1>1, <1>2, PTL
=============================================================================
