----------------------------- MODULE ThreadGroup -----------------------------
(* thread_group.h: the handshake by which a Thread is launched, its removal from
   the group, and the group's shutdown and destruction by the thread that owns
   it. A ManualEvent is its flag and whether its waiter is asleep; each event
   here has at most one waiter. A thread's function returns at any time, at the
   latest when shutdown is requested (as TimerThread::run). *)
EXTENDS FiniteSets, Naturals, TLAPS

CONSTANTS Threads,
          DuplicateNames,   \* whether all threads have one name, or each its own
          SpuriousWakeups   \* whether a condition variable wakes up by itself

Ready(t) == <<"ready", t>>
Start(t) == <<"start", t>>
Empty == <<"empty">>
Events == {Ready(t) : t \in Threads} \cup {Start(t) : t \in Threads} \cup {Empty}
NoThread == 0

VARIABLES
    signaled_, asleep,          \* of each event
    auto_remove_, shutdown_requested_,
    threads_,
    m_,                         \* the thread that holds it in remove_thread, or NoThread
    tpc,                        \* of each thread
    pc, cur, working_set,       \* of the owner: the launched thread; the threads to be joined
    refused, reported           \* by add_thread; by launch, as launched

vars == <<signaled_, asleep, auto_remove_, shutdown_requested_, threads_, m_, tpc, pc, cur,
          working_set, refused, reported>>
flags == <<auto_remove_, shutdown_requested_>>
owner == <<pc, cur, working_set, refused, reported>>

-----------------------------------------------------------------------------
(* ManualEvent: signal sets the flag and notifies under the mutex afterwards *)

\* wait: goes to sleep unless signaled. The waiter goes on when it is not asleep.
WaitFor(e) ==
    /\ ~signaled_[e] /\ ~asleep[e]
    /\ asleep' = [asleep EXCEPT ![e] = TRUE]
    /\ UNCHANGED signaled_

\* Without the flag a signal that comes first is lost.
SetMutant(e) == UNCHANGED signaled_

Set(e) == signaled_' = [signaled_ EXCEPT ![e] = TRUE]

Reset(e) == signaled_' = [signaled_ EXCEPT ![e] = FALSE]
Notify(e) == asleep' = [asleep EXCEPT ![e] = FALSE]

Spurious(e) ==
    /\ SpuriousWakeups /\ asleep[e]
    /\ Notify(e)
    /\ UNCHANGED <<signaled_, flags, threads_, m_, tpc, owner>>

-----------------------------------------------------------------------------
(* entry_and_exit_f *)

Tpc(t, l) == tpc' = [tpc EXCEPT ![t] = l]
Step(t, from, to) == tpc[t] = from /\ Tpc(t, to) /\ UNCHANGED <<flags, owner>>

SignalReady(t) == Step(t, "new", "notify") /\ Set(Ready(t)) /\ UNCHANGED <<asleep, threads_, m_>>
NotifyReady(t) ==
    Step(t, "notify", "wait") /\ Notify(Ready(t)) /\ UNCHANGED <<signaled_, threads_, m_>>

\* start_event_->wait(): passes, or sleeps and then passes; reset.
WaitStart(t) == Step(t, "wait", "sleep") /\ WaitFor(Start(t)) /\ UNCHANGED <<threads_, m_>>
Started(t) ==
    /\ \/ Step(t, "wait", "run") /\ signaled_[Start(t)]
       \/ Step(t, "sleep", "run") /\ ~asleep[Start(t)]
    /\ Reset(Start(t))
    /\ UNCHANGED <<asleep, threads_, m_>>

\* The function, skipped when shutdown is requested already.
Run(t) == Step(t, "run", "ran") /\ UNCHANGED <<signaled_, asleep, threads_, m_>>

AutoRemove(t) ==
    /\ Step(t, "ran", IF auto_remove_[t] THEN "remove" ELSE "last")
    /\ UNCHANGED <<signaled_, asleep, threads_, m_>>

Emptied(t) == threads_ = {t}

\* Without the lock.
HeldMutant(t) == m_

Held(t) == IF t \in threads_ THEN t ELSE m_

\* remove_thread, by the thread itself; evEmpty_ is signalled under m_.
RemoveSelf(t) ==
    /\ Step(t, "remove", IF t \in threads_ THEN "locked" ELSE "last")
    /\ m_ = NoThread
    /\ threads_' = threads_ \ {t}
    /\ m_' = Held(t)
    /\ IF Emptied(t) THEN Set(Empty) ELSE UNCHANGED signaled_
    /\ UNCHANGED asleep
Unlock(t) ==
    /\ Step(t, "locked", "last")
    /\ m_' = NoThread
    /\ IF signaled_[Empty] THEN Notify(Empty) ELSE UNCHANGED asleep
    /\ UNCHANGED <<signaled_, threads_>>

\* pThis.reset(): a thread that destroys itself detaches.
Exit(t) == Step(t, "last", "exited") /\ UNCHANGED <<signaled_, asleep, threads_, m_>>

-----------------------------------------------------------------------------
(* The owner: create and launch, request_shutdown_all, join_all, ~ThreadGroup *)

Own(from, to) == pc = from /\ pc' = to /\ UNCHANGED tpc

Launch(t, auto) ==
    /\ pc = "idle" /\ tpc[t] = "none"
    /\ pc' = "add" /\ cur' = t /\ Tpc(t, "new")
    /\ auto_remove_' = [auto_remove_ EXCEPT ![t] = auto]
    /\ UNCHANGED <<signaled_, asleep, shutdown_requested_, threads_, m_, working_set, refused, reported>>

\* After the thread has started: "so there's not a zombie thread in the thread group".
add_thread ==
    LET duplicate == DuplicateNames /\ threads_ /= {} IN
    /\ Own("add", "ready") /\ m_ = NoThread
    /\ IF duplicate
       THEN /\ shutdown_requested_' = [shutdown_requested_ EXCEPT ![cur] = TRUE]
            /\ UNCHANGED <<threads_, signaled_>>
       ELSE /\ threads_' = threads_ \cup {cur}
            /\ Reset(Empty)
            /\ UNCHANGED shutdown_requested_
    /\ refused' = IF duplicate THEN refused \cup {cur} ELSE refused
    /\ UNCHANGED <<asleep, auto_remove_, m_, cur, working_set, reported>>

WaitReady == Own("ready", "readySleep") /\ WaitFor(Ready(cur))
             /\ UNCHANGED <<flags, threads_, m_, cur, working_set, refused, reported>>
SignalStart ==
    /\ \/ Own("ready", "started") /\ signaled_[Ready(cur)]
       \/ Own("readySleep", "started") /\ ~asleep[Ready(cur)]
    /\ Set(Start(cur))
    /\ UNCHANGED <<asleep, flags, threads_, m_, cur, working_set, refused, reported>>
\* launch returns whether there is a std::thread: always.
NotifyStart ==
    /\ Own("started", "idle") /\ Notify(Start(cur)) /\ cur' = NoThread
    /\ reported' = reported \cup {cur}
    /\ UNCHANGED <<signaled_, flags, threads_, m_, working_set, refused>>

\* Called by the owner, or first thing of the destructor, which makes all joinable
\* and which an exception out of join_all may lead to.
request_shutdown_all(make_all_joinable, to) ==
    /\ Own("idle", to) \/ (to = "destructor" /\ Own("thrown", to))
    /\ m_ = NoThread
    /\ shutdown_requested_' = [t \in Threads |-> shutdown_requested_[t] \/ t \in threads_]
    /\ auto_remove_' = [t \in Threads |-> auto_remove_[t] /\ ~(make_all_joinable /\ t \in threads_)]
    /\ UNCHANGED <<signaled_, asleep, threads_, m_, cur, working_set, refused, reported>>

\* "join" is followed by the rest of join_all and back; "destroy" by the end of the group.
ToJoin == {t \in threads_ : ~auto_remove_[t]}

join_all(from, to) ==
    /\ Own(from, to) /\ m_ = NoThread
    /\ working_set' = ToJoin
    /\ UNCHANGED <<signaled_, asleep, flags, threads_, m_, cur, refused, reported>>

Joining == {"join", "destroy"}

\* std::thread::join.
internal_join(t) == tpc[t] = "exited"

\* thrd->join(); remove_thread(thrd).
JoinOne(t) ==
    /\ pc \in Joining /\ t \in working_set /\ internal_join(t) /\ m_ = NoThread
    /\ working_set' = working_set \ {t}
    /\ threads_' = threads_ \ {t}
    /\ IF threads_ = {t} THEN Set(Empty) ELSE UNCHANGED signaled_
    /\ UNCHANGED <<asleep, flags, m_, tpc, pc, cur, refused, reported>>

WaitEmpty ==
    /\ pc \in Joining /\ working_set = {} /\ WaitFor(Empty)
    /\ pc' = IF pc = "join" THEN "joinSleep" ELSE "destroySleep"
    /\ UNCHANGED <<flags, threads_, m_, tpc, cur, working_set, refused, reported>>

\* CHECK_EQ(threads_.size(), 0): it throws, out of the destructor to terminate.
Joined ==
    /\ \/ pc \in Joining /\ working_set = {} /\ signaled_[Empty]
       \/ pc \in {"joinSleep", "destroySleep"} /\ ~asleep[Empty]
    /\ pc' = IF pc \in {"join", "joinSleep"}
             THEN IF threads_ /= {} THEN "thrown" ELSE "idle"
             ELSE IF threads_ /= {} THEN "aborted" ELSE "gone"
    /\ UNCHANGED <<signaled_, asleep, flags, threads_, m_, tpc, cur, working_set, refused, reported>>

-----------------------------------------------------------------------------
Init ==
    /\ signaled_ = [e \in Events |-> e = Empty] /\ asleep = [e \in Events |-> FALSE]
    /\ auto_remove_ = [t \in Threads |-> FALSE] /\ shutdown_requested_ = auto_remove_
    /\ threads_ = {} /\ m_ = NoThread /\ tpc = [t \in Threads |-> "none"]
    /\ pc = "idle" /\ cur = NoThread /\ working_set = {} /\ refused = {} /\ reported = {}

ThreadStep(t) ==
    SignalReady(t) \/ NotifyReady(t) \/ WaitStart(t) \/ Started(t) \/ Run(t) \/ AutoRemove(t)
        \/ RemoveSelf(t) \/ Unlock(t) \/ Exit(t)

OwnerStep ==
    \/ add_thread \/ WaitReady \/ SignalStart \/ NotifyStart
    \/ join_all("destructor", "destroy")
    \/ (\E t \in Threads : JoinOne(t)) \/ WaitEmpty \/ Joined

Next ==
    \/ \E t \in Threads : ThreadStep(t)
    \/ OwnerStep
    \/ \E t \in Threads, auto \in BOOLEAN : Launch(t, auto)
    \/ \E make \in BOOLEAN : request_shutdown_all(make, "idle")
    \/ join_all("idle", "join")
    \/ request_shutdown_all(TRUE, "destructor")
    \/ \E e \in Events : Spurious(e)

\* The threads run, and the owner goes on with what it has begun.
Spec == Init /\ [][Next]_vars /\ WF_vars(OwnerStep) /\ \A t \in Threads : WF_vars(ThreadStep(t))

-----------------------------------------------------------------------------
TypeOK ==
    /\ threads_ \subseteq Threads /\ working_set \subseteq Threads /\ m_ \in Threads \cup {NoThread}
    /\ \A t \in Threads : tpc[t] = "none" => t \notin threads_ /\ ~signaled_[Ready(t)]

\* evEmpty_ tells the truth whenever m_ is free, whichever of add_thread,
\* remove_thread and join_all changed the set last.
EmptyIsSignaled == m_ = NoThread => (signaled_[Empty] <=> threads_ = {})

\* join_all returns only when the group is empty: its CHECK_EQ(threads_.size(), 0)
\* never fails. A spurious wakeup of its wait refutes it.
JoinsAll == pc \notin {"thrown", "aborted"}

\* join_all joins every thread that does not remove itself, whatever wakes it up:
\* those it leaves behind when its check fails are auto-remove threads, so that the
\* destructor, which made all of them joinable, never depends on the wait for
\* evEmpty_, nor on how that ends, and its check never fails.
JoinsJoinable ==
    /\ pc = "thrown" => \A t \in threads_ : auto_remove_[t]
    /\ pc \notin {"destroySleep", "aborted"}

\* A thread that still has to call remove_thread has its group: the destructor
\* has joined or waited for it although the thread read auto_remove_ before the
\* destructor cleared it.
GroupOutlives == pc = "gone" => \A t \in Threads : tpc[t] \in {"none", "last", "exited"}

\* "All child threads will be exited when this destructor completes."
AllExited == pc = "gone" => \A t \in Threads : tpc[t] \in {"none", "exited"}

\* launch: "true if the thread was successfully created and added to the ThreadGroup".
LaunchReports == reported \cap refused = {}

-----------------------------------------------------------------------------
(* Proofs, for any number of threads. *)

Pcs == {"idle", "add", "ready", "readySleep", "started", "join", "joinSleep", "destructor",
        "thrown", "destroy", "destroySleep", "gone", "aborted"}
Tpcs == {"none", "new", "notify", "wait", "sleep", "run", "ran", "remove", "locked", "last", "exited"}
Launching == {"add", "ready", "readySleep", "started"}

\* Before a thread has called remove_thread, if it does.
Running == {"new", "notify", "wait", "sleep", "run", "ran", "remove"}

Types ==
    /\ signaled_ \in [Events -> BOOLEAN] /\ asleep \in [Events -> BOOLEAN]
    /\ auto_remove_ \in [Threads -> BOOLEAN]
    /\ threads_ \subseteq Threads /\ working_set \subseteq Threads /\ m_ \in Threads \cup {NoThread}
    /\ tpc \in [Threads -> Tpcs] /\ pc \in Pcs
    /\ pc \in Launching => cur \in Threads /\ tpc[cur] /= "none"

NotYet == \A t \in Threads : tpc[t] = "none" => t \notin threads_ /\ ~signaled_[Ready(t)]

\* evEmpty_ is signalled with m_ held, so that it tells the truth at once.
EmptyTrue == signaled_[Empty] <=> threads_ = {}

Inv == Types /\ NotYet /\ EmptyTrue

\* From the destructor on all threads of the group are to be joined, and join_all
\* misses none of them.
AllJoinable == pc = "destructor" => \A t \in threads_ : ~auto_remove_[t]
ToBeJoined ==
    /\ pc \in {"join", "joinSleep", "thrown"} => \A t \in threads_ : t \in working_set \/ auto_remove_[t]
    /\ pc \in {"destroy", "destroySleep"} => threads_ \subseteq working_set
NoneToJoin == pc \in {"joinSleep", "thrown", "destroySleep", "gone"} => working_set = {}
JoinInv == AllJoinable /\ ToBeJoined /\ NoneToJoin /\ JoinsJoinable

\* A thread is in the group until it has removed itself or was joined, so that only
\* one that has removed itself is not to be joined.
Locked == \A t \in Threads : tpc[t] = "locked" => m_ = t
Member == \A t \in Threads : tpc[t] \in Running => t \in threads_ \/ (pc = "add" /\ cur = t)
Awaited ==
    pc \in {"destroy", "destroySleep", "gone"} =>
        \A t \in Threads : tpc[t] \in Running \cup {"locked"} => t \in working_set
GroupInv == Locked /\ Member /\ Awaited

LEMMA EventsDiffer ==
    ASSUME NEW t \in Threads
    PROVE  /\ Ready(t) \in Events /\ Start(t) \in Events /\ Empty \in Events
           /\ Ready(t) /= Empty /\ Start(t) /= Empty
           /\ \A u \in Threads : Ready(t) /= Start(u) /\ (Ready(t) = Ready(u) => t = u)
  BY DEF Ready, Start, Empty, Events

\* The steps, by what they change.
LEMMA InvStep == Inv /\ [Next]_vars => Inv'
<1> SUFFICES ASSUME Inv, [Next]_vars PROVE Inv'
  OBVIOUS
<1> USE DEF Inv
<1>e. /\ \A t \in Threads :
            /\ Ready(t) \in Events /\ Start(t) \in Events
            /\ Ready(t) /= Empty /\ Start(t) /= Empty
            /\ \A u \in Threads : Ready(t) /= Start(u) /\ (Ready(t) = Ready(u) => t = u)
      /\ Empty \in Events
  <2>1. Empty \in Events
    BY DEF Events
  <2> QED BY <2>1, EventsDiffer
<1>1. ASSUME NEW t \in Threads, ThreadStep(t) PROVE Inv'
  <2>1. CASE SignalReady(t)
    BY <1>e, <2>1
       DEF SignalReady, Step, Tpc, Set, flags, owner, Types, NotYet, EmptyTrue, Tpcs, Launching
  <2>2. CASE NotifyReady(t)
    BY <1>e, <2>2
       DEF NotifyReady, Step, Tpc, Notify, flags, owner, Types, NotYet, EmptyTrue, Tpcs, Launching
  <2>3. CASE WaitStart(t)
    BY <1>e, <2>3
       DEF WaitStart, WaitFor, Step, Tpc, flags, owner, Types, NotYet, EmptyTrue, Tpcs, Launching
  <2>4. CASE Started(t)
    <3>1. /\ tpc[t] /= "none" /\ tpc' = [tpc EXCEPT ![t] = "run"]
          /\ signaled_' = [signaled_ EXCEPT ![Start(t)] = FALSE]
          /\ UNCHANGED <<asleep, threads_, m_, flags, owner>>
      BY <2>4 DEF Started, Reset, Step, Tpc
    <3> QED BY <1>e, <3>1 DEF flags, owner, Types, NotYet, EmptyTrue, Tpcs, Launching
  <2>5. CASE Run(t)
    BY <1>e, <2>5 DEF Run, Step, Tpc, flags, owner, Types, NotYet, EmptyTrue, Tpcs, Launching
  <2>6. CASE AutoRemove(t)
    BY <1>e, <2>6
       DEF AutoRemove, Step, Tpc, flags, owner, Types, NotYet, EmptyTrue, Tpcs, Launching
  <2>7. CASE RemoveSelf(t)
    <3>1. /\ tpc[t] = "remove" /\ tpc' = [tpc EXCEPT ![t] = IF t \in threads_ THEN "locked" ELSE "last"]
          /\ m_' = (IF t \in threads_ THEN t ELSE m_) /\ threads_' = threads_ \ {t}
          /\ signaled_' = IF threads_ = {t} THEN [signaled_ EXCEPT ![Empty] = TRUE] ELSE signaled_
          /\ UNCHANGED <<asleep, flags, owner>>
      BY <2>7 DEF RemoveSelf, Emptied, Held, Set, Step, Tpc
    <3>2. EmptyTrue' /\ signaled_' \in [Events -> BOOLEAN]
      BY <1>e, <3>1 DEF Types, EmptyTrue
    <3>3. NotYet'
      BY <1>e, <3>1 DEF Types, NotYet
    <3>4. Types'
      BY <3>1, <3>2 DEF Types, flags, owner, Tpcs, Launching
    <3> QED BY <3>2, <3>3, <3>4
  <2>8. CASE Unlock(t)
    <3>1. /\ tpc[t] = "locked" /\ tpc' = [tpc EXCEPT ![t] = "last"] /\ m_' = NoThread
          /\ UNCHANGED <<signaled_, threads_, flags, owner>>
      BY <2>8 DEF Unlock, Step, Tpc
    <3>2. asleep' \in [Events -> BOOLEAN]
      BY Zenon, <2>8 DEF Unlock, Notify, Types
    <3> QED BY <1>e, <3>1, <3>2 DEF flags, owner, Types, NotYet, EmptyTrue, Tpcs, Launching
  <2>9. CASE Exit(t)
    BY <1>e, <2>9 DEF Exit, Step, Tpc, flags, owner, Types, NotYet, EmptyTrue, Tpcs, Launching
  <2> QED BY <1>1, <2>1, <2>2, <2>3, <2>4, <2>5, <2>6, <2>7, <2>8, <2>9 DEF ThreadStep
<1>2. ASSUME OwnerStep PROVE Inv'
  <2>1. CASE add_thread
    <3>1. /\ pc = "add" /\ pc' = "ready"
          /\ \/ signaled_' = signaled_ /\ threads_' = threads_
             \/ signaled_' = [signaled_ EXCEPT ![Empty] = FALSE] /\ threads_' = threads_ \cup {cur}
          /\ UNCHANGED <<asleep, auto_remove_, m_, tpc, cur, working_set>>
      BY <2>1 DEF add_thread, Own, Reset
    <3>2. EmptyTrue' /\ signaled_' \in [Events -> BOOLEAN]
      BY Zenon, <1>e, <3>1 DEF Types, EmptyTrue
    <3>3. NotYet'
      BY <1>e, <3>1 DEF Types, NotYet, Launching
    <3>4. Types'
      BY <3>1, <3>2 DEF Types, Pcs, Launching
    <3> QED BY <3>2, <3>3, <3>4
  <2>2. CASE WaitReady
    BY <1>e, <2>2 DEF WaitReady, WaitFor, Own, flags, Types, NotYet, EmptyTrue, Pcs, Launching
  <2>3. CASE SignalStart
    <3>1. /\ pc \in Launching /\ pc' = "started"
          /\ signaled_' = [signaled_ EXCEPT ![Start(cur)] = TRUE]
          /\ UNCHANGED <<asleep, flags, threads_, m_, tpc, cur, working_set>>
      BY <2>3 DEF SignalStart, Set, Own, Launching
    <3> QED BY <1>e, <3>1 DEF flags, Types, NotYet, EmptyTrue, Pcs, Launching
  <2>4. CASE NotifyStart
    BY <1>e, <2>4 DEF NotifyStart, Notify, Own, flags, Types, NotYet, EmptyTrue, Pcs, Launching
  <2>5. CASE join_all("destructor", "destroy")
    BY <1>e, <2>5 DEF join_all, ToJoin, Own, flags, Types, NotYet, EmptyTrue, Pcs, Launching
  <2>6. ASSUME NEW t \in Threads, JoinOne(t) PROVE Inv'
    <3>1. /\ pc \in Joining /\ working_set' = working_set \ {t} /\ threads_' = threads_ \ {t}
          /\ signaled_' = IF threads_ = {t} THEN [signaled_ EXCEPT ![Empty] = TRUE] ELSE signaled_
          /\ UNCHANGED <<asleep, auto_remove_, m_, tpc, pc, cur>>
      BY <2>6 DEF JoinOne, Set, flags
    <3>2. EmptyTrue' /\ signaled_' \in [Events -> BOOLEAN]
      BY <1>e, <3>1 DEF Types, EmptyTrue
    <3>3. NotYet'
      BY <1>e, <3>1 DEF Types, NotYet
    <3>4. Types'
      BY <3>1, <3>2 DEF Types, Joining, Launching
    <3> QED BY <3>2, <3>3, <3>4
  <2>7. CASE WaitEmpty
    BY <1>e, <2>7 DEF WaitEmpty, WaitFor, flags, Types, NotYet, EmptyTrue, Pcs, Launching
  <2>8. CASE Joined
    BY <1>e, <2>8 DEF Joined, flags, Types, NotYet, EmptyTrue, Pcs, Launching
  <2> QED BY <1>2, <2>1, <2>2, <2>3, <2>4, <2>5, <2>6, <2>7, <2>8 DEF OwnerStep
<1>3. ASSUME NEW t \in Threads, NEW auto \in BOOLEAN, Launch(t, auto) PROVE Inv'
  BY <1>e, <1>3 DEF Launch, Tpc, Types, NotYet, EmptyTrue, Pcs, Tpcs, Launching
<1>4. ASSUME NEW make \in BOOLEAN, NEW to \in {"idle", "destructor"}, request_shutdown_all(make, to)
      PROVE  Inv'
  BY <1>e, <1>4 DEF request_shutdown_all, Own, Types, NotYet, EmptyTrue, Pcs, Launching
<1>5. CASE join_all("idle", "join")
  BY <1>e, <1>5 DEF join_all, ToJoin, Own, flags, Types, NotYet, EmptyTrue, Pcs, Launching
<1>6. ASSUME NEW e \in Events, Spurious(e) PROVE Inv'
  BY <1>e, <1>6 DEF Spurious, Notify, flags, owner, Types, NotYet, EmptyTrue, Launching
<1>7. CASE UNCHANGED vars
  BY <1>7 DEF vars, Types, NotYet, EmptyTrue
<1> QED BY Zenon, <1>1, <1>2, <1>3, <1>4, <1>5, <1>6, <1>7 DEF Next

\* Threads leave the group, and none joins it while the owner joins them.
LEMMA JoinStep == Inv /\ JoinInv /\ [Next]_vars => JoinInv'
<1> SUFFICES ASSUME Inv, JoinInv, [Next]_vars PROVE JoinInv'
  OBVIOUS
<1> USE DEF JoinInv, AllJoinable, ToBeJoined, NoneToJoin, JoinsJoinable
<1>1. ASSUME NEW t \in Threads, ThreadStep(t) PROVE JoinInv'
  <2>1. threads_' \subseteq threads_ /\ UNCHANGED <<auto_remove_, pc, working_set>>
    BY <1>1 DEF ThreadStep, SignalReady, NotifyReady, WaitStart, Started, Run, AutoRemove, RemoveSelf,
                Unlock, Exit, Step, flags, owner
  <2> QED BY <2>1
<1>2. ASSUME OwnerStep PROVE JoinInv'
  <2>1. CASE add_thread \/ WaitReady \/ SignalStart \/ NotifyStart
    <3>1. pc' \in {"ready", "readySleep", "started", "idle"}
      BY <2>1 DEF add_thread, WaitReady, SignalStart, NotifyStart, Own
    <3> QED BY <3>1
  <2>2. CASE join_all("destructor", "destroy")
    BY <2>2 DEF join_all, Own, ToJoin
  <2>3. ASSUME NEW t \in Threads, JoinOne(t) PROVE JoinInv'
    <3>1. /\ pc \in Joining /\ working_set' = working_set \ {t} /\ threads_' = threads_ \ {t}
          /\ UNCHANGED <<auto_remove_, pc>>
      BY <2>3 DEF JoinOne, flags
    <3> QED BY <3>1 DEF Joining
  <2>4. CASE WaitEmpty
    <3>1. /\ pc \in Joining /\ working_set = {} /\ ~signaled_[Empty]
          /\ pc' = (IF pc = "join" THEN "joinSleep" ELSE "destroySleep")
          /\ UNCHANGED <<auto_remove_, threads_, working_set>>
      BY <2>4 DEF WaitEmpty, WaitFor, flags
    <3>2. threads_ /= {}
      BY <3>1 DEF Inv, EmptyTrue
    <3>3. pc = "join"
      BY <3>1, <3>2 DEF Joining
    <3> QED BY <3>1, <3>3
  <2>5. CASE Joined
    <3>1. /\ pc \in {"join", "destroy"} => working_set = {}
          /\ pc \in {"join", "joinSleep", "destroy", "destroySleep"}
          /\ pc' = IF pc \in {"join", "joinSleep"}
                   THEN IF threads_ /= {} THEN "thrown" ELSE "idle"
                   ELSE IF threads_ /= {} THEN "aborted" ELSE "gone"
          /\ UNCHANGED <<auto_remove_, threads_, working_set>>
      BY <2>5 DEF Joined, Joining, flags
    <3> QED BY <3>1
  <2> QED BY <1>2, <2>1, <2>2, <2>3, <2>4, <2>5 DEF OwnerStep
<1>3. ASSUME NEW t \in Threads, NEW auto \in BOOLEAN, Launch(t, auto) PROVE JoinInv'
  BY <1>3 DEF Launch
<1>4. ASSUME NEW make \in BOOLEAN, request_shutdown_all(make, "idle") PROVE JoinInv'
  BY <1>4 DEF request_shutdown_all, Own
<1>5. CASE request_shutdown_all(TRUE, "destructor")
  <2>1. /\ pc' = "destructor" /\ threads_' = threads_
        /\ auto_remove_' = [t \in Threads |-> auto_remove_[t] /\ ~(TRUE /\ t \in threads_)]
    BY <1>5, Zenon DEF request_shutdown_all, Own
  <2>2. ASSUME NEW t \in threads_' PROVE ~auto_remove_'[t]
    <3>1. t \in Threads /\ t \in threads_
      BY <2>1, <2>2, Zenon DEF Inv, Types
    <3> QED BY <2>1, <3>1, Zenon
  <2> QED BY <2>1, <2>2, Zenon
<1>6. CASE join_all("idle", "join")
  BY <1>6 DEF join_all, Own, ToJoin, flags
<1>7. ASSUME NEW e \in Events, Spurious(e) PROVE JoinInv'
  BY <1>7 DEF Spurious, flags, owner
<1>8. CASE UNCHANGED vars
  BY <1>8 DEF vars
<1> QED BY Zenon, <1>1, <1>2, <1>3, <1>4, <1>5, <1>6, <1>7, <1>8 DEF Next

\* With names of their own, no thread is refused by the group.
LEMMA GroupStep ==
    ~DuplicateNames /\ NoThread \notin Threads /\ Inv /\ JoinInv /\ GroupInv /\ [Next]_vars => GroupInv'
<1> SUFFICES ASSUME ~DuplicateNames, NoThread \notin Threads, Inv, JoinInv, GroupInv, [Next]_vars
             PROVE  GroupInv'
  OBVIOUS
<1> USE DEF Inv, GroupInv, Types
<1>1. ASSUME NEW t \in Threads, ThreadStep(t) PROVE GroupInv'
  <2>1. CASE RemoveSelf(t)
    <3>1. /\ tpc[t] = "remove" /\ tpc' = [tpc EXCEPT ![t] = IF t \in threads_ THEN "locked" ELSE "last"]
          /\ m_ = NoThread /\ m_' = (IF t \in threads_ THEN t ELSE m_) /\ threads_' = threads_ \ {t}
          /\ UNCHANGED <<auto_remove_, pc, cur, working_set>>
      BY <2>1 DEF RemoveSelf, Step, Tpc, Held, flags, owner
    <3> QED BY <3>1 DEF Locked, Member, Awaited, Running
  <2>2. CASE Unlock(t)
    <3>1. /\ tpc[t] = "locked" /\ tpc' = [tpc EXCEPT ![t] = "last"] /\ m_' = NoThread
          /\ UNCHANGED <<auto_remove_, pc, cur, working_set, threads_>>
      BY <2>2 DEF Unlock, Step, Tpc, flags, owner
    <3> QED BY <3>1 DEF Locked, Member, Awaited, Running
  <2>3. CASE ~RemoveSelf(t) /\ ~Unlock(t)
    <3>1. PICK l \in Running \cup {"last", "exited"} : tpc' = [tpc EXCEPT ![t] = l]
      BY <1>1, <2>3 DEF ThreadStep, SignalReady, NotifyReady, WaitStart, Started, Run, AutoRemove,
                        Exit, Step, Tpc, Running
    <3>2. /\ l \in Running => tpc[t] \in Running
          /\ tpc[t] /= "locked"
          /\ UNCHANGED <<auto_remove_, pc, cur, working_set, threads_, m_>>
      BY <1>1, <2>3, <3>1
         DEF ThreadStep, SignalReady, NotifyReady, WaitStart, Started, Run, AutoRemove,
                        Exit, Step, Tpc, Running, flags, owner
    <3> QED BY <3>1, <3>2 DEF Locked, Member, Awaited, Running
  <2> QED BY <2>1, <2>2, <2>3
<1>2. ASSUME OwnerStep PROVE GroupInv'
  <2>1. CASE add_thread
    BY <2>1 DEF add_thread, Own, Locked, Member, Awaited
  <2>2. CASE WaitReady \/ SignalStart \/ NotifyStart
    <3>1. /\ pc /= "add" /\ pc' \in {"readySleep", "started", "idle"}
          /\ UNCHANGED <<auto_remove_, tpc, working_set, threads_, m_>>
      BY <2>2 DEF WaitReady, SignalStart, NotifyStart, Own, flags
    <3> QED BY <3>1 DEF Locked, Member, Awaited
  <2>3. CASE join_all("destructor", "destroy")
    <3>1. /\ pc = "destructor" /\ pc' = "destroy" /\ m_ = NoThread /\ working_set' = threads_
          /\ UNCHANGED <<auto_remove_, tpc, threads_, m_>>
      BY <2>3 DEF join_all, Own, ToJoin, flags, JoinInv, AllJoinable
    <3>2. Awaited'
      BY <3>1 DEF Awaited, Locked, Member, Running
    <3> QED BY <3>1, <3>2 DEF Locked, Member
  <2>4. ASSUME NEW t \in Threads, JoinOne(t) PROVE GroupInv'
    <3>1. /\ tpc[t] = "exited" /\ pc \in Joining /\ working_set' = working_set \ {t}
          /\ threads_' = threads_ \ {t}
          /\ UNCHANGED <<auto_remove_, tpc, m_, pc, cur>>
      BY <2>4 DEF JoinOne, internal_join, flags
    <3> QED BY <3>1 DEF Locked, Member, Awaited, Joining, Running
  <2>5. CASE WaitEmpty
    <3>1. /\ pc \in Joining /\ working_set = {}
          /\ pc' = (IF pc = "join" THEN "joinSleep" ELSE "destroySleep")
          /\ UNCHANGED <<auto_remove_, tpc, m_, threads_, working_set, cur>>
      BY <2>5 DEF WaitEmpty, flags
    <3> QED BY <3>1 DEF Locked, Member, Awaited, Joining
  <2>6. CASE Joined
    <3>1. /\ pc \in {"join", "destroy"} => working_set = {}
          /\ pc \in {"join", "joinSleep", "destroy", "destroySleep"}
          /\ pc' \in {"thrown", "idle", "aborted"} \/ (pc \in {"destroy", "destroySleep"} /\ pc' = "gone")
          /\ UNCHANGED <<auto_remove_, tpc, m_, threads_, working_set, cur>>
      BY <2>6 DEF Joined, Joining, flags
    <3> QED BY <3>1 DEF Locked, Member, Awaited
  <2> QED BY <1>2, <2>1, <2>2, <2>3, <2>4, <2>5, <2>6 DEF OwnerStep
<1>3. ASSUME NEW t \in Threads, NEW auto \in BOOLEAN, Launch(t, auto) PROVE GroupInv'
  BY <1>3 DEF Launch, Tpc, Locked, Member, Awaited
<1>4. ASSUME NEW make \in BOOLEAN, request_shutdown_all(make, "idle") PROVE GroupInv'
  BY <1>4 DEF request_shutdown_all, Own, Locked, Member, Awaited
<1>5. CASE request_shutdown_all(TRUE, "destructor")
  BY Zenon, <1>5 DEF request_shutdown_all, Own, Locked, Member, Awaited
<1>6. CASE join_all("idle", "join")
  BY <1>6 DEF join_all, Own, flags, Locked, Member, Awaited
<1>7. ASSUME NEW e \in Events, Spurious(e) PROVE GroupInv'
  BY <1>7 DEF Spurious, flags, owner, Locked, Member, Awaited
<1>8. CASE UNCHANGED vars
  BY <1>8 DEF vars, Locked, Member, Awaited
<1> QED BY Zenon, <1>1, <1>2, <1>3, <1>4, <1>5, <1>6, <1>7, <1>8 DEF Next

LEMMA InvInit == Init => Inv /\ JoinInv /\ GroupInv
<1> SUFFICES ASSUME Init PROVE Inv /\ JoinInv /\ GroupInv
  OBVIOUS
<1>1. /\ \A t \in Threads : Ready(t) \in Events /\ Ready(t) /= Empty
      /\ Empty \in Events
  <2>1. Empty \in Events
    BY DEF Events
  <2> QED BY <2>1, EventsDiffer
<1>2. Types /\ NotYet /\ EmptyTrue
  BY Zenon, <1>1 DEF Init, Types, NotYet, EmptyTrue, Pcs, Tpcs, Launching
<1>3. JoinInv
  BY DEF Init, JoinInv, AllJoinable, ToBeJoined, NoneToJoin, JoinsJoinable
<1>4. GroupInv
  BY DEF Init, GroupInv, Locked, Member, Awaited, Running
<1> QED BY <1>2, <1>3, <1>4 DEF Inv

---------------------------------------------------------------------------

\* The group and its threads keep their types.
THEOREM TypeCorrect == Spec => []TypeOK
<1>1. Inv => TypeOK
  BY DEF Inv, Types, NotYet, TypeOK
<1> QED BY <1>1, InvInit, InvStep, PTL DEF Spec

\* evEmpty_ is signalled exactly when the group is empty, whichever of
\* add_thread, remove_thread and join_all changed it, spurious wakeups and
\* refused threads included.
THEOREM EmptySignaled == Spec => []EmptyIsSignaled
<1>1. Inv => EmptyIsSignaled
  BY DEF Inv, EmptyTrue, EmptyIsSignaled
<1> QED BY <1>1, InvInit, InvStep, PTL DEF Spec

\* However its waits end, join_all has joined all threads but auto-remove ones, and
\* the destructor all of the group: its CHECK_EQ(threads_.size(), 0) never fails,
\* also when it runs because the check of an earlier join_all threw. Spurious
\* wakeups, refused threads and any number of threads are included.
THEOREM DestructorJoins == Spec => []JoinsJoinable
<1>1. JoinInv => JoinsJoinable
  BY DEF JoinInv
<1> QED BY <1>1, InvInit, InvStep, JoinStep, PTL DEF Spec

\* The group outlives every call of remove_thread by its threads, also that of a
\* thread which read auto_remove_ before the destructor cleared it, for threads
\* with names of their own.
THEOREM OutlivesRemovals ==
    ~DuplicateNames /\ NoThread \notin Threads => (Spec => []GroupOutlives)
<1> SUFFICES ASSUME ~DuplicateNames, NoThread \notin Threads PROVE Spec => []GroupOutlives
  OBVIOUS
<1>1. Inv /\ JoinInv /\ GroupInv /\ [Next]_vars => GroupInv'
  BY GroupStep
<1>2. Inv /\ JoinInv /\ GroupInv => GroupOutlives
  BY DEF Inv, Types, JoinInv, NoneToJoin, GroupInv, Awaited, GroupOutlives, Running, Tpcs
<1> QED BY <1>1, <1>2, InvInit, InvStep, JoinStep, PTL DEF Spec
=============================================================================
