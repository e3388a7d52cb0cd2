---------------------------- MODULE OpencvThreads ----------------------------
(***************************************************************************)
(* create_opencv_threads: all threads that OpenCV will ever need are made   *)
(* while the signals are blocked, by a parallel loop whose bodies wait for  *)
(* each other.  A thread inherits the blocked signals of its maker; one     *)
(* made later would take signals that no Perl interpreter of it handles.    *)
(* The thread pool of OpenCV is external: a body runs on any free thread,   *)
(* and a thread is made when a body needs one, up to the limits.            *)
(***************************************************************************)
EXTENDS Integers, FiniteSets, FiniteSetsExt

CONSTANTS
  Main,               \* the thread of the Perl interpreter
  Workers,            \* threads the pool could make
  Requests,           \* arguments of create_threads; -1 is the default
  NumThreads,         \* cv::getNumThreads() before
  NumberOfCPUs,
  SpuriousWakeups     \* whether wait() may return without a notification

ASSUME ThreadsAssumption == Main \notin Workers /\ IsFiniteSet(Workers)
ASSUME NumbersAssumption ==
  NumThreads \in Nat \ {0} /\ NumberOfCPUs \in Nat \ {0} /\ Requests \subseteq Int

VARIABLES
  step,               \* where the Perl code is
  request,
  thread_count,
  blocked,            \* whether the signals are blocked in Main
  pool,               \* the workers made so far
  exposed,            \* those of them made while signals were not blocked
  bodies,             \* bodies of a parallel loop that no thread has taken yet
  pc,                 \* pc[t]: where the thread is in the body
  threads_spawned

vars == <<step, request, thread_count, blocked, pool, exposed, bodies, pc, threads_spawned>>

Threads == Workers \cup {Main}
At(place) == {t \in Threads : pc[t] = place}

TypeOK ==
  /\ step \in {"start", "loop", "returned", "running", "search"}
  /\ request \in Requests
  /\ thread_count \in Int
  /\ blocked \in BOOLEAN
  /\ pool \subseteq Workers
  /\ exposed \subseteq pool
  /\ bodies \in Int
  /\ pc \in [Threads -> {"free", "lock", "waiting", "woken"}]
  /\ threads_spawned \in Nat

Init ==
  /\ step = "start"
  /\ request \in Requests
  /\ thread_count = 0
  /\ blocked = FALSE
  /\ pool = {}
  /\ exposed = {}
  /\ bodies = 0
  /\ pc = [t \in Threads |-> "free"]
  /\ threads_spawned = 0
-----------------------------------------------------------------------------
AtLeastOne(n) == IF n < 1 THEN 1 ELSE n
Least(m, n) == IF m < n THEN m ELSE n

\* Mutant: the soft limit of the library is forgotten.
DefaultThreadCount_bug == AtLeastOne(Least(NumThreads, NumberOfCPUs))

\* opencv_default_thread_count
DefaultThreadCount == AtLeastOne(Least(NumThreads, NumberOfCPUs - 1))

\* External, the 'soft limit': no more threads work at the same time.
SoftLimit == AtLeastOne(NumberOfCPUs - 1)

\* signalblocker->new, then create_opencv_threads up to the loop
Call ==
  /\ step = "start"
  /\ blocked' = TRUE
  /\ thread_count' = IF request < 0 THEN DefaultThreadCount ELSE request
  /\ bodies' = thread_count'
  /\ threads_spawned' = 0
  /\ step' = "loop"
  /\ UNCHANGED <<request, pool, exposed, pc>>

\* External: a worker that OpenCV may still make.
MayBeMade(t) ==
  /\ t \in Workers \ pool
  /\ Cardinality(pool) + 1 < Least(thread_count, SoftLimit)

Made(t) ==
  /\ pool' = pool \cup {t}
  /\ exposed' = IF blocked THEN exposed ELSE exposed \cup {t}

\* External: the pool's thread t, Main or a new one works for a parallel loop.
Joins(t) ==
  \/ t \in pool \cup {Main} /\ UNCHANGED <<pool, exposed>>
  \/ MayBeMade(t) /\ Made(t)

\* External: a thread of the loop takes the next body.
Take(t) ==
  /\ step = "loop"
  /\ bodies > 0
  /\ pc[t] = "free"
  /\ Joins(t)
  /\ bodies' = bodies - 1
  /\ pc' = [pc EXCEPT ![t] = "lock"]
  /\ UNCHANGED <<step, request, thread_count, blocked, threads_spawned>>

\* Mutant: the last but one thread releases the others.
IsLast_bug == threads_spawned + 1 >= thread_count - 1
IsLast == threads_spawned + 1 >= thread_count

\* The body, under the mutex: wait() gives it back.
Arrive(t) ==
  /\ pc[t] = "lock"
  /\ threads_spawned' = threads_spawned + 1
  /\ pc' = IF IsLast
             THEN [u \in Threads |->
                     IF u = t THEN "free"
                     ELSE IF pc[u] = "waiting" THEN "woken" ELSE pc[u]]
             ELSE [pc EXCEPT ![t] = "waiting"]
  /\ UNCHANGED <<step, request, thread_count, blocked, pool, exposed, bodies>>

\* wait() has no condition: a thread that wakes up leaves.
WakeUp(t) ==
  /\ pc[t] = "woken" \/ (SpuriousWakeups /\ pc[t] = "waiting")
  /\ pc' = [pc EXCEPT ![t] = "free"]
  /\ UNCHANGED <<step, request, thread_count, blocked, pool, exposed, bodies, threads_spawned>>

\* parallel_for_ returns when all bodies have.
LoopReturns ==
  /\ step = "loop"
  /\ bodies <= 0
  /\ At("free") = Threads
  /\ step' = "returned"
  /\ UNCHANGED <<request, thread_count, blocked, pool, exposed, bodies, pc, threads_spawned>>

\* The signal blocker is destroyed.
Unblock ==
  /\ step = "returned"
  /\ blocked' = FALSE
  /\ step' = "running"
  /\ UNCHANGED <<request, thread_count, pool, exposed, bodies, pc, threads_spawned>>

\* A call of OpenCV that works in parallel, as the comparison of search_needle
\* does, with as many stripes as there could be threads
Search ==
  /\ step = "running"
  /\ bodies' = Cardinality(Threads)
  /\ step' = "search"
  /\ UNCHANGED <<request, thread_count, blocked, pool, exposed, pc, threads_spawned>>

\* External: a stripe is done by a thread; nobody waits for another one.
TakeStripe(t) ==
  /\ step = "search"
  /\ bodies > 0
  /\ Joins(t)
  /\ bodies' = bodies - 1
  /\ UNCHANGED <<step, request, thread_count, blocked, pc, threads_spawned>>

SearchReturns ==
  /\ step = "search"
  /\ bodies = 0
  /\ step' = "running"
  /\ UNCHANGED <<request, thread_count, blocked, pool, exposed, bodies, pc, threads_spawned>>

ThreadStep(t) == Take(t) \/ Arrive(t) \/ WakeUp(t) \/ TakeStripe(t)

Next ==
  \/ Call \/ LoopReturns \/ Unblock \/ Search \/ SearchReturns
  \/ \E t \in Threads : ThreadStep(t)

\* The operating system runs every thread; the pool makes those it can.
Spec ==
  /\ Init /\ [][Next]_vars
  /\ WF_vars(Call \/ LoopReturns \/ Unblock \/ SearchReturns)
  /\ \A t \in Threads : WF_vars(Arrive(t)) /\ WF_vars(WakeUp(t))
  /\ WF_vars(\E t \in Threads : Take(t) \/ TakeStripe(t))
-----------------------------------------------------------------------------
\* 'keep the threads idling until the expected number of threads has been
\* spawned' (tinycv_impl.cc:371): who arrived is there until the last one comes.
AllBusyAtOnce ==
  step = "loop" /\ threads_spawned < thread_count
  => Cardinality(At("waiting")) = threads_spawned

\* 'at least N threads created' (t/28-signalblocker.t:54), Main being one.
PoolIsComplete ==
  step \in {"returned", "running", "search"} => Cardinality(pool) + 1 >= thread_count

\* 'those signals ... get delivered only to those threads which can handle it'
\* (signalblocker.pm:13): no thread of the pool was made without the blocker,
\* whatever is searched later.
SignalsBlocked == exposed = {}

\* With the default number the loop ends: not everyone waits for a thread that
\* is never made (tinycv_impl.cc:332). So does every search.
DefaultReturns == request < 0 ~> step = "running"
=============================================================================
