------------------------------- MODULE Threader -------------------------------
(***************************************************************************)
(* The global thread pool behind dlib::create_new_thread()                 *)
(* (threads/threads_kernel_shared.h and .cpp, class threader).             *)
(*                                                                         *)
(* A caller puts its function into the single place function_pointer and   *)
(* wakes a pooled thread or spawns a new one; whichever thread gets the    *)
(* mutex data_mutex first takes it.  A thread that has nothing to do       *)
(* sleeps on data_ready until it is signaled or its timeout has passed,    *)
(* then it ends.  When a function returns the thread calls the end         *)
(* handlers that were registered in it, outside all locks.                 *)
(*                                                                         *)
(* An action is what happens while data_mutex (or reg.m, for the handlers) *)
(* is held.  Functions are named by Jobs, each created at most once; a     *)
(* running function may create others, register and unregister handlers.   *)
(***************************************************************************)
EXTENDS Integers, FiniteSets

CONSTANTS
  Threads,        \* the threads the operating system can give the pool
  Clients,        \* threads it did not make
  Jobs, NoJob,
  Handlers, NoHandler

Callers == Clients \cup Threads

ASSUME ThreaderAssumption ==
  /\ IsFiniteSet(Threads) /\ Threads \cap Clients = {}
  /\ Clients # {}      \* main()
  /\ NoJob \notin Jobs /\ NoHandler \notin Handlers

VARIABLES
  thread_ids, total_count, pool_count, function_pointer, destruct,
  data_ready, data_empty, destructed,    \* who sleeps on each signaler
  reg,            \* the end handlers of each thread
  pc, job,        \* of the pool's threads
  calling,        \* the end handler a thread has removed from reg to call it
  creating,       \* the job for which a caller is inside create_new_thread()
  life,           \* of the threader
  accepted, refused, started, done, gone    \* history

shared == <<thread_ids, total_count, pool_count, function_pointer, destruct>>
sigs == <<data_ready, data_empty, destructed>>
handling == <<reg, calling, gone>>
outcome == <<accepted, refused>>
vars == <<shared, sigs, handling, pc, job, creating, life, outcome, started, done>>

Init ==
  /\ thread_ids = {} /\ total_count = 0 /\ pool_count = 0
  /\ function_pointer = NoJob /\ destruct = FALSE
  /\ data_ready = {} /\ data_empty = {} /\ destructed = {}
  /\ reg = [t \in Threads |-> {}]
  /\ pc = [t \in Threads |-> "none"]
  /\ job = [t \in Threads |-> NoJob]
  /\ calling = [t \in Threads |-> NoHandler]
  /\ creating = [c \in Callers |-> NoJob]
  /\ life = "alive"
  /\ accepted = {} /\ refused = {} /\ done = {} /\ gone = {}
  /\ started = [j \in Jobs |-> 0]

\* What the sleepers of a signaler can be after signal().
Signal(S) == IF S = {} THEN {S} ELSE {S \ {t} : t \in S}

\* x runs code of a client or of a job, outside create_new_thread().
InUserCode(x) ==
  /\ creating[x] = NoJob
  /\ IF x \in Threads THEN pc[x] = "running" ELSE life = "alive"

-----------------------------------------------------------------------------
(* create_new_thread() *)

CreateSleeps(x, j) ==
  /\ function_pointer # NoJob
  /\ data_empty' = data_empty \cup {x}
  /\ creating' = [creating EXCEPT ![x] = j]
  /\ UNCHANGED <<shared, data_ready, pc, outcome>>

\* What is left in the place when no thread could be spawned for j.
\* Mutant: it is not cleared.
PlaceAfterFailureMutant(j) == j
PlaceAfterFailure(j) == NoJob

\* Nobody is in the pool: a thread is spawned, if the system gives one.
CreateSpawns(x, j) ==
  /\ function_pointer = NoJob /\ pool_count = 0
  /\ creating' = [creating EXCEPT ![x] = NoJob]
  /\ \/ \E t \in Threads :
          /\ pc[t] = "none"
          /\ pc' = [pc EXCEPT ![t] = "spawned"]
          /\ total_count' = total_count + 1
          /\ function_pointer' = j
          /\ accepted' = accepted \cup {j}
          /\ UNCHANGED <<data_empty, refused>>
     \/ /\ data_empty' \in Signal(data_empty)
        /\ refused' = refused \cup {j}
        /\ function_pointer' = PlaceAfterFailure(j)
        /\ UNCHANGED <<total_count, pc, accepted>>
  /\ UNCHANGED <<thread_ids, pool_count, destruct, data_ready>>

CreateSignals(x, j) ==
  /\ function_pointer = NoJob /\ pool_count > 0
  /\ function_pointer' = j
  /\ data_ready' \in Signal(data_ready)
  /\ creating' = [creating EXCEPT ![x] = NoJob]
  /\ accepted' = accepted \cup {j}
  /\ UNCHANGED <<thread_ids, total_count, pool_count, destruct, data_empty, pc, refused>>

create_new_thread(x, j) ==
  /\ CreateSleeps(x, j) \/ CreateSpawns(x, j) \/ CreateSignals(x, j)
  /\ UNCHANGED <<destructed, handling, job, life, started, done>>

Create(x) ==
  /\ InUserCode(x)
  /\ \E j \in Jobs \ (accepted \cup refused \cup {creating[y] : y \in Callers}) :
       create_new_thread(x, j)

CreateWakes(x) ==
  /\ creating[x] # NoJob /\ x \notin data_empty
  /\ create_new_thread(x, creating[x])

-----------------------------------------------------------------------------
(* thread_starter() *)

\* What t does with the mutex, n being pool_count with t in it.
Takes(t, n) ==
  /\ function_pointer # NoJob
  /\ pool_count' = n - 1
  /\ job' = [job EXCEPT ![t] = function_pointer]
  /\ started' = [started EXCEPT ![function_pointer] = @ + 1]
  /\ function_pointer' = NoJob
  /\ data_empty' \in Signal(data_empty)
  /\ pc' = [pc EXCEPT ![t] = "running"]
  /\ UNCHANGED <<total_count, data_ready, destructed>>

Sleeps(t, n) ==
  /\ function_pointer = NoJob /\ ~destruct
  /\ pool_count' = n
  /\ data_ready' = data_ready \cup {t}
  /\ pc' = [pc EXCEPT ![t] = "pooled"]
  /\ UNCHANGED <<total_count, function_pointer, job, started, data_empty, destructed>>

\* Mutant: the count of threads is forgotten.
EndedMutant(n) == n
Ended(n) == n - 1

Ends(t, n) ==
  /\ pool_count' = n - 1
  /\ total_count' = Ended(total_count)
  /\ thread_ids' = thread_ids \ {t}
  /\ destructed' \in Signal(destructed)
  /\ pc' = [pc EXCEPT ![t] = "none"]
  /\ UNCHANGED <<function_pointer, data_ready, job, started, data_empty>>

\* The loop from its test of destruct on.
Loop(t, n) ==
  \/ destruct /\ Ends(t, n)
  \/ /\ ~destruct
     /\ Takes(t, n) \/ Sleeps(t, n)
     /\ thread_ids' = thread_ids \cup {t}

Others == <<destruct, handling, creating, life, outcome, done>>

Starts(t) == pc[t] = "spawned" /\ Loop(t, pool_count + 1) /\ UNCHANGED Others

Awakes(t) ==
  /\ pc[t] = "pooled" /\ t \notin data_ready
  /\ Loop(t, pool_count)
  /\ UNCHANGED Others

Expires(t) ==
  /\ pc[t] = "pooled" /\ t \in data_ready
  /\ data_ready' = data_ready \ {t}
  /\ pc' = [pc EXCEPT ![t] = "late"]
  /\ UNCHANGED <<shared, data_empty, destructed, handling, job, creating, life, outcome,
                 started, done>>

\* Mutant: a thread whose time is up ends although a function waits.
NothingToDoMutant == TRUE
NothingToDo == function_pointer = NoJob

AwakesLate(t) ==
  /\ pc[t] = "late"
  /\ IF NothingToDo THEN Ends(t, pool_count) ELSE Loop(t, pool_count)
  /\ UNCHANGED Others

\* The function has returned: call_end_handlers().
JobReturns(t) ==
  /\ pc[t] = "running" /\ creating[t] = NoJob
  /\ pc' = [pc EXCEPT ![t] = "ending"]
  /\ done' = done \cup {job[t]}
  /\ UNCHANGED <<shared, sigs, handling, job, creating, life, outcome, started>>

\* The handlers left in the registry when a thread looks for the next one.
HandlersLeft(t) == reg[t]

RemovesHandler(t) ==
  /\ pc[t] = "ending" /\ calling[t] = NoHandler
  /\ \E h \in HandlersLeft(t) :
       /\ reg' = [reg EXCEPT ![t] = @ \ {h}]
       /\ calling' = [calling EXCEPT ![t] = h]
  /\ UNCHANGED <<shared, sigs, pc, job, creating, life, outcome, started, done, gone>>

CallsHandler(t) ==
  /\ calling[t] # NoHandler
  /\ calling' = [calling EXCEPT ![t] = NoHandler]
  /\ UNCHANGED <<shared, sigs, pc, job, creating, life, outcome, started, done, reg, gone>>

HandlersDone(t) ==
  /\ pc[t] = "ending" /\ calling[t] = NoHandler /\ HandlersLeft(t) = {}
  /\ pc' = [pc EXCEPT ![t] = "returning"]
  /\ job' = [job EXCEPT ![t] = NoJob]
  /\ UNCHANGED <<shared, sigs, handling, creating, life, outcome, started, done>>

BackInPool(n) == n + 1

\* Back in the inner loop, which does not look at destruct.
Returns(t) ==
  /\ pc[t] = "returning"
  /\ \/ Takes(t, BackInPool(pool_count)) \/ Sleeps(t, BackInPool(pool_count))
     \/ function_pointer = NoJob /\ destruct /\ Ends(t, BackInPool(pool_count))
  /\ pc'[t] # "none" => UNCHANGED thread_ids
  /\ UNCHANGED Others

-----------------------------------------------------------------------------
(* The registry of end handlers *)

register_thread_end_handler(t, h) ==
  /\ t \in Threads /\ InUserCode(t) /\ h \notin reg[t]
  /\ reg' = [reg EXCEPT ![t] = @ \cup {h}]
  /\ gone' = gone \ {h}
  /\ UNCHANGED <<shared, sigs, pc, job, calling, creating, life, outcome, started, done>>

unregister_thread_end_handler(x, h) ==
  /\ InUserCode(x)
  /\ reg' = [t \in Threads |-> reg[t] \ {h}]
  /\ gone' = gone \cup {h}
  /\ UNCHANGED <<shared, sigs, pc, job, calling, creating, life, outcome, started, done>>

-----------------------------------------------------------------------------
(* destruct_if_ready() and ~threader(), when the program ends *)

\* With threads outside the pool nothing happens.
destruct_if_ready(c) ==
  /\ life = "alive" /\ \A x \in Clients : InUserCode(x)
  /\ total_count = pool_count
  /\ destruct' = TRUE
  /\ data_ready' = {}
  /\ life' = "deleting"
  /\ UNCHANGED <<thread_ids, total_count, pool_count, function_pointer, data_empty, destructed,
                 handling, pc, job, creating, outcome, started, done>>

\* Mutant: the destructor does not wait for the last thread.
ThreadsLeftMutant == total_count > 1
ThreadsLeft == total_count > 0

WaitsForThreads(c) ==
  /\ IF ThreadsLeft THEN life' = "joining" /\ destructed' = destructed \cup {c}
                    ELSE life' = "destroyed" /\ UNCHANGED destructed
  /\ UNCHANGED <<shared, data_empty, handling, pc, job, creating, outcome, started, done>>

Destructor(c) == life = "deleting" /\ data_ready' = {} /\ WaitsForThreads(c)

DestructorWakes(c) ==
  /\ life = "joining" /\ c \notin destructed
  /\ WaitsForThreads(c) /\ UNCHANGED data_ready

\* Only one thread runs the destructors of global objects.
TheMain == CHOOSE c \in Clients : TRUE

Finished == life = "destroyed" /\ UNCHANGED vars

ThreadStep(t) ==
  \/ Starts(t) \/ Awakes(t) \/ AwakesLate(t) \/ Expires(t) \/ Returns(t)
  \/ RemovesHandler(t) \/ CallsHandler(t) \/ HandlersDone(t)

Next ==
  \/ \E t \in Threads : ThreadStep(t) \/ JobReturns(t)
  \/ \E x \in Callers : Create(x) \/ CreateWakes(x)
  \/ \E t \in Threads, h \in Handlers : register_thread_end_handler(t, h)
  \/ \E x \in Callers, h \in Handlers : unregister_thread_end_handler(x, h)
  \/ destruct_if_ready(TheMain) \/ Destructor(TheMain) \/ DestructorWakes(TheMain)
  \/ Finished

\* Threads that hold or can get the mutex go on and functions end.
Fairness ==
  /\ \A t \in Threads : WF_vars(ThreadStep(t)) /\ WF_vars(JobReturns(t))
  /\ \A x \in Callers : WF_vars(CreateWakes(x))
  /\ WF_vars(Destructor(TheMain) \/ DestructorWakes(TheMain))

Spec == Init /\ [][Next]_vars
FairSpec == Spec /\ Fairness

-----------------------------------------------------------------------------
(* Properties *)

Live == {t \in Threads : pc[t] # "none"}
InPool == {t \in Threads : pc[t] \in {"pooled", "late"}}
Count(cond) == IF cond THEN 1 ELSE 0

\* The values the variables take; each signaler has only its own sleepers.
TypeOK ==
  /\ thread_ids \subseteq Threads /\ total_count \in Nat /\ pool_count \in Nat
  /\ function_pointer \in Jobs \cup {NoJob} /\ destruct \in BOOLEAN
  /\ data_ready \subseteq InPool
  /\ data_empty \subseteq {x \in Callers : creating[x] # NoJob}
  /\ destructed \subseteq Clients
  /\ reg \in [Threads -> SUBSET Handlers]
  /\ pc \in [Threads -> {"none", "spawned", "pooled", "late", "running", "ending", "returning"}]
  /\ job \in [Threads -> Jobs \cup {NoJob}]
  /\ calling \in [Threads -> Handlers \cup {NoHandler}]
  /\ creating \in [Callers -> Jobs \cup {NoJob}]
  /\ life \in {"alive", "deleting", "joining", "destroyed"}
  /\ accepted \subseteq Jobs /\ refused \subseteq Jobs /\ done \subseteq Jobs /\ gone \subseteq Handlers
  /\ started \in [Jobs -> Nat]

\* The CONVENTION of the header: the two counters and the set of ids describe
\* the threads there are, although a spawned thread counts before it has run.
\* So the destructor, which waits for total_count, ends when no thread and no
\* caller can touch the threader any more.
CountsMatch ==
  /\ TypeOK
  /\ life = "destroyed" => Live = {} /\ \A x \in Callers : creating[x] = NoJob
  /\ total_count = Cardinality(Live)
  /\ pool_count = Cardinality(InPool)
  /\ thread_ids = {t \in Live : pc[t] # "spawned"}

\* A function for which create_new_thread() has returned true waits in
\* function_pointer or has been started, once, in one thread; one for which it
\* has returned false is never started.
JobsStartOnce ==
  /\ accepted \cap refused = {}
  /\ \A j \in Jobs : started[j] + Count(function_pointer = j) = Count(j \in accepted)
  /\ \A s, t \in Threads : job[s] = job[t] /\ job[s] # NoJob => s = t

\* A waiting function always has a thread on its way to it, whatever timeouts
\* and returning threads did with the one it was meant for; a caller does not
\* sleep at a free place unless another one is on its way there.
NoLostWakeup ==
  /\ function_pointer # NoJob /\ ~destruct =>
       \E t \in Threads : pc[t] \in {"spawned", "late", "returning"}
                          \/ (pc[t] = "pooled" /\ t \notin data_ready)
  /\ function_pointer = NoJob /\ data_empty # {} =>
       \E x \in Callers \ data_empty : creating[x] # NoJob

\* No caller waits in create_new_thread() for ever, callers inside functions
\* included, every accepted function is started, unless the program ends, and
\* the destructor ends.
RequestsEnd ==
  /\ \A x \in Callers : creating[x] # NoJob ~> creating[x] = NoJob
  /\ \A j \in Jobs : j \in accepted ~> (started[j] > 0 \/ destruct)
  /\ (life = "deleting") ~> (life = "destroyed")

\* "unregister_thread_end_handler: Undoes all previous calls to
\* register_thread_end_handler(obj,handler).  So the given handler won't be
\* called when any threads end." (abstract header)
UnregisteredIsNotCalled ==
  [][\A t \in Threads : CallsHandler(t) => calling[t] \notin gone]_vars
=============================================================================
