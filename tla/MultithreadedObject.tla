-------------------------- MODULE MultithreadedObject --------------------------
(***************************************************************************)
(* dlib::multithreaded_object (threads/multithreaded_object_extension.h    *)
(* and .cpp): an object that runs each of its registered member functions  *)
(* in a thread of its own and starts, pauses and stops them together.      *)
(*                                                                         *)
(* A registered function waits in dead_threads until a thread made by      *)
(* create_new_thread() takes one out; it is put back when it returns.      *)
(* Functions loop on should_stop() and may return whenever they like.      *)
(* Everything is done under the recursive mutex m_, so an action is a call *)
(* of the source up to its return or to s.wait(), which gives m_ up.       *)
(* create_new_thread() is external here: it fails, or the function it was  *)
(* given will be called once (JobsStartOnce of Threader).                  *)
(***************************************************************************)
EXTENDS Integers, Sequences, FiniteSets

CONSTANTS
  Threads,          \* what create_new_thread() can give
  Clients,
  Functions, None

ASSUME ObjectAssumption ==
  /\ IsFiniteSet(Threads) /\ Threads \cap Clients = {}
  /\ None \notin Functions

VARIABLES
  thread_ids,       \* the registered function each thread runs, or None
  dead_threads,     \* the registered functions that do not run, a queue
  threads_started, is_running_, should_stop_,
  s,                \* who sleeps on the signaler
  pc,               \* of threads and clients
  failed            \* history: start() has failed and nothing was broadcast since

flags == <<is_running_, should_stop_>>
vars == <<thread_ids, dead_threads, threads_started, flags, s, pc, failed>>

Init ==
  /\ thread_ids = [t \in Threads |-> None]
  /\ dead_threads = <<>>
  /\ threads_started = 0
  /\ is_running_ = FALSE /\ should_stop_ = FALSE
  /\ s = {}
  /\ pc = [x \in Threads \cup Clients |-> IF x \in Threads THEN "none" ELSE "idle"]
  /\ failed = FALSE

At(x, where) == pc[x] = where /\ x \notin s
Goes(x, where) == pc' = [pc EXCEPT ![x] = where]

Alive == {t \in Threads : thread_ids[t] # None}
Running == {thread_ids[t] : t \in Alive}
Dead == {dead_threads[i] : i \in DOMAIN dead_threads}
Registered(dead) == Len(dead) + Cardinality(Alive)

BroadcastMutant(sleepers) ==     \* mutant: signal() instead of broadcast()
  IF sleepers = {} THEN {} ELSE sleepers \ {CHOOSE x \in sleepers : TRUE}
Broadcast(sleepers) == {}

-----------------------------------------------------------------------------
(* The calls of clients *)

\* How many threads start() creates.
\* Mutant: also one for each function that already has its thread.
MissingMutant(dead) == Registered(dead)
Missing(dead) == Registered(dead) - threads_started

\* The count of threads when start() has made n more.
Started(n) == threads_started + n

\* start() with the queue `dead`; a failure leaves the threads made before it.
\* Only register_thread() catches the exception, and wakes the sleepers then.
StartWith(dead, catches) ==
  \E new \in SUBSET {t \in Threads : pc[t] = "none"} :
    /\ Cardinality(new) <= Missing(dead)
    /\ pc' = [x \in DOMAIN pc |-> IF x \in new THEN "spawned" ELSE pc[x]]
    /\ threads_started' = Started(Cardinality(new))
    /\ dead_threads' = dead
    /\ IF Cardinality(new) = Missing(dead)
       THEN is_running_' = TRUE /\ should_stop_' = FALSE /\ s' = Broadcast(s) /\ failed' = FALSE
       ELSE is_running_' = FALSE /\ should_stop_' = TRUE /\ failed' = ~catches
            /\ s' = IF catches THEN Broadcast(s) ELSE s
    /\ UNCHANGED thread_ids

Start(c) == At(c, "idle") /\ StartWith(dead_threads, FALSE)

register_thread(c, f) ==
  /\ At(c, "idle") /\ f \notin Dead \cup Running
  /\ \/ is_running_ /\ StartWith(Append(dead_threads, f), TRUE)
     \/ /\ ~is_running_
        /\ dead_threads' = Append(dead_threads, f)
        /\ UNCHANGED <<thread_ids, threads_started, flags, s, pc, failed>>

Pause(c) ==
  /\ At(c, "idle")
  /\ is_running_' = FALSE
  /\ UNCHANGED <<thread_ids, dead_threads, threads_started, should_stop_, s, pc, failed>>

Stops == should_stop_' = TRUE /\ is_running_' = FALSE /\ failed' = FALSE

Stop(c) ==
  /\ At(c, "idle")
  /\ Stops
  /\ s' = Broadcast(s)
  /\ UNCHANGED <<thread_ids, dead_threads, threads_started, pc>>

WaitFrom(c, sleepers) ==
  /\ IF threads_started > 0 THEN s' = sleepers \cup {c} /\ Goes(c, "wait")
                            ELSE s' = sleepers /\ Goes(c, "idle")
  /\ UNCHANGED <<thread_ids, dead_threads, threads_started, flags, failed>>

Wait(c) == At(c, "idle") /\ WaitFrom(c, s)
WaitWakes(c) == At(c, "wait") /\ WaitFrom(c, s)

\* clear() from wait() on; at its end nothing is registered.
MustWait == threads_started > 0

ClearFrom(c, sleepers) ==
  /\ UNCHANGED <<thread_ids, threads_started>>
  /\ \/ /\ MustWait
        /\ s' = sleepers \cup {c} /\ Goes(c, "clear")
        /\ UNCHANGED dead_threads
     \/ /\ ~MustWait
        /\ s' = sleepers /\ Goes(c, "idle")
        /\ dead_threads' = <<>>

Clear(c) ==
  /\ At(c, "idle")
  /\ ClearFrom(c, Broadcast(s))
  /\ is_running_' = FALSE /\ should_stop_' = (pc'[c] = "clear") /\ failed' = FALSE

ClearWakes(c) ==
  /\ At(c, "clear")
  /\ ClearFrom(c, s)
  /\ IF pc'[c] = "idle" THEN is_running_' = FALSE /\ should_stop_' = FALSE ELSE UNCHANGED flags
  /\ UNCHANGED failed

-----------------------------------------------------------------------------
(* The threads *)

\* Mutant: the function stays in the queue.
DequeuedMutant(queue) == queue
Dequeued(queue) == Tail(queue)

\* thread_helper() takes a function; if there is none it goes straight to its end.
Begin(t) ==
  /\ At(t, "spawned")
  /\ IF dead_threads # <<>>
     THEN /\ thread_ids' = [thread_ids EXCEPT ![t] = Head(dead_threads)]
          /\ dead_threads' = Dequeued(dead_threads)
          /\ Goes(t, "work")
     ELSE Goes(t, "return") /\ UNCHANGED <<thread_ids, dead_threads>>
  /\ UNCHANGED <<threads_started, flags, s, failed>>

\* Mutant: a stop is not seen by a paused thread.
PausedMutant == ~is_running_
Paused == ~is_running_ /\ ~should_stop_

ShouldStop(t) ==
  /\ At(t, "work") \/ At(t, "should_stop")
  /\ IF Paused THEN s' = s \cup {t} /\ Goes(t, "should_stop")
               ELSE UNCHANGED s /\ Goes(t, IF should_stop_ THEN "return" ELSE "work")
  /\ UNCHANGED <<thread_ids, dead_threads, threads_started, flags, failed>>

\* The function returns of its own accord.
Returns(t) ==
  /\ At(t, "work")
  /\ Goes(t, "return")
  /\ UNCHANGED <<thread_ids, dead_threads, threads_started, flags, s, failed>>

\* ~raii_thread_helper().
End(t) ==
  /\ At(t, "return")
  /\ dead_threads' = IF t \in Alive THEN Append(dead_threads, thread_ids[t]) ELSE dead_threads
  /\ thread_ids' = [thread_ids EXCEPT ![t] = None]
  /\ threads_started' = threads_started - 1
  /\ IF threads_started = 1
     THEN /\ is_running_' = FALSE
          /\ should_stop_' = FALSE
          /\ s' = Broadcast(s) /\ failed' = FALSE
     ELSE UNCHANGED <<flags, s, failed>>
  /\ Goes(t, "none")

ThreadStep(t) == Begin(t) \/ ShouldStop(t) \/ Returns(t) \/ End(t)
ClientWakes(c) == WaitWakes(c) \/ ClearWakes(c)

Next ==
  \/ \E t \in Threads : ThreadStep(t)
  \/ \E c \in Clients :
       \/ Start(c) \/ Pause(c) \/ Stop(c) \/ Wait(c) \/ Clear(c) \/ ClientWakes(c)
       \/ \E f \in Functions : register_thread(c, f)

\* Threads run, and functions keep asking should_stop(); clients need not call.
Fairness ==
  /\ \A t \in Threads : WF_vars(Begin(t) \/ ShouldStop(t) \/ End(t))
  /\ \A c \in Clients : WF_vars(ClientWakes(c))

Spec == Init /\ [][Next]_vars
FairSpec == Spec /\ Fairness

-----------------------------------------------------------------------------
(* Properties *)

Spawned == {t \in Threads : pc[t] = "spawned"}

\* The values the variables take; only the calls that wait have sleepers.
TypeOK ==
  /\ thread_ids \in [Threads -> Functions \cup {None}]
  /\ dead_threads \in Seq(Functions)
  /\ threads_started \in Nat
  /\ is_running_ \in BOOLEAN /\ should_stop_ \in BOOLEAN /\ failed \in BOOLEAN
  /\ \A t \in Threads : pc[t] \in {"none", "spawned", "work", "should_stop", "return"}
  /\ \A c \in Clients : pc[c] \in {"idle", "wait", "clear"}
  /\ \A x \in s : pc[x] \in {"should_stop", "wait", "clear"}

\* The CONVENTION of the header: threads_started counts the spawned threads
\* that have not ended, those that have not begun included, and every one of
\* these will find a function in the queue, whatever was registered, started
\* again or cleared in between.  A registered function is in the queue or in
\* one thread: it never runs twice at a time and is never lost.
ThreadsCounted ==
  /\ TypeOK
  /\ threads_started = Cardinality(Spawned) + Cardinality(Alive)
  /\ Cardinality(Spawned) <= Len(dead_threads)
  /\ \A t, u \in Alive : thread_ids[t] = thread_ids[u] => t = u
  /\ Cardinality(Dead) = Len(dead_threads)
  /\ Dead \cap Running = {}
  /\ \A t \in Threads : pc[t] \in {"work", "should_stop"} => t \in Alive

\* Nobody sleeps on s without a reason, save after a failed start().
NoLostWakeup ==
  \A x \in s : IF x \in Threads THEN Paused \/ failed ELSE threads_started > 0

\* After stop() all threads end, unless somebody tries to start them again.
StopEndsAll == (should_stop_ /\ ~failed) ~> (threads_started = 0 \/ ~should_stop_ \/ failed)
=============================================================================
