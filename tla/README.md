# TLA+ models of the concurrency core of dlib in DlibAndroid

The repository wraps the C++ library dlib (`src/dlib/src/main/cpp/dlib`) for
Android: a Kotlin class (`Dlib.kt`) and a small JNI layer (`dlib_android/`) call
it, and a sample app draws what it finds.  Most of dlib is sequential numerical
code.  What is hard to test in it is the layer everything else is run by: locks,
pipes, thread pools, thread objects, timers, the server and the bridge, and the
protocol of the distributed `bsp_context`.  This directory models that layer
from its source, checks the models with TLC and proves theorems about them with
TLAPS.

Paths below are relative to `src/dlib/src/main/cpp/dlib` unless they start with
`src/`.  `PROJECT.json` maps each definition to the lines it stands for, and
lists the runs, the mutations each property is known to catch, the
disagreements found and the hazards.

## Inventory

| part | state | operations | what is hard |
|---|---|---|---|
| `threads/threads_kernel_*` mutex, signaler | operating system objects | lock, wait, signal | taken as given |
| `pipe/` pipe | ring buffer, three counters of waiters, three signalers, three enable flags | enqueue, dequeue, timed forms, empty, two waits, enabling and disabling, destructor | one signal per item, hand-over without capacity, leaving while disabled or destroyed |
| `threads/read_write_mutex` | count of free locks, two flags | lock, unlock, lock_readonly, unlock_readonly | a writer gathers locks one batch at a time; the broadcast is conditional |
| `threads/thread_pool` | a slot per worker | add_task, wait_for_task, wait_for_all_tasks, destructor | nested submission, exceptions kept in slots, ids of slots used again |
| `threads/threads_kernel_shared` threader | one hand-over place, two counters, end handlers per thread | create_new_thread, thread_starter, (un)register_thread_end_handler, destructor | timeouts against signals, spawn failures, handlers called outside the lock |
| `threads/multithreaded_object` | queue of functions, map of threads, two flags | register_thread, start, pause, stop, wait, clear, should_stop | start during stop, start that fails half-way, clear that waits |
| `bsp/` bsp_context | counters at node 0, epochs, a queue per node | send, receive, end of a node | counting messages in flight from notices that arrive in any order, death of a node |
| `threads/rmutex`, `rsignaler` | owner and recursion count | lock, unlock, wait | wait gives up every level |
| `threads/threaded_object` | one thread, four flags | start, restart, set_respawn, pause, stop, wait, should_stop | restart and start while the thread is ending |
| `threads/thread_specific_data` | a value per thread | data, destructor | end handlers that run late |
| `threads/parallel_for`, `async`, `thread_function` | none of their own | submit blocks to a pool and wait | exceptions while blocks still run |
| `timer/`, `timeout/` | queue of due times, a clock thread, a thread per timer | start, stop, stop_and_wait, clear, set_delay_time, destructors | due times, stops and new delays against a running action and a sleeping clock |
| `server/` | set of connections, thread count, limit, two flags, five mutexes | start, clear, set_max_connections, the listener, a thread per connection | clear against accept and against the end of a connection; failures of the listener |
| `bridge/` | two pipes, a connection, two flags | three threads, destructor | a connection shared without the mutex, broken and replaced; the destructor against everything that blocks |
| `logger/` | tables of settings | look up, set, log | order of lines; end handler |
| `sockets`, `sockstreambuf`, `iosockstream` | operating system objects, buffers | read, write, shutdown | input and output |
| containers, memory managers, linker | sequential data | | sequential; contracts are unit tested |
| compression, parsing | sequential data | | sequential conversions |
| numeric code, machine learning, images, GUI | real numbers, pixels | | out of the reach of a model checker |
| `src/dlib/src/main/cpp/dlib_android`, `Dlib.kt` | one global detector | init, find, rotate, release | life of the detector |
| `src/app` FaceFilter | a flag, a task | initialising task, drawing thread, release | flag without synchronisation |
| `external/`, `test/`, bindings, build files | | | vendored or tools |

How they interact: every thread of the library comes from the threader, through
`create_new_thread()`; `multithreaded_object`, `threaded_object`, the timer's
clock, the server and the bridge get theirs there.  Programs of `bsp_context`
and of the bridge talk over sockets through stream buffers and queue what they
receive.  `parallel_for` and `async` submit to a `thread_pool`.  The logger and
`thread_specific_data` register thread end handlers with the threader.

What would make each part correct, beyond its types:

* pipe: a first-in-first-out buffer in which each item goes to one caller whose
  return value says so; no item and no sleeping dequeuer side by side; the
  destructor waits for every call and ends.
* read_write_mutex: writers exclude all others; no lock is ever made or lost;
  nobody who could go on stays asleep.
* thread_pool: each task runs once and ends; each exception is delivered once;
  nested submission does not deadlock; destruction waits.
* threader: an accepted function starts once, whatever timeouts do; counters
  agree with the threads; no handler is called after it was unregistered.
* multithreaded_object: each function in one thread at most and never lost;
  counts agree; stop() ends all.
* bsp_context: a receive says "no more messages" only when that is so, to
  everybody alike, and none hangs when a node dies.
* rmutex/rsignaler: ownership and the level of recursion survive a wait.
* threaded_object, timer: one thread per object; no restart is lost; a running
  timer is never forgotten; nothing runs after stop has been waited for.
* server: the limit that the listener compared with is kept; clear() ends with no connection thread left and no
  connection forgotten.
* bridge: the reader sees objects between the statuses of their connection; no
  thread works with a connection that is replaced; the destructor ends.
* FaceFilter and its JNI layer: no call on a detector that is not there.

## Conventions of the models

A member function of these classes holds the object's mutex except while it
sleeps on a signaler or calls user code.  **One action is what a thread does
between getting the mutex and giving it up**, by returning or by waiting; other
threads cannot see what happens inside.  A signaler is the set of threads that
sleep on it: `wait()` adds the caller, `signal()` removes any one,
`broadcast()` empties it.  A woken thread competes for the mutex again, and any
other may come first; it then re-evaluates the loop condition from the source.
Spurious wakeups are left out: every wait is in a loop that would sleep again.
A timed wait may end at any moment; only `Timer` has a clock.  Where a class has
several mutexes (`Server`), or holds one while it blocks (`Bridge`), an action is
what happens under one of them and the mutex that is held on is a variable.

Definitions with a name ending in `Mutant` are not used.  Each gives a
plausible mistake in the operator that follows it, and TLC finds the named
property violated when the operator is replaced by it.

Fairness is weak fairness per thread: a thread that has been woken, or that is
inside a call and can go on, eventually gets the mutex (the mutexes are those of
the operating system).  Callers are never obliged to call, except that a holder
of a lock gives it back, a function or a task returns, and a program of
`bsp_context` comes to its next receive or to its end; an action of a timer and
`on_connect()` of a connection that was shut down return, as their contracts
say; the user of a bridge's receive pipe empties it while there is a bridge, but
the other program never has to read.  Strong fairness is assumed of one action:
`Tick` of `Timer`, because the bound on how late a timer may be stops time now
and then, which the world does not.

`CHECK_DEADLOCK FALSE` is set where the system may really stop: after a pipe
has been destroyed or while all its clients wait for each other, while all
clients of a multithreaded_object wait() for paused threads, when all nodes of a
job have ended, after all timers and the clock or a bridge have been destroyed.

## Modules

**`Channel`, `Pipe`, `Pipe_proofs`, `MCPipe`** (`pipe/pipe_kernel_1.h`).  `Channel` is what
`pipe_kernel_abstract.h` promises: a bounded queue or a hand-over, and what each
caller has been told.  `Pipe` has the ring (`data`, `first`, `last`,
`pipe_size`), the counters of waiters, the three signalers and the enable flags
as the source has them.  `enqueue()` and `enqueue_or_timeout()` share
`EnqueueFrom`, from the test of the first loop on: the caller sleeps, returns
false or stores its item (`EnqueueSleeps`, `EnqueueReturnsFalse`,
`EnqueueStores`).  `Handoff` is the second loop, which only runs without
capacity: it sleeps, withdraws the item or ends.  `dequeue()` has the three cases
of the first loop.  `ImplementsChannel` is the refinement: `Stored` reads the
queue off the ring, `CallOf` a thread's state.

**`ReadWriteMutex`, `ReadWriteMutex_proofs`**
(`threads/read_write_mutex_extension.h`).  `Lock` covers the queueing loop,
`LockGather` the gathering loop, whose local variable is a state variable.
`StrayUnlockReadonly` is the call without a lock that the header allows.

**`ThreadPool`, `ThreadPool_proofs`, `MCThreadPool`**
(`threads/thread_pool_extension.*`).  Slots, ids, signalers and exceptions as in
the source.  What tasks do is a constant: submit a child, wait for all, throw.
A worker that runs a task inside `add_task()` has it on its `stack`.  A task is
one submission: `PoolAssumption` has each of them as the child of one other or as
a root, since the same function added twice is two tasks to the pool.

**`Threader`, `Threader_proofs`** (`threads/threads_kernel_shared.*`).  The place for the next
function, the counters, the pool's loop with its timeout (`Expires`,
`AwakesLate`), failing spawns, end handlers (removed under `reg.m`, called
outside), and destruction at the end of the program.

**`MultithreadedObject`, `MultithreadedObject_proofs`**
(`threads/multithreaded_object_extension.*`).  Here
`create_new_thread()` is external: it fails, or its function is called once, as
`JobsStartOnce` and `RequestsEnd` of `Threader` show.  The recursive mutex is
taken as released by `wait()` at every level.

**`Supersteps`, `Bsp`, `Bsp_proofs`, `MCBsp`** (`bsp/bsp.*`).  `Supersteps` is what
`bsp_abstract.h` promises to programs.  `Bsp` has the counters of node 0, the
epochs, a stream per pair of nodes and a queue per node; a read thread moves
messages at its own pace, so all that a node writes between two reads of its
queue can be one action.  Nodes run any program that sends along `Routes`,
receives and ends; those in `Crashing` may die while they compute, and any node
may get an exception while it computes once another has died.  A broadcast that
fails half-way is not modelled, nor is making the connections at the start.
`BrokenBy` is a node's death as the others see it: a READ_ERROR in each stream.
Two variables are history: `sent`, how many messages programs have sent, and
`written`, how many messages of any type each link has carried.  A message carries
its receiver and its number on its link, which the code has no need of and which
make all messages different.  `Supersteps` knows messages by these numbers: what
is in transit on a link is a set of them, the least is received first, and what
is sent later has a greater one.

**`ThreadedObject`** (`threads/threaded_object_extension.*`; proofs in
`Timer_proofs`).  The flags `is_alive_`, `is_running_`,
`should_stop_` and `should_respawn_` of a set of objects, where the thread of
each is in `thread_helper()`, and who sleeps on its signaler.  `owed` is history:
a run has been asked for with `restart()` and has not begun.  An object without
a thread that is launched while it has one would be in the state "two threads".

**`Timer`, `Timer_proofs`** (`timer/timer.h`, `timer/timer.cpp`).  Extends
`ThreadedObject`: the clock and every timer are such objects, and the actions of
`Timer` call theirs.  All of it happens under `gc->m`, so an action is one
critical section of `gc->m`.  Time is relative: `due[t]` and `sleep` are what is
left, and `Tick` takes one from each.  A program uses timers, or
threaded_objects on their own (`Plain`, with `pause()` and `should_stop()`, which
timers do not call).

**`Server`** (`server/server_kernel.*`; proofs in `Network_proofs`).  The listener's loop is
cut where it changes mutexes: `Accept`, `Check`, `Add`, `CreateThread`,
`CountThread`, `Limit`.  `Listeners` are the threads that run it: `start()` and
`start_async()` ask only for `running`, which a listener that failed resets before
its `clear()`, so that the next one may be in the loop (`thread`) while others are
still in `clear()`.  `clear()` has six steps and may run in several clients and
failed listeners at once.  `start_async()` keeps `running_mutex` while the
destructor of the old `thread_function` waits for the old thread (`async`,
`joining`): `AwaitListener`, and `Accept` of the new thread, need that mutex.
`start()` is called only when the server does not run, as its contract says; the
question and the answer of `open_listening_socket()` are one step.  `shut` is
history: connections that `clear()` shut down, whose `on_connect()` therefore
returns; so is `tested`, the limit with which the listener last compared
`thread_count`.

**`Bridge`** (`bridge/bridge.h`; proofs in `Network_proofs`).  The three threads, `con`, the
two flags, the mutex `m` (held by `connect_thread()` while it connects and while
it enqueues a status) and the pipes as `Channel` promises them.  What the other
program does is `Other`; a write blocks until it reads or the connection breaks.
`BridgeInit`, `BridgeNext` and `BridgeSpec` have the prefix because `Network_proofs`
extends `Server` as well.

## Runs

Passing runs:

* `pipe`: three threads on a pipe of capacity two, with empty(),
  wait_until_empty(), disable() and destruction, and on one without capacity,
  with timeouts and every way of disabling.  Two is the least capacity with which
  the ring wraps with an item in it; three threads allow two sleepers of a kind
  with a third that overtakes them.  The largest run, about three minutes.
* `rwm`: five threads and three locks: a gathering writer, a queueing writer,
  and readers that share, block and return at the same time.
* `pool`: two workers, two clients, two tasks that each submit another and wait
  for it, with two exceptions: both workers can be inside a waiting task, which
  is where a pool without inline execution deadlocks.
* `threader`: three threads, two clients, three functions that also create each
  other, one end handler.  One thread may time out while another is being
  spawned and a third returns.
* `mto`: three functions, three threads, two clients that call anything.
* `bsp`: three nodes, of which one may die, two messages, one complete epoch and
  messages of the next.  `MCDirected` has two senders with one receiver that
  can answer node 0, and **no worker both receives and sends to a worker**.

* `timer`: two timers, the clock and two clients that call anything, with delays
  of one and two ticks and a timer that is at most one tick late; or two clients
  and one bare threaded_object.  Two timers are needed for one to be first in the
  queue and the other not; a late timer is needed for a due time to meet a
  running action.
* `server`: two connections, two listeners, one client that clears at any time,
  a limit of one or none (`Maxima`), a default limit that is never reached (three
  for the 1000 of the code).  One connection can be served while the other is
  accepted, swept or refused; a listener can be in the loop while the one before
  it and the client are both in `clear()`.  `AcceptsBelowLimit` excepts a limit
  that is `Lowered` and `NoLostWakeup` one that is `Raised` since the listener
  compared: each is false of the code without its exception (below).
* `bridge`: pipes of two entries, one object on the wire and one in the stream
  buffer.  A status and an object fill the receive pipe, on which then both
  enqueuing threads can be blocked.

The runs of liveness say what they except.  `ClearReturns` of `Server` holds
when the server is not started again and again, and leaves out a `clear()` that a
second one has overtaken, a connection added behind its back, and the three
states in which it hangs (`AsyncHangs`, `NobodyListens`, `SleepsForEver`, below);
without any one of these TLC finds it violated.
`RequestsEnd` of `Threader` says that no request is forgotten, with a bounded
number of functions; not that none is overtaken without end.

Runs that find the code at odds with its documentation:

* `bsp_chain`: a worker hands a message on to another worker.  The second
  worker's notice that it got the message overtakes both notices of the first,
  since each comes on its own stream and after the message has gone out.  Node 0
  counts no message in flight and everybody waiting while a worker computes,
  and ends the superstep.  The header says that all were blocked and nothing
  was in flight.
* `threader_unregister`: an end handler that its thread has removed from the
  registry and is about to call is called after `unregister_thread_end_handler()`
  has returned.
* `server_clear`: the listener counts the thread of a connection only after it
  was made, and may add the connection to `cons` after `clear()` has swept it.
  `clear()` finds zero threads and returns while `on_connect()` runs; the header
  says that it blocks until all calls have finished.

Seen while modelling, without a run:

* `disable_dequeue()` does not wake `wait_until_empty()` (`pipe_kernel_1.h:734`),
  against line 102 of its header.
* `enqueue_or_timeout()` without capacity hands its item to a dequeuer that times
  out, and then waits without a limit (`pipe_kernel_1.h:544`), against line 240.
* `multithreaded_object::start()` that throws sets should_stop but broadcasts
  nothing, so threads paused in `should_stop()` stay there
  (`multithreaded_object_extension.cpp:122`); `register_thread()` broadcasts in
  the same case.  `NoLostWakeup` excepts exactly these sleepers (`failed`).
* `set_max_connections()` signals nobody (`server_kernel.cpp:74`).  A listener that
  waits at its limit sleeps on below a limit that was raised, until a thread ends.
  When the limit was removed with 0 it sleeps for ever once no thread is left, and
  `clear()` with it: that 0 means none is asked once, before the loop (420).
* After a timeout of `accept()` the listener does not compare (315), nor at its
  start: it accepts one connection although a lowered limit, or open connections
  of an earlier start, forbid it, against `server_kernel_abstract.h:54-57`.
* `start_async()` while a listener that an earlier `start_async()` made has failed
  and is in `clear()`: it holds `running_mutex` and waits for the thread (187),
  which needs that mutex (140).  Both wait for ever and so does everybody who
  asks whether the server runs, though the header says that `start_async()` does
  not block (`server_kernel_abstract.h:149`).
* `start_async()` that finds no thread throws and leaves `running` set (187):
  `clear()` and the destructor then wait for a listener that does not exist.
* Two `clear()` of a server with a `start()` in between: the first resets
  `shutting_down`, and the second waits for the new listener.
* `threaded_object::start()` after `thread()` has returned and before `is_alive_`
  is reset is lost; `restart()` is not.
* A timer that is stopped and started while its action runs is put into the clock
  at once, so the next action begins right after this one, and a timer that is
  only stopped may still run an action for which the clock has restarted it.

Bounds are in the configurations, in two guards of `Bsp` (`MaxMessages`,
`MaxEpoch`), in `Tick` of `Timer` (`MaxLate`) and in `Other` and `Take` of
`Bridge` (`WireMax`, `BufferMax`).  Functions that were accepted by the threader
and not yet taken when the program ends are lost; `RequestsEnd` says so with
`destruct`.  In `Bsp`, `ReceiveReturns` leaves out
the runs in which a message reaches a node that has already ended: that node
throws, having told everybody that it ended well, and the others may wait for
ever.

## Proofs

`Pipe_proofs` proves, for any finite sets of threads and items, any capacity
(none included), any of the calls, and with or without timeouts:

* `PipeInvariant`: Spec => []PipeInv
* `MemoryFreedLast`: the destructor frees the ring when no call is left, the
  first part of `CallsEnd`
* `OneItemOnOffer`: Spec => []OneHandoff
* `NoWakeupIsLost`: Spec => []NoLostWakeup
* `PipeIsAChannel`: Spec => ImplementsChannel

The invariant `PipeInv` says what the ring is (`RingOK`: `first` and `last` stay
inside it and a full ring is told from an empty one), what a caller at each place
of its call knows (`CallersOK`), who sleeps on which signaler (`SleepersOK`), that
without capacity the one slot is filled exactly while a caller waits in
`Handoff` (`SlotOwned`), that the three counters of waiters are the numbers of
those who wait (`WaitersCounted`), and that the memory goes last
(`DestroyedLast`).  `NoLostWakeup` is inductive relative to it: one signal
per item is enough because a dequeuer that is woken and finds nothing was
overtaken by one that took the item.  The refinement goes step by step: each
action of `Pipe` is one action of `Channel` on `Stored` and `CallOf`, or leaves both
alone.  That `Stored` grows at its end and shrinks at its head is the lemmas
`RingAppend` and `RingTail`, arithmetic modulo `pipe_size + 1`.

`Threader_proofs` proves, for any numbers of threads, clients and functions:

* `ThreaderInvariant`: Spec => []ThreaderInv
* `CountersDescribeThreads`: Spec => []CountsMatch
* `FunctionsStartOnce`: Spec => []JobsStartOnce
* `ThreaderWakeups`: Spec => []NoLostWakeup

A function starts once because it is in one place only: with its caller, in the
hand-over place, with one thread, or done.  That is part of `ThreaderInv`, next
to the counters.

`ThreadPool_proofs` proves, for any number of workers (none included), clients and
tasks, whatever the tasks submit, wait for or throw:

* `PoolInvariant`: Spec => []PoolInv
* `EveryTaskAccountedFor`: Spec => []TasksAccountedFor
* `NoExceptionIsLost`: Spec => []ExceptionsKept
* `IdsAreNames`: Spec => []IdsNameTasks
* `PoolWakeups`: Spec => []NoLostWakeup

The properties speak of numbers of places; the invariant `PoolInv` of the places.
A slot that is being processed belongs to the one worker whose lowest task came
from it (`StacksOK`, `SlotsOK`); a submitted task is in a slot, on a stack or done,
and in one of these only (`PlacesOK`), which needs that a task is not submitted
before the one that has it as child has begun (`ChildrenOK`); an exception is in
one slot, in one worker's lowest task or has been caught (`ExceptionsOK`), because
`add_task()` stores nothing while any slot holds one.  `IdsOK` says that an id is
`n * N + i` with a number `n` that slot `i` has used up: ids differ because such a
sum tells `n` and `i` (`BlockIsUnique`, arithmetic by hand since it is not linear),
and `wait_for_task()` finds the slot again as the remainder.  `LifeOK` says that the
workers are told to end when no task is left.

The actions do few things to slots, stacks and calls.  `Kinds` names them: a
thread goes on with the lowest tasks of its stack (`Cut`, without an exception,
with the one of a slot or with its own), stores a task, begins one, finishes one,
or sleeps.  `StepsAreKinds` reduces every action to a kind, once; each conjunct of
the invariant is then proved for each kind.  `NoLostWakeup` is inductive relative to
`PoolInv`: a task and its signal add one ready slot and one worker that looks for
work, and a worker that takes a task removes one of each.

`ReadWriteMutex_proofs` proves for every finite set of threads and every
`MaxLocks`:

* `TypeCorrect`: Spec => []TypeOK
* `WritersExclude`: Spec => []WriterExclusion
* `LocksAreConserved`: Spec => []LocksConserved
* `WakeupsSuffice`: Spec => []NoLostWakeup

Assumptions: the named ones of the module, and `StrayWhileGathering = FALSE`
(clients do not call `unlock_readonly()` without any readonly lock being held
while a woken writer gathers).  Without it the theorems are false: such a call
adds a lock that does not exist, contrary to line 131 of the abstract header.

None of the four is inductive alone.  Exclusion holds because locks are counted,
so the inductive invariant `IInv` has the conservation equation with the
gathering writer's share, that one writer at most gathers or is active, that
`write_lock_in_progress` says exactly whether one gathers, and what each sleeper
sleeps for.  Each action has a lemma of its own; cardinalities of the set of
readers change by one, by the facts of `FiniteSetTheorems`.

`MultithreadedObject_proofs` proves, for any number of functions, threads and
clients:

* `CountsAreExact`: Spec => []ThreadsCounted
* `ObjectWakeups`: Spec => []NoLostWakeup

The invariant `ObjectInv` says of the queue itself what `ThreadsCounted` says
with cardinalities, that no function is twice in it (`Distinct`), since that is
what `Append` and `Tail` keep, and that a thread has a function exactly while it
runs it.  That a thread on its way finds a function is counting: there are never
more such threads than functions in the queue.  The wakeups follow from the
counts: the last thread to end is the one that finds `threads_started = 1`.

`Timer_proofs` begins with threaded_objects by themselves and proves, for every
set of objects and clients,
`ObjectsCorrect`: ObjectSpec => [](OneThread /\ RestartKept /\ NoLostWakeup).
The three and the types of the variables (`ObjectInv`) are inductive together.
The lemmas about the operations (`start`, `restart`, ...) do not depend on who
calls them, and serve for the timers too.

For any number of timers and clients and any delays it proves:

* `ActionsInOneThread`, `RestartsAreKept`, `WakeupsReachAll`: the three
  properties of threaded_objects, for all timers and the clock together
* `NoTimerForgotten`: Spec => []RunningTimersAreKept
* `ClockIsInTime`: Spec => []ClockWakesInTime
* `QuietAfterwards`: Spec => QuietAfterWait

The invariant `TimerInv` is `ObjectInv`, the types, that the clock's thread lives
as long as a timer runs (`ClockLives`), and the two properties of the queue.
`RunningTimersAreKept` needs `OneThread`: the clock restarts a timer it takes out
of its queue, and that the restart is not lost is what `RestartKept` says.  `ClockWakesInTime` needs that `Min` of the due times is
the least of them, which is a lemma from the library's facts about well-founded
orders, as `Min` is a CHOOSE.

`Network_proofs` proves of `Server`, for any number of connections, of listeners
and of callers of `clear()` and any limits:

* `CountIsExact`: Spec => []ThreadCountExact
* `OnlyOpenConnections`: Spec => []ConsAreOpen
* `BelowLimit`: Spec => []AcceptsBelowLimit
* `ServerWakeups`: Spec => []NoLostWakeup

The invariant `ServerInv` adds where the connection is that the listener holds
(`ClientOpen`) and that a listener in the loop keeps `running` set, which is why
no second one comes beside it.  The set of connections with a thread grows and
shrinks by one, by the facts of `FiniteSetTheorems`.  The last two theorems follow
from what stays true of the limit that the listener compared with (`tested`):
while it accepts, the threads are fewer (`StaysBelow`), because only the listener
makes threads; while it sleeps, `thread_count` is no less (`SleepInv`), because
each end of a thread wakes it.  What the limit is by now does not enter; the
exceptions of the two properties are the cases in which that matters.

It proves of `Bridge`, for pipes and wires of any size:

* `ObjectsInBrackets`: BridgeSpec => []StatusesBracketObjects
* `ConnectionsKept`: BridgeSpec => []ConnectionIsStable

The invariant `BridgeInv` says that the two flags are raised only while
`connect_thread()` waits, which is how the connection is lent and taken back
(`Lent`), and what the newest entry of the stream is then (`NewestTells`).

`Bsp_proofs` proves, for any number of nodes and messages, any interleaving of
their read threads and any deaths:

* `MessagesAreCounted`: Spec => []OutstandingExact

and, with the hypothesis `DirectedRoutes`:

* `Invariance`: Spec => []IInv
* `CountersStayExact`: Spec => []CountersExact
* `BarrierStaysQuiet`: Spec => BarrierIsQuiet
* `RefinesSupersteps`: Spec => ImplementsSupersteps

`DirectedRoutes` says that a worker to which programs send messages sends to the
control node only.  It is what separates the run `bsp` from `bsp_chain`: without
it `BarrierIsQuiet` is false, as that run shows, and with it programs still send
from anywhere to the control node, from the control node to anyone and, from
workers that get nothing, to other workers.  The code does not ask its users for
it; the theorems say for which programs the header's promise is kept.
`MessagesAreCounted` needs no hypothesis: `outstanding_messages`, the SENT_MESSAGE
and GOT_MESSAGE on their way, the content on its way and the messages refused by
nodes that had ended always add up.  So the superstep that ends too early in
`bsp_chain` is no miscount: a notice arrives before another that was due earlier.

The proof is about `Net`, the set of all messages in streams and buffers.  Because
messages are numbered it loses nothing, and its parts are counted with the facts
of `FiniteSetTheorems`, where a sum over sequences would need induction.
`Ordered` says that each link delivers what was written on it once and in order,
except that a buffer serves a later epoch later; it is proved for the
operations on streams and buffers (write, move, take) before any action, and each
action is then described by what it writes and takes (`Act`, `Pulls`, `Sending`).
`Base` says what follows for each worker: after it said that it waits it does so
until it says that it got something or is told (`WaitsAt`); what it sends after
it got something is not announced later than it arrives (`SentsAt`, which is where
`DirectedRoutes` enters); that it has ended is its last word (`TermsAt`); it is
told once per epoch, while it waits (`ToldsAt`).  The inductive invariant `IInv`
adds the two counters (`OutstandingExact`, `WaitingExact`) and `WaitingBound`: the
control node never counts more waiting nodes than there are workers whose next
word is that they got something, or who wait and have nothing more to say.
When `AllInWaitingState` holds, all workers that have not ended are of this kind.
Then every SENT_MESSAGE on its way comes with content of its own, so the equation
of `OutstandingExact` leaves room for no content at all (`Quiet`), and the
superstep may end.  `RefinesSupersteps` goes action by action: each is one action
of `Supersteps` on `State` and `Transit`, or leaves both alone; a message taken is
the least of its link because content of one epoch is served in order and all
content on its way belongs to the epoch of the control node.

Beyond the hypotheses named above (`DirectedRoutes`, `StrayWhileGathering = FALSE`)
the assumptions are the named ones of the modules: finite sets, distinct model
values, natural numbers.

Every safety property that a passing run checks is stated by a theorem.  Only
model-checked are the liveness properties: `CallsEnd` beyond its first part and
`ItemsAreTaken` of `Pipe`, `SomeoneGetsIn` of `ReadWriteMutex`, `CallsReturn` of
`ThreadPool`, `RequestsEnd` of `Threader`, `StopEndsAll` of `MultithreadedObject`,
`ReceiveReturns` of `Bsp`, `TimersFire` of `Timer`, `ClearReturns` of `Server`,
`DestructorReturns` and `BrokenIsGivenUp` of `Bridge`.  Liveness under fairness and
ENABLED are beyond the prover's installed back ends, as is induction over data; no
module uses RECURSIVE.

## Not modelled

The table above with PROJECT.json gives the reasons.  In short:

* Operating system objects and sockets are the ground the models stand on.
* rmutex and rsignaler: the modules above take their promise, that a wait gives
  up every level.  thread_function, async and parallel_for hand functions to
  `Threader` or `ThreadPool` and keep no state of their own; of
  thread_specific_data the hard part is the end handler, in `Threader`.
* timer_heavy, timeout, server_iostream and the parsing of HTTP: variants and
  users of what is modelled.
* The JNI layer and the sample app: one global detector without a lock, used
  under the schedulers of Android and RxJava.  No document says which calls may
  overlap, so there is no promise to check; the hazards are in PROJECT.json.
* Sequential containers and codecs are within reach of unit tests; numerical
  code, images and GUI are out of the reach of a model checker.

## Plan

Modelled, in this order: `Pipe`, `ReadWriteMutex`, `ThreadPool`, `Threader`,
`MultithreadedObject`, `Bsp`, `ThreadedObject` with `Timer`, `Server`, `Bridge`.

Worth modelling next: the connection set-up of `Bsp`; `RMutex`; an abstract
specification of the thread pool (each task once, each exception once) with
parallel_for on top of it.  New runs take the place of those whose property has
been proved for all sizes.

Theorems worth proving next: of the modules that call another as external code,
that what they assume of it is what the other module's theorems say; of `Bsp`, the
weakest condition on the routes for which the barrier is quiet.
