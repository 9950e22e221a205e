------------------------------ MODULE ThreadPool ------------------------------
(***************************************************************************)
(* dlib::thread_pool (threads/thread_pool_extension.h and .cpp).           *)
(*                                                                         *)
(* The pool has one task slot per worker thread.  add_task() puts a task   *)
(* into an empty slot; when there is none, a client waits and a worker     *)
(* runs the task itself, inside add_task().  A worker thread therefore has *)
(* a stack of running tasks, the bottom one of which came from a slot.  An *)
(* exception that leaves a slot's task is kept in the slot and rethrown by *)
(* the next call of add_task() or of a wait function, whoever makes it.    *)
(*                                                                         *)
(* What a task does is given by constants: it may submit a child, then     *)
(* wait_for_all_tasks(), then throw.  An exception is named by the task    *)
(* that threw it.  All member functions hold the mutex m except while they *)
(* sleep on a signaler or run a task.                                      *)
(***************************************************************************)
EXTENDS Integers, Sequences, FiniteSets

CONSTANTS
  Workers, Clients,
  Jobs,           \* the tasks that can be submitted, each at most once
  NoJob,
  Roots,          \* those that clients submit
  Child,          \* Child[j] is the task that j submits, or NoJob
  Waiting,        \* those that call wait_for_all_tasks() after that
  Throwing        \* those that end with an exception

Threads == Workers \cup Clients
N == Cardinality(Workers)
Slots == 0..(N - 1)

ASSUME PoolAssumption ==
  /\ IsFiniteSet(Threads) /\ Workers \cap Clients = {}
  /\ IsFiniteSet(Jobs) /\ NoJob \notin Jobs
  /\ Roots \subseteq Jobs /\ Waiting \subseteq Jobs /\ Throwing \subseteq Jobs
  /\ Child \in [Jobs -> Jobs \cup {NoJob}]
  /\ \A j \in Jobs : Child[j] # NoJob =>    \* one submission of each task
       Child[j] \notin Roots /\ \A k \in Jobs : Child[j] = Child[k] => j = k

VARIABLES
  tasks,                  \* the slots
  worker_thread_ids,
  task_done_signaler, task_ready_signaler,   \* who sleeps on each signaler
  we_are_destructing,
  pc,                     \* where each worker is in thread()
  stack,                  \* the tasks each thread is running, innermost last
  call,                   \* the pool function a thread sleeps in
  ids,                    \* the id add_task() returned for a task, 0 before
  life,                   \* of the thread_pool object
  ran, done,              \* history: how often each task ran, which ended,
  thrown, caught          \* which threw, and which exceptions reached a client

pool == <<tasks, worker_thread_ids, task_done_signaler, task_ready_signaler, we_are_destructing>>
threads == <<pc, stack, call, ids>>
history == <<ran, done, thrown, caught>>
vars == <<pool, threads, life, history>>

NoCall == [op |-> "none", arg |-> NoJob]
EmptySlot == [is_being_processed |-> FALSE, task_id |-> 0, thread_id |-> NoJob,
              next_task_id |-> 2, bfp |-> NoJob, eptr |-> NoJob]

Init ==
  /\ tasks = [i \in Slots |-> EmptySlot]
  /\ worker_thread_ids = {}
  /\ task_done_signaler = {} /\ task_ready_signaler = {}
  /\ we_are_destructing = FALSE
  /\ pc = [w \in Workers |-> "start"]
  /\ stack = [t \in Threads |-> <<>>]
  /\ call = [t \in Threads |-> NoCall]
  /\ ids = [j \in Jobs |-> 0]
  /\ life = "alive"
  /\ ran = [j \in Jobs |-> 0] /\ done = {} /\ thrown = {} /\ caught = {}

-----------------------------------------------------------------------------
(* The slots *)

is_empty(i) == tasks[i].task_id = 0
is_ready(i) == ~tasks[i].is_being_processed /\ ~is_empty(i)

EmptySlots == {i \in Slots : is_empty(i)}
ReadySlots == {i \in Slots : is_ready(i)}
ThrownSlots == {i \in Slots : tasks[i].eptr # NoJob}
Lowest(S) == CHOOSE i \in S : \A k \in S : i <= k

\* Mutant: nobody runs a task inside add_task().
is_worker_threadMutant(t) == N = 0
is_worker_thread(t) == t \in worker_thread_ids \/ N = 0

\* Slot i belongs to a task that thread t submitted and that has not ended.
Pending(t, i) == ~is_empty(i) /\ tasks[i].thread_id = t

next_id(i) == tasks[i].next_task_id * N + i
task_id_to_index(id) == id % N

\* Mutant: the test for running tasks is forgotten.
AllTasksEndedMutant == ReadySlots = {}
AllTasksEnded == EmptySlots = Slots

\* What a signaler's sleepers can be after signal() and after broadcast().
\* Mutants: the signal is forgotten; one thread is signaled instead of all.
SignalMutant(S) == {S}
Signal(S) == IF S = {} THEN {S} ELSE {S \ {t} : t \in S}
BroadcastMutant(S) == IF S = {} THEN S ELSE S \ {CHOOSE t \in S : TRUE}
Broadcast(S) == {}

-----------------------------------------------------------------------------
(* Threads and the tasks they run *)

Frame(job, slot) == [job |-> job, slot |-> slot, at |-> "begin", exc |-> NoJob]
Top(t) == stack[t][Len(stack[t])]
SetTop(s, at) == [s EXCEPT ![Len(s)].at = at]

\* The code of t's innermost task (or of the client) can take a step.
Runs(t) == call[t].op = "none" /\ life # "terminated"
InTask(t, at) == Runs(t) /\ stack[t] # <<>> /\ Top(t).at = at
InClientCode(t) == t \in Clients /\ Runs(t) /\ stack[t] = <<>> /\ life = "alive"

Woken(t, op) == call[t].op = op /\ t \notin task_done_signaler

\* The task of t that has come back from add_task() goes on; a client has none.
AfterAdd(t) == IF stack[t] = <<>> THEN <<>> ELSE SetTop(stack[t], "submitted")

\* Exception e leaves a pool function that t has called, or an innermost task:
\* it unwinds the tasks t runs inside add_task() down to the slot's task, where
\* thread() catches it, or to the client.
Raise(t, e) ==
  /\ call' = [call EXCEPT ![t] = NoCall]
  /\ IF t \in Workers
     THEN /\ stack' = [stack EXCEPT ![t] = <<[stack[t][1] EXCEPT !.at = "end", !.exc = e]>>]
          /\ done' = done \cup {stack[t][k].job : k \in 2..Len(stack[t])}
          /\ UNCHANGED caught
     ELSE /\ stack' = [stack EXCEPT ![t] = <<>>]
          /\ done' = done \cup {stack[t][k].job : k \in 1..Len(stack[t])}
          /\ caught' = caught \cup {e}

\* propagate_exception() over all slots rethrows the first exception it finds.
Propagate(t) ==
  /\ ThrownSlots # {}
  /\ LET i == Lowest(ThrownSlots) IN
     /\ tasks' = [tasks EXCEPT ![i].eptr = NoJob]
     /\ Raise(t, tasks[i].eptr)

-----------------------------------------------------------------------------
(* add_task() *)

AddThrows(t) ==
  /\ Propagate(t)
  /\ UNCHANGED <<task_ready_signaler, task_done_signaler, pc, ids, ran>>

\* Mutant: the slot's next id is not advanced.
FilledSlotMutant(slot, t, j, id) ==
  [slot EXCEPT !.thread_id = t, !.task_id = id, !.bfp = j]
FilledSlot(slot, t, j, id) ==
  [slot EXCEPT !.thread_id = t, !.task_id = id, !.bfp = j,
               !.next_task_id = slot.next_task_id + 1]

AddStores(t, j) ==
  /\ ThrownSlots = {} /\ EmptySlots # {}
  /\ LET i == Lowest(EmptySlots) IN
     /\ tasks' = [tasks EXCEPT ![i] = FilledSlot(tasks[i], t, j, next_id(i))]
     /\ ids' = [ids EXCEPT ![j] = next_id(i)]
  /\ task_ready_signaler' \in Signal(task_ready_signaler)
  /\ stack' = [stack EXCEPT ![t] = AfterAdd(t)]
  /\ call' = [call EXCEPT ![t] = NoCall]
  /\ UNCHANGED <<task_done_signaler, pc, ran, done, caught>>

\* No slot is free: a worker runs the task inside the call, which returns id 1.
AddInline(t, j) ==
  /\ ThrownSlots = {} /\ EmptySlots = {}
  /\ is_worker_thread(t) /\ call[t].op = "none"
  /\ stack' = [stack EXCEPT ![t] = Append(AfterAdd(t), Frame(j, -1))]
  /\ ids' = [ids EXCEPT ![j] = 1]
  /\ ran' = [ran EXCEPT ![j] = @ + 1]
  /\ UNCHANGED <<tasks, task_ready_signaler, task_done_signaler, pc, call, done, caught>>

\* No slot is free: another thread waits for one.
AddSleeps(t, j) ==
  /\ ThrownSlots = {} /\ EmptySlots = {}
  /\ ~is_worker_thread(t)
  /\ task_done_signaler' = task_done_signaler \cup {t}
  /\ call' = [call EXCEPT ![t] = [op |-> "add_task", arg |-> j]]
  /\ UNCHANGED <<tasks, task_ready_signaler, pc, stack, ids, ran, done, caught>>

AddTask(t, j) ==
  /\ AddThrows(t) \/ AddStores(t, j) \/ AddInline(t, j) \/ AddSleeps(t, j)
  /\ UNCHANGED <<worker_thread_ids, we_are_destructing, life, thrown>>

AddTaskWakes(t) == Woken(t, "add_task") /\ AddTask(t, call[t].arg)

-----------------------------------------------------------------------------
(* wait_for_task() and wait_for_all_tasks() *)

\* Both functions from the test of their loop on.
WaitFor(t, op, arg, unfinished) ==
  /\ \/ /\ unfinished
        /\ task_done_signaler' = task_done_signaler \cup {t}
        /\ call' = [call EXCEPT ![t] = [op |-> op, arg |-> arg]]
        /\ UNCHANGED <<tasks, stack, done, caught>>
     \/ /\ ~unfinished
        /\ Propagate(t)
        /\ UNCHANGED task_done_signaler
     \/ /\ ~unfinished /\ ThrownSlots = {}
        /\ call' = [call EXCEPT ![t] = NoCall]
        /\ stack' = IF stack[t] = <<>> THEN stack
                    ELSE [stack EXCEPT ![t] = SetTop(stack[t], "waited")]
        /\ UNCHANGED <<tasks, task_done_signaler, done, caught>>
  /\ UNCHANGED <<worker_thread_ids, task_ready_signaler, we_are_destructing, pc, ids, life, ran, thrown>>

WaitAll(t) == WaitFor(t, "wait_for_all_tasks", NoJob, \E i \in Slots : Pending(t, i))
WaitAllWakes(t) == Woken(t, "wait_for_all_tasks") /\ WaitAll(t)

WaitTask(t, j) ==
  WaitFor(t, "wait_for_task", j, N # 0 /\ tasks[task_id_to_index(ids[j])].task_id = ids[j])
WaitTaskWakes(t) == Woken(t, "wait_for_task") /\ WaitTask(t, call[t].arg)

-----------------------------------------------------------------------------
(* The body of a task *)

SubmitsChild(t) ==
  /\ InTask(t, "begin")
  /\ Child[Top(t).job] # NoJob
  /\ AddTask(t, Child[Top(t).job])

WaitsForAll(t) ==
  /\ InTask(t, "submitted") \/ (InTask(t, "begin") /\ Child[Top(t).job] = NoJob)
  /\ Top(t).job \in Waiting
  /\ WaitAll(t)

AtEnd(t) ==
  /\ Runs(t) /\ stack[t] # <<>>
  /\ \/ Top(t).at = "waited"
     \/ Top(t).job \notin Waiting /\ Top(t).at = "submitted"
     \/ /\ Top(t).job \notin Waiting /\ Top(t).at = "begin"
        /\ Child[Top(t).job] = NoJob

EndTask(t) ==
  /\ AtEnd(t)
  /\ LET job == Top(t).job IN
     \/ /\ job \in Throwing
        /\ Raise(t, job)
        /\ thrown' = thrown \cup {job}
     \/ /\ job \notin Throwing
        /\ Top(t).slot = -1      \* back to the caller of add_task()
        /\ stack' = [stack EXCEPT ![t] = SubSeq(@, 1, Len(@) - 1)]
        /\ done' = done \cup {job}
        /\ UNCHANGED <<call, thrown, caught>>
     \/ /\ job \notin Throwing
        /\ Top(t).slot # -1      \* back to thread()
        /\ stack' = [stack EXCEPT ![t] = SetTop(@, "end")]
        /\ UNCHANGED <<call, done, thrown, caught>>
  /\ UNCHANGED <<pool, pc, ids, life, ran>>

-----------------------------------------------------------------------------
(* thread() *)

Register(w) ==
  /\ pc[w] = "start"
  /\ worker_thread_ids' = worker_thread_ids \cup {w}
  /\ pc' = [pc EXCEPT ![w] = "loop"]
  /\ UNCHANGED <<tasks, task_done_signaler, task_ready_signaler, we_are_destructing,
                 stack, call, ids, life, history>>

LooksForWork(w) == pc[w] = "loop" /\ w \notin task_ready_signaler

\* Mutant: the slot is not marked as taken.
TakenSlotMutant(slot) == slot
TakenSlot(slot) == [slot EXCEPT !.is_being_processed = TRUE]

FindTask(w) ==
  /\ LooksForWork(w)
  /\ \/ /\ we_are_destructing
        /\ pc' = [pc EXCEPT ![w] = "exit"]
        /\ UNCHANGED <<tasks, task_ready_signaler, stack, ran>>
     \/ /\ ~we_are_destructing /\ ReadySlots = {}
        /\ task_ready_signaler' = task_ready_signaler \cup {w}
        /\ UNCHANGED <<tasks, pc, stack, ran>>
     \/ /\ ~we_are_destructing /\ ReadySlots # {}
        /\ LET i == Lowest(ReadySlots) IN
           /\ tasks' = [tasks EXCEPT ![i] = TakenSlot(tasks[i])]
           /\ stack' = [stack EXCEPT ![w] = <<Frame(tasks[i].bfp, i)>>]
           /\ ran' = [ran EXCEPT ![tasks[i].bfp] = @ + 1]
        /\ pc' = [pc EXCEPT ![w] = "run"]
        /\ UNCHANGED task_ready_signaler
  /\ UNCHANGED <<worker_thread_ids, task_done_signaler, we_are_destructing,
                 call, ids, life, done, thrown, caught>>

\* Mutant: the exception is not stored.
ClearedSlotMutant(slot, e) ==
  [slot EXCEPT !.is_being_processed = FALSE, !.task_id = 0, !.bfp = NoJob]
ClearedSlot(slot, e) ==
  [slot EXCEPT !.is_being_processed = FALSE, !.task_id = 0, !.bfp = NoJob, !.eptr = e]

FinishTask(w) ==
  /\ w \in Workers /\ InTask(w, "end")
  /\ LET f == stack[w][1] IN
     /\ tasks' = [tasks EXCEPT ![f.slot] = ClearedSlot(tasks[f.slot], f.exc)]
     /\ done' = done \cup {f.job}
  /\ task_done_signaler' = Broadcast(task_done_signaler)
  /\ stack' = [stack EXCEPT ![w] = <<>>]
  /\ pc' = [pc EXCEPT ![w] = "loop"]
  /\ UNCHANGED <<worker_thread_ids, task_ready_signaler, we_are_destructing,
                 call, ids, life, ran, thrown, caught>>

-----------------------------------------------------------------------------
(* The clients and the destructor *)

ClientAdds(c) ==
  /\ InClientCode(c)
  /\ \E j \in Roots :
       /\ ids[j] = 0 /\ \A d \in Clients : call[d].arg # j
       /\ AddTask(c, j)

ClientWaits(c) ==
  /\ InClientCode(c)
  /\ \/ WaitAll(c)
     \/ \E j \in Jobs : ids[j] # 0 /\ WaitTask(c, j)

\* shutdown_pool() by a client while no other client is inside the object.
ShutdownFrom(c) ==
  /\ \/ /\ ~AllTasksEnded
        /\ task_done_signaler' = task_done_signaler \cup {c}
        /\ call' = [call EXCEPT ![c] = [op |-> "shutdown", arg |-> NoJob]]
        /\ life' = "closing"
        /\ UNCHANGED <<we_are_destructing, task_ready_signaler>>
     \/ /\ AllTasksEnded
        /\ we_are_destructing' = TRUE
        /\ task_ready_signaler' = Broadcast(task_ready_signaler)
        /\ call' = [call EXCEPT ![c] = [op |-> "join", arg |-> NoJob]]
        /\ life' = "joining"
        /\ UNCHANGED task_done_signaler
  /\ UNCHANGED <<tasks, worker_thread_ids, pc, stack, ids, history>>

Shutdown(c) ==
  /\ c \in Clients /\ life = "alive"
  /\ \A d \in Clients : InClientCode(d)
  /\ ShutdownFrom(c)

ShutdownWakes(c) == Woken(c, "shutdown") /\ ShutdownFrom(c)

\* All workers have ended; an exception nobody has seen ends the program.
Joined(c) ==
  /\ call[c].op = "join"
  /\ \A w \in Workers : pc[w] = "exit"
  /\ life' = IF ThrownSlots = {} THEN "destroyed" ELSE "terminated"
  /\ call' = [call EXCEPT ![c] = NoCall]
  /\ UNCHANGED <<pool, pc, stack, ids, history>>

Finished == life \in {"destroyed", "terminated"} /\ UNCHANGED vars

Proceed(t) ==
  \/ AddTaskWakes(t) \/ WaitAllWakes(t) \/ WaitTaskWakes(t)
  \/ SubmitsChild(t) \/ WaitsForAll(t) \/ EndTask(t)
  \/ ShutdownWakes(t) \/ Joined(t)

WorkerStep(w) == Register(w) \/ FindTask(w) \/ FinishTask(w)

Next ==
  \/ \E t \in Threads : Proceed(t)
  \/ \E w \in Workers : WorkerStep(w)
  \/ \E c \in Clients : ClientAdds(c) \/ ClientWaits(c) \/ Shutdown(c)
  \/ Finished

\* The scheduler runs every thread that can run and tasks end; clients need not call.
Fairness ==
  /\ \A t \in Threads : WF_vars(Proceed(t))
  /\ \A w \in Workers : WF_vars(WorkerStep(w))

Spec == Init /\ [][Next]_vars
FairSpec == Spec /\ Fairness

-----------------------------------------------------------------------------
(* Properties *)

Sleeping(t) == call[t].op # "none"
RunningFrames(j) ==
  UNION {{<<t, k>> : k \in {l \in 1..Len(stack[t]) : stack[t][l].job = j}} : t \in Threads}
Count(cond) == IF cond THEN 1 ELSE 0

\* The values the variables take.
TypeOK ==
  /\ tasks \in [Slots -> [is_being_processed : BOOLEAN, task_id : Nat,
                         thread_id : Threads \cup {NoJob}, next_task_id : Nat \ {0, 1},
                         bfp : Jobs \cup {NoJob}, eptr : Jobs \cup {NoJob}]]
  /\ worker_thread_ids \subseteq Workers
  /\ task_done_signaler \subseteq {t \in Threads : Sleeping(t)}
  /\ task_ready_signaler \subseteq {w \in Workers : pc[w] = "loop"}
  /\ we_are_destructing \in BOOLEAN
  /\ pc \in [Workers -> {"start", "loop", "run", "exit"}]
  /\ stack \in [Threads -> Seq([job : Jobs, slot : Slots \cup {-1}, exc : Jobs \cup {NoJob},
                                at : {"begin", "submitted", "waited", "end"}])]
  /\ ids \in [Jobs -> Nat]
  /\ life \in {"alive", "closing", "joining", "destroyed", "terminated"}

\* Every task that add_task() accepted is in exactly one place, waiting in a
\* slot, running in one thread, or ended, and it is started exactly once,
\* whether a worker took it from a slot or ran it inside add_task().  The pool
\* is shut down only when all of them have ended.
TasksAccountedFor ==
  /\ TypeOK
  /\ \A j \in Jobs :
       LET waiting == {i \in ReadySlots : tasks[i].bfp = j} IN
       /\ Cardinality(waiting) + Cardinality(RunningFrames(j)) + Count(j \in done) = Count(ids[j] # 0)
       /\ ran[j] = Count(ids[j] # 0 /\ waiting = {})
       /\ we_are_destructing /\ ids[j] # 0 => j \in done

\* An exception that left a task is kept in one place, a slot, the task it
\* went through or the client that caught it: none is overwritten by the next
\* task of its slot, delivered twice, or dropped by a clean destruction.
ExceptionsKept ==
  /\ \A j \in thrown :
       Cardinality({i \in Slots : tasks[i].eptr = j})
         + Cardinality({w \in Workers : stack[w] # <<>> /\ stack[w][1].exc = j})
         + Count(j \in caught) = 1
  /\ life = "destroyed" => caught = thrown

\* The id that add_task() returned says whether the task has ended, although
\* slots are used again: this is all that wait_for_task() looks at.
IdsNameTasks ==
  \A j \in Jobs :
    /\ N # 0 /\ ids[j] > 1 =>
         (tasks[task_id_to_index(ids[j])].task_id = ids[j] <=> j \notin done)
    /\ \A k \in Jobs : ids[j] = ids[k] /\ ids[j] > 1 => j = k

\* One signal per task and one broadcast per ended task are enough: no worker
\* sleeps unless each waiting task has another worker on its way, and nobody
\* sleeps in add_task() or a wait function without a reason.
NoLostWakeup ==
  /\ task_ready_signaler # {} =>
       Cardinality(ReadySlots)
         <= Cardinality({w \in Workers : pc[w] = "start" \/ LooksForWork(w)})
  /\ \A t \in task_done_signaler :
       /\ call[t].op = "add_task" => EmptySlots = {}
       /\ call[t].op = "wait_for_all_tasks" => \E i \in Slots : Pending(t, i)
       /\ call[t].op = "shutdown" => EmptySlots # Slots

\* No call of the pool sleeps for ever, and every accepted task ends: tasks that
\* submit others and wait for them do not use up the workers, because
\* add_task() runs them inline.
CallsReturn ==
  /\ \A t \in Threads : Sleeping(t) ~> ~Sleeping(t)
  /\ \A j \in Jobs : (ids[j] # 0) ~> (j \in done)
=============================================================================
