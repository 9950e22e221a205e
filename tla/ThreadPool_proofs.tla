--------------------------- MODULE ThreadPool_proofs ---------------------------
(***************************************************************************)
(* The safety properties of ThreadPool, for any number of workers (none    *)
(* included), clients and tasks, whatever the tasks do.                    *)
(*                                                                         *)
(* The inductive invariant says what a slot, a stack of running tasks and  *)
(* a sleeping call are, in which one place a task and an exception is, and *)
(* what ids are made of.  The properties count places: they follow from    *)
(* the invariant because what has one place is counted once.               *)
(***************************************************************************)
EXTENDS ThreadPool, FiniteSetTheorems, SequenceTheorems, WellFoundedInduction, TLAPS

\* The tasks in the slots that no worker has taken, and those t is running.
WaitingJobs == {tasks[i].bfp : i \in ReadySlots}
JobsOn(s) == {s[k].job : k \in 1..Len(s)}

FrameType == [job : Jobs, slot : Slots \cup {-1}, exc : Jobs \cup {NoJob},
              at : {"begin", "submitted", "waited", "end"}]
SlotType == [is_being_processed : BOOLEAN, task_id : Nat, thread_id : Threads \cup {NoJob},
             next_task_id : Nat \ {0, 1}, bfp : Jobs \cup {NoJob}, eptr : Jobs \cup {NoJob}]
Ops == {"none", "add_task", "wait_for_task", "wait_for_all_tasks", "shutdown", "join"}

\* What the variables hold, besides TypeOK.
HistoryOK ==
  /\ call \in [Threads -> [op : Ops, arg : Jobs \cup {NoJob}]]
  /\ ran \in [Jobs -> Nat]
  /\ done \subseteq Jobs /\ thrown \subseteq Jobs

\* What a stack of tasks is: in a worker's stack the lowest task came from a slot.
StacksOK ==
  /\ \A t \in Threads : \A k \in 1..Len(stack[t]) :
       /\ stack[t][k].slot # -1 <=> t \in Workers /\ k = 1
       /\ stack[t][k].at = "end" => t \in Workers /\ Len(stack[t]) = 1
       /\ stack[t][k].exc # NoJob => stack[t][k].at = "end"
       /\ stack[t][k].slot = -1 => ids[stack[t][k].job] = 1
  /\ \A w \in Workers : stack[w] # <<>> <=> pc[w] = "run"
  /\ \A w \in Workers : pc[w] # "start" => w \in worker_thread_ids
  /\ \A c \in Clients : stack[c] # <<>> => N = 0

\* A slot that is being processed belongs to one worker, which runs its task.
SlotsOK ==
  /\ \A i \in Slots :
       /\ ~is_empty(i) => /\ tasks[i].bfp \in Jobs /\ tasks[i].eptr = NoJob
                          /\ ids[tasks[i].bfp] = tasks[i].task_id
       /\ tasks[i].is_being_processed =>
            ~is_empty(i) /\ \E w \in Workers : stack[w] # <<>> /\ stack[w][1].slot = i
  /\ \A w \in Workers : stack[w] # <<>> =>
       LET i == stack[w][1].slot IN
       /\ tasks[i].is_being_processed /\ tasks[i].bfp = stack[w][1].job
       /\ \A x \in Workers : stack[x] # <<>> /\ stack[x][1].slot = i => x = w

\* A submitted task waits, runs or has ended, and is in one place.
PlacesOK ==
  /\ \A i, k \in ReadySlots : tasks[i].bfp = tasks[k].bfp => i = k
  /\ \A t, u \in Threads : \A k \in 1..Len(stack[t]), l \in 1..Len(stack[u]) :
       stack[t][k].job = stack[u][l].job => t = u /\ k = l
  /\ \A t \in Threads : JobsOn(stack[t]) \cap (WaitingJobs \cup done) = {}
  /\ WaitingJobs \cap done = {}
  /\ \A j \in Jobs : ids[j] # 0 <=> \/ j \in WaitingJobs \cup done
                                    \/ \E t \in Threads : j \in JobsOn(stack[t])
  /\ \A j \in Jobs : ran[j] = Count(ids[j] # 0 /\ j \notin WaitingJobs)

\* A task is submitted by the one that has it as child, after that one began.
ChildrenOK ==
  /\ \A j \in Jobs : Child[j] # NoJob /\ (ids[j] = 0 \/ j \in WaitingJobs) => ids[Child[j]] = 0
  /\ \A t \in Threads : \A k \in 1..Len(stack[t]) :
       stack[t][k].at = "begin" /\ Child[stack[t][k].job] # NoJob =>
         ids[Child[stack[t][k].job]] = 0

\* Ids above 1 are made of a slot and of a number that the slot has used up.
IdsOK ==
  /\ \A j \in Jobs : ids[j] > 1 =>
       \E i \in Slots : \E n \in 2..(tasks[i].next_task_id - 1) : ids[j] = n * N + i
  /\ \A i \in Slots : ~is_empty(i) => tasks[i].task_id > 1 /\ task_id_to_index(tasks[i].task_id) = i
  /\ \A j, k \in Jobs : ids[j] = ids[k] /\ ids[j] > 1 => j = k

\* Who sleeps in which function, and when.
CallsOK ==
  /\ \A t \in Threads :
       /\ call[t].op = "add_task" =>
            /\ t \in Clients /\ N # 0 /\ stack[t] = <<>>
            /\ call[t].arg \in Roots /\ ids[call[t].arg] = 0
       /\ t \in Workers => call[t].op \in {"none", "wait_for_all_tasks"}
       /\ t \in Workers /\ call[t].op # "none" => stack[t] # <<>> /\ stack[t][1].at # "end"
       /\ call[t].op = "wait_for_task" => call[t].arg \in Jobs
  /\ \A t \in task_done_signaler : call[t].op # "join"
  /\ \A c, d \in Clients :
       /\ call[c].op = "add_task" /\ call[d].op = "add_task" /\ call[c].arg = call[d].arg => c = d
       /\ call[c].op \in {"shutdown", "join"} /\ call[d].op \in {"shutdown", "join"} => c = d

LifeOK ==
  /\ \A c \in Clients :
       /\ life # "alive" => stack[c] = <<>> /\ call[c].op \in {"none", "shutdown", "join"}
       /\ call[c].op = "shutdown" => life = "closing"
       /\ call[c].op = "join" => life = "joining"
  /\ we_are_destructing <=> life \in {"joining", "destroyed", "terminated"}
  /\ we_are_destructing => AllTasksEnded /\ \A t \in Threads : stack[t] = <<>>
  /\ life = "destroyed" => ThrownSlots = {}

\* An exception that was thrown is in one slot, or passes through the lowest
\* task of one worker, or has reached a client.
ExcOf(w) == IF stack[w] = <<>> THEN NoJob ELSE stack[w][1].exc
ExceptionsOK ==
  /\ caught \subseteq thrown
  /\ \A i \in Slots : tasks[i].eptr # NoJob => tasks[i].eptr \in thrown \ caught
  /\ \A w \in Workers : ExcOf(w) # NoJob => ExcOf(w) \in thrown \ caught
  /\ \A i, k \in Slots : tasks[i].eptr # NoJob /\ tasks[i].eptr = tasks[k].eptr => i = k
  /\ \A w, x \in Workers : ExcOf(w) # NoJob /\ ExcOf(w) = ExcOf(x) => w = x
  /\ \A i \in Slots, w \in Workers : tasks[i].eptr # NoJob => tasks[i].eptr # ExcOf(w)
  /\ \A j \in thrown \ caught : \/ \E i \in Slots : tasks[i].eptr = j
                                \/ \E w \in Workers : ExcOf(w) = j
  /\ \A j \in thrown : ids[j] # 0 /\ j \notin WaitingJobs
  /\ \A t \in Threads : \A k \in 1..Len(stack[t]) :
       stack[t][k].job \in thrown => stack[t][k].at = "end"

PoolInv ==
  /\ TypeOK /\ HistoryOK /\ StacksOK /\ SlotsOK /\ PlacesOK /\ ChildrenOK /\ IdsOK
  /\ CallsOK /\ LifeOK /\ ExceptionsOK

USE PoolAssumption

-----------------------------------------------------------------------------
(* Slots and their numbers *)

LEMMA NumberOfWorkers == N \in Nat /\ (N = 0 <=> Workers = {})
<1>1. IsFiniteSet(Workers)
  BY FS_Subset DEF Threads
<1> QED
  BY <1>1, FS_CardinalityType, FS_EmptySet DEF N

LEMMA LowestIs ==
  ASSUME NEW S \in SUBSET Slots, S # {}
  PROVE  Lowest(S) \in S
<1> DEFINE less == {p \in Nat \X Nat : p[1] < p[2]}
<1>1. IsWellFoundedOn(less, Nat)
  BY NatLessThanWellFounded, Zenon DEF OpToRel
<1>2. S \in SUBSET Nat
  BY NumberOfWorkers DEF Slots
<1>3. PICK m \in S : \A n \in S : <<n, m>> \notin less
  BY <1>1, <1>2, WFMin, Zenon
<1>4. \A n \in S : m <= n
  <2> SUFFICES ASSUME NEW n \in S, ~(m <= n) PROVE FALSE
    OBVIOUS
  <2>1. n < m /\ n \in Nat /\ m \in Nat
    BY <1>2
  <2>2. <<n, m>> \in less
    BY <2>1
  <2> QED
    BY <1>3, <2>2
<1> QED
  BY <1>4 DEF Lowest

\* n * m + i is in the n-th block of m numbers, at place i.
LEMMA BlockIsUnique ==
  ASSUME NEW m \in Nat \ {0}, NEW n \in Int, NEW l \in Int,
         NEW i \in 0..(m - 1), NEW k \in 0..(m - 1), n * m + i = l * m + k
  PROVE  n = l /\ i = k
<1>1. CASE n > l
  <2>1. n * m >= l * m + m
    <3>1. n - l - 1 \in Nat
      BY <1>1
    <3>2. (n - l - 1) * m >= 0
      BY <3>1
    <3>3. (n - l - 1) * m = n * m - l * m - m
      OBVIOUS
    <3> QED
      BY <3>2, <3>3
  <2> QED
    BY <2>1
<1>2. CASE l > n
  <2>1. l * m >= n * m + m
    <3>1. l - n - 1 \in Nat
      BY <1>2
    <3>2. (l - n - 1) * m >= 0
      BY <3>1
    <3>3. (l - n - 1) * m = l * m - n * m - m
      OBVIOUS
    <3> QED
      BY <3>2, <3>3
  <2> QED
    BY <2>1
<1> QED
  BY <1>1, <1>2

LEMMA PlaceInBlock ==
  ASSUME NEW m \in Nat \ {0}, NEW n \in Nat, NEW i \in 0..(m - 1)
  PROVE  /\ n * m + i \in Nat
         /\ (n * m + i) % m = i
         /\ n > 1 => n * m + i > 1
<1>1. n * m + i \in Nat
  OBVIOUS
<1>2. (n * m + i) % m = i
  OBVIOUS
<1>3. n > 1 => n * m + i > 1
  <2> SUFFICES ASSUME n > 1 PROVE n * m + i > 1
    OBVIOUS
  <2>1. (n - 1) * (m - 1) >= 0
    OBVIOUS
  <2>2. (n - 1) * (m - 1) = n * m - n - m + 1
    OBVIOUS
  <2> QED
    BY <2>1, <2>2
<1> QED
  BY <1>1, <1>2, <1>3

-----------------------------------------------------------------------------
(* What the operations on slots and stacks do *)

LEMMA SlotsAre ==
  ASSUME TypeOK, NEW i \in Slots
  PROVE  /\ tasks[i] \in SlotType
         /\ i \in Nat /\ N \in Nat \ {0} /\ Slots = 0..(N - 1) /\ i # -1
BY NumberOfWorkers DEF TypeOK, SlotType, Slots

\* What is in a slot after each operation on it.
LEMMA SlotIsFilled ==
  ASSUME NEW s \in SlotType, NEW t \in Threads, NEW j \in Jobs, NEW id \in Nat
  PROVE  /\ FilledSlot(s, t, j, id) \in SlotType
         /\ FilledSlot(s, t, j, id).is_being_processed = s.is_being_processed
         /\ FilledSlot(s, t, j, id).task_id = id
         /\ FilledSlot(s, t, j, id).bfp = j
         /\ FilledSlot(s, t, j, id).thread_id = t
         /\ FilledSlot(s, t, j, id).next_task_id = s.next_task_id + 1
         /\ FilledSlot(s, t, j, id).eptr = s.eptr
<1>1. s.next_task_id + 1 \in Nat \ {0, 1}
  BY DEF SlotType
<1> QED
  BY <1>1 DEF SlotType, FilledSlot

LEMMA SlotIsTaken ==
  ASSUME NEW s \in SlotType
  PROVE  /\ TakenSlot(s) \in SlotType
         /\ TakenSlot(s).is_being_processed = TRUE
         /\ TakenSlot(s).task_id = s.task_id
         /\ TakenSlot(s).bfp = s.bfp
         /\ TakenSlot(s).thread_id = s.thread_id
         /\ TakenSlot(s).next_task_id = s.next_task_id
         /\ TakenSlot(s).eptr = s.eptr
BY DEF SlotType, TakenSlot

LEMMA SlotIsCleared ==
  ASSUME NEW s \in SlotType, NEW e \in Jobs \cup {NoJob}
  PROVE  /\ ClearedSlot(s, e) \in SlotType
         /\ ClearedSlot(s, e).is_being_processed = FALSE
         /\ ClearedSlot(s, e).task_id = 0
         /\ ClearedSlot(s, e).next_task_id = s.next_task_id
         /\ ClearedSlot(s, e).eptr = e
BY DEF SlotType, ClearedSlot

\* Stack r has the tasks of stack s.
SameTasks(s, r) ==
  /\ r \in Seq(FrameType) /\ Len(r) = Len(s)
  /\ \A k \in 1..Len(s) : r[k].job = s[k].job /\ r[k].slot = s[k].slot

LEMMA TopIsSet ==
  ASSUME NEW s \in Seq(FrameType), s # <<>>, NEW where \in {"submitted", "waited", "end"}
  PROVE  /\ SameTasks(s, SetTop(s, where))
         /\ \A k \in 1..Len(s) : /\ SetTop(s, where)[k].exc = s[k].exc
                                 /\ SetTop(s, where)[k].at =
                                      IF k = Len(s) THEN where ELSE s[k].at
<1> DEFINE n == Len(s)
           f == [s[n] EXCEPT !.at = where]
<1>1. n \in Nat \ {0} /\ n \in 1..n /\ s[n] \in FrameType /\ s \in [1..n -> FrameType]
  OBVIOUS
<1>2. /\ f \in FrameType /\ f.at = where /\ f.job = s[n].job /\ f.slot = s[n].slot
      /\ f.exc = s[n].exc
  BY <1>1 DEF FrameType
<1>3. SetTop(s, where) = [s EXCEPT ![n] = f]
  BY DEF SetTop
<1> HIDE DEF f
<1>4. [s EXCEPT ![n] = f] \in Seq(FrameType) /\ Len([s EXCEPT ![n] = f]) = n
  BY <1>1, <1>2
<1>5. \A k \in 1..n : [s EXCEPT ![n] = f][k] = IF k = n THEN f ELSE s[k]
  BY <1>1
<1> QED
  BY <1>2, <1>3, <1>4, <1>5 DEF SameTasks

LEMMA FrameIsPushed ==
  ASSUME NEW s \in Seq(FrameType), NEW f \in FrameType
  PROVE  /\ Append(s, f) \in Seq(FrameType) /\ Len(Append(s, f)) = Len(s) + 1
         /\ \A k \in 1..(Len(s) + 1) : Append(s, f)[k] = IF k = Len(s) + 1 THEN f ELSE s[k]
OBVIOUS

LEMMA FrameIsPopped ==
  ASSUME NEW s \in Seq(FrameType), s # <<>>
  PROVE  /\ SubSeq(s, 1, Len(s) - 1) \in Seq(FrameType)
         /\ Len(SubSeq(s, 1, Len(s) - 1)) = Len(s) - 1
         /\ \A k \in 1..(Len(s) - 1) : SubSeq(s, 1, Len(s) - 1)[k] = s[k]
<1> DEFINE n == Len(s) - 1
<1>1. n \in Nat /\ \A k \in 1..n : s[k] \in FrameType
  OBVIOUS
<1> HIDE DEF n
<1>2. 1 \in Int /\ n \in Int
  BY <1>1
<1>3. /\ SubSeq(s, 1, n) \in Seq(FrameType)
      /\ Len(SubSeq(s, 1, n)) = IF 1 <= n THEN n - 1 + 1 ELSE 0
      /\ \A k \in 1..(n - 1 + 1) : SubSeq(s, 1, n)[k] = s[1 + k - 1]
  BY <1>1, <1>2, SubSeqProperties
<1>4. Len(SubSeq(s, 1, n)) = n /\ n - 1 + 1 = n
  BY <1>1, <1>3
<1>5. \A k \in 1..n : 1 + k - 1 = k
  BY <1>1
<1>6. \A k \in 1..n : SubSeq(s, 1, n)[k] = s[k]
  BY <1>3, <1>4, <1>5
<1> QED
  BY <1>3, <1>4, <1>6 DEF n

LEMMA FramesAre ==
  ASSUME NEW j \in Jobs, NEW i \in Slots \cup {-1}
  PROVE  /\ Frame(j, i) \in FrameType
         /\ Frame(j, i).job = j /\ Frame(j, i).slot = i
         /\ Frame(j, i).at = "begin" /\ Frame(j, i).exc = NoJob
BY DEF Frame, FrameType

\* What is left of a worker's stack, f being the lowest task.
Passing(f, e) == <<[f EXCEPT !.at = "end", !.exc = e]>>

LEMMA ExceptionPasses ==
  ASSUME NEW f \in FrameType, NEW e \in Jobs
  PROVE  /\ Passing(f, e) \in Seq(FrameType) /\ Len(Passing(f, e)) = 1
         /\ Passing(f, e)[1].job = f.job /\ Passing(f, e)[1].slot = f.slot
         /\ Passing(f, e)[1].at = "end" /\ Passing(f, e)[1].exc = e
<1> DEFINE g == [f EXCEPT !.at = "end", !.exc = e]
<1>1. g \in FrameType /\ g.job = f.job /\ g.slot = f.slot /\ g.at = "end" /\ g.exc = e
  BY DEF FrameType
<1>2. Passing(f, e) = <<g>>
  BY DEF Passing
<1> HIDE DEF g
<1>3. <<g>> \in Seq(FrameType) /\ Len(<<g>>) = 1 /\ <<g>>[1] = g
  BY <1>1
<1> QED
  BY <1>1, <1>2, <1>3

-----------------------------------------------------------------------------
(* The kinds of steps: what each action does to slots, stacks and calls *)

LEMMA StackIs ==
  ASSUME TypeOK, NEW t \in Threads
  PROVE  /\ stack \in [Threads -> Seq(FrameType)]
         /\ stack[t] \in Seq(FrameType) /\ Len(stack[t]) \in Nat
         /\ stack[t] = <<>> <=> Len(stack[t]) = 0
         /\ stack[t] # <<>> => 1 \in 1..Len(stack[t]) /\ Len(stack[t]) \in 1..Len(stack[t])
         /\ \A k \in 1..Len(stack[t]) :
              /\ stack[t][k] \in FrameType
              /\ stack[t][k].job \in Jobs /\ stack[t][k].slot \in Slots \cup {-1}
              /\ stack[t][k].exc \in Jobs \cup {NoJob}
              /\ stack[t][k].at \in {"begin", "submitted", "waited", "end"}
<1>1. stack \in [Threads -> Seq(FrameType)]
  BY DEF TypeOK, FrameType
<1>2. stack[t] \in Seq(FrameType)
  BY <1>1
<1>3. \A k \in 1..Len(stack[t]) : stack[t][k] \in FrameType
  BY <1>2
<1>4. \A f \in FrameType : /\ f.job \in Jobs /\ f.slot \in Slots \cup {-1}
                           /\ f.exc \in Jobs \cup {NoJob}
                           /\ f.at \in {"begin", "submitted", "waited", "end"}
  BY DEF FrameType
<1>5. /\ Len(stack[t]) \in Nat
      /\ stack[t] = <<>> <=> Len(stack[t]) = 0
      /\ stack[t] # <<>> => 1 \in 1..Len(stack[t]) /\ Len(stack[t]) \in 1..Len(stack[t])
  BY <1>2
<1> QED
  BY <1>1, <1>2, <1>3, <1>4, <1>5

\* Thread t is awake, in a task or in a client's code.
Busy(t) ==
  /\ t \in Threads /\ t \notin task_done_signaler
  /\ t \in Workers => stack[t] # <<>> /\ \A k \in 1..Len(stack[t]) : stack[t][k].at # "end"
  /\ t \in Clients => life = "alive"

\* Task j is the next that t submits.
MaySubmit(t, j) ==
  /\ Busy(t) /\ j \in Jobs /\ ids[j] = 0
  /\ \A d \in Clients : call[d].op = "add_task" /\ call[d].arg = j => d = t
  /\ \/ j \in Roots /\ t \in Clients /\ stack[t] = <<>>
     \/ /\ stack[t] # <<>> /\ call[t].op = "none"
        /\ Top(t).at = "begin" /\ Child[Top(t).job] = j

\* The stacks of all threads but t stay as they are, and of t the lowest n tasks.
Keeps(t, n) ==
  /\ stack' \in [Threads -> Seq(FrameType)]
  /\ \A u \in Threads : u # t => stack'[u] = stack[u]
  /\ n \in 0..Len(stack[t]) /\ n <= Len(stack'[t])
  /\ \A k \in 1..n : /\ stack'[t][k].job = stack[t][k].job
                     /\ stack'[t][k].slot = stack[t][k].slot
                     /\ stack'[t][k].at = "begin" => stack[t][k].at = "begin"

\* Slot k only changes in the exception that it keeps.
SameSlot(k) ==
  /\ tasks'[k].is_being_processed = tasks[k].is_being_processed
  /\ tasks'[k].task_id = tasks[k].task_id
  /\ tasks'[k].thread_id = tasks[k].thread_id
  /\ tasks'[k].next_task_id = tasks[k].next_task_id
  /\ tasks'[k].bfp = tasks[k].bfp

CallType == [op : Ops, arg : Jobs \cup {NoJob}]
CallEnds(t) ==
  /\ call' \in [Threads -> CallType] /\ call'[t].op = "none"
  /\ \A u \in Threads : u # t => call'[u] = call[u]

\* t goes on with the lowest n of its tasks; those above have ended.
Cut(t, n) ==
  /\ Busy(t) /\ (t \in Workers => n # 0)
  /\ Keeps(t, n) /\ Len(stack'[t]) = n
  /\ \A k \in 1..n : /\ stack'[t][k].at = "end" => t \in Workers /\ n = 1
                     /\ stack'[t][k].exc # NoJob => stack'[t][k].at = "end"
  /\ done' = done \cup {stack[t][k].job : k \in (n + 1)..Len(stack[t])}
  /\ tasks' \in [Slots -> SlotType]
  /\ \A i \in Slots : SameSlot(i) /\ tasks'[i].eptr \in {NoJob, tasks[i].eptr}
  /\ CallEnds(t)
  /\ UNCHANGED <<worker_thread_ids, task_done_signaler, task_ready_signaler,
                 we_are_destructing, pc, ids, life, ran>>

\* t puts task j into slot i.
Stores(t, j, i) ==
  /\ MaySubmit(t, j) /\ ThrownSlots = {}
  /\ Keeps(t, Len(stack[t])) /\ Len(stack'[t]) = Len(stack[t])
  /\ \A k \in 1..Len(stack[t]) : /\ stack'[t][k].at # "end"
                                 /\ stack'[t][k].exc = stack[t][k].exc
                                 /\ k = Len(stack[t]) => stack'[t][k].at = "submitted"
  /\ i \in Slots /\ is_empty(i)
  /\ tasks' \in [Slots -> SlotType]
  /\ \A k \in Slots : k # i => tasks'[k] = tasks[k]
  /\ tasks'[i].is_being_processed = tasks[i].is_being_processed
  /\ tasks'[i].task_id = next_id(i) /\ tasks'[i].bfp = j /\ tasks'[i].thread_id = t
  /\ tasks'[i].next_task_id = tasks[i].next_task_id + 1 /\ tasks'[i].eptr = NoJob
  /\ ids' = [ids EXCEPT ![j] = next_id(i)]
  /\ CallEnds(t)
  /\ task_ready_signaler' \in Signal(task_ready_signaler)
  /\ UNCHANGED <<worker_thread_ids, task_done_signaler, we_are_destructing, pc, life,
                 ran, done, thrown, caught>>

\* Thread t begins task j, which came from slot i or, if i is -1, from add_task().
Begins(t, j, i) ==
  /\ Keeps(t, Len(stack[t])) /\ Len(stack'[t]) = Len(stack[t]) + 1
  /\ \A k \in 1..Len(stack[t]) : /\ stack'[t][k].at # "end"
                                 /\ stack'[t][k].exc = stack[t][k].exc
                                 /\ k = Len(stack[t]) => stack'[t][k].at = "submitted"
  /\ LET k == Len(stack[t]) + 1 IN
     /\ stack'[t][k].job = j /\ stack'[t][k].slot = i
     /\ stack'[t][k].at = "begin" /\ stack'[t][k].exc = NoJob
  /\ ran' = [ran EXCEPT ![j] = @ + 1]
  /\ UNCHANGED <<worker_thread_ids, task_done_signaler, task_ready_signaler,
                 we_are_destructing, call, life, done, thrown, caught>>

Inline(t, j) ==
  /\ MaySubmit(t, j) /\ EmptySlots = {} /\ (t \in Clients => N = 0) /\ call[t].op = "none"
  /\ Begins(t, j, -1)
  /\ ids' = [ids EXCEPT ![j] = 1]
  /\ UNCHANGED <<tasks, pc>>

Takes(w, i) ==
  /\ LooksForWork(w) /\ w \in Workers /\ stack[w] = <<>> /\ ~we_are_destructing
  /\ i \in ReadySlots
  /\ Begins(w, tasks[i].bfp, i)
  /\ tasks' \in [Slots -> SlotType]
  /\ \A k \in Slots : k # i => tasks'[k] = tasks[k]
  /\ tasks'[i].is_being_processed = TRUE
  /\ tasks'[i].task_id = tasks[i].task_id /\ tasks'[i].bfp = tasks[i].bfp
  /\ tasks'[i].thread_id = tasks[i].thread_id
  /\ tasks'[i].next_task_id = tasks[i].next_task_id /\ tasks'[i].eptr = tasks[i].eptr
  /\ pc' = [pc EXCEPT ![w] = "run"]
  /\ UNCHANGED ids

\* Worker w returns from the task of slot i.
Finishes(w, i) ==
  /\ w \in Workers /\ call[w].op = "none"
  /\ Len(stack[w]) = 1 /\ stack[w][1].at = "end" /\ stack[w][1].slot = i /\ i \in Slots
  /\ stack' = [stack EXCEPT ![w] = <<>>]
  /\ done' = done \cup {stack[w][1].job}
  /\ tasks' \in [Slots -> SlotType]
  /\ \A k \in Slots : k # i => tasks'[k] = tasks[k]
  /\ tasks'[i].is_being_processed = FALSE /\ tasks'[i].task_id = 0
  /\ tasks'[i].next_task_id = tasks[i].next_task_id /\ tasks'[i].eptr = stack[w][1].exc
  /\ task_done_signaler' = {}
  /\ pc' = [pc EXCEPT ![w] = "loop"]
  /\ UNCHANGED <<worker_thread_ids, task_ready_signaler, we_are_destructing,
                 call, ids, life, ran, thrown, caught>>

\* Exception e goes where t's next frame, or its client, will see it.
Reaches(t, n, e) ==
  IF t \in Workers
  THEN n = 1 /\ stack'[t][1].at = "end" /\ stack'[t][1].exc = e /\ caught' = caught
  ELSE n = 0 /\ caught' = caught \cup {e}

SameExceptions == \A i \in Slots : tasks'[i].eptr = tasks[i].eptr

\* t goes on without an exception, with the one of slot i, or with one of its own.
GoesOn(t, n) ==
  /\ Cut(t, n) /\ SameExceptions /\ UNCHANGED <<thrown, caught>>
  /\ \A k \in 1..n : stack'[t][k].exc = NoJob
Rethrows(t, n, i) ==
  /\ Cut(t, n) /\ i \in ThrownSlots /\ tasks'[i].eptr = NoJob
  /\ \A k \in Slots : k # i => tasks'[k].eptr = tasks[k].eptr
  /\ thrown' = thrown /\ Reaches(t, n, tasks[i].eptr)
Throws(t, n) ==
  /\ Cut(t, n) /\ SameExceptions
  /\ stack[t] # <<>> /\ thrown' = thrown \cup {Top(t).job} /\ Reaches(t, n, Top(t).job)

LEMMA InvTyped ==
  ASSUME PoolInv
  PROVE  TypeOK /\ HistoryOK
BY DEF PoolInv

LEMMA CallsEnd ==
  ASSUME PoolInv, NEW t \in Threads,
         call' = [call EXCEPT ![t] = NoCall] \/ (call' = call /\ call[t].op = "none")
  PROVE  CallEnds(t)
<1>1. call \in [Threads -> CallType] /\ NoCall \in CallType /\ NoCall.op = "none"
  BY InvTyped DEF HistoryOK, CallType, NoCall, Ops
<1> QED
  BY <1>1 DEF CallEnds

\* What an exception leaves of the stack.
LEMMA RaiseUnwinds ==
  ASSUME PoolInv, NEW t, Busy(t), NEW e \in Jobs, Raise(t, e),
         NEW n, n = IF t \in Workers THEN 1 ELSE 0
  PROVE  /\ t \in Workers => n # 0
         /\ Keeps(t, n) /\ Len(stack'[t]) = n
         /\ \A k \in 1..n : /\ stack'[t][k].at = "end" => t \in Workers /\ n = 1
                            /\ stack'[t][k].exc # NoJob => stack'[t][k].at = "end"
         /\ done' = done \cup {stack[t][k].job : k \in (n + 1)..Len(stack[t])}
         /\ CallEnds(t)
         /\ Reaches(t, n, e)
<1>1. t \in Threads /\ TypeOK
  BY InvTyped DEF Busy
<1>2. CallEnds(t)
  BY <1>1, CallsEnd DEF Raise
<1>3. CASE t \in Workers
  <2> DEFINE f == stack[t][1]
             r == Passing(f, e)
  <2>1. f \in FrameType /\ Len(stack[t]) \in Nat \ {0}
    BY <1>1, <1>3, StackIs DEF Busy
  <2>2. /\ stack' = [stack EXCEPT ![t] = r] /\ caught' = caught
        /\ done' = done \cup {stack[t][k].job : k \in 2..Len(stack[t])}
    BY <1>3 DEF Raise, Passing
  <2> HIDE DEF f
  <2>3. /\ r \in Seq(FrameType) /\ Len(r) = 1 /\ r[1].job = f.job /\ r[1].slot = f.slot
        /\ r[1].at = "end" /\ r[1].exc = e
    BY <2>1, ExceptionPasses
  <2> HIDE DEF r
  <2>4. /\ stack' \in [Threads -> Seq(FrameType)] /\ stack'[t] = r
        /\ \A u \in Threads : u # t => stack'[u] = stack[u]
    BY <2>2, <2>3, <1>1, StackIs
  <2>5. n = 1 /\ 1 + 1 = 2
    BY <1>3
  <2>6. 1..1 = {1} /\ 1 \in 0..Len(stack[t])
    BY <2>1
  <2>7. \A k \in 1..1 : k = 1
    BY <2>6
  <2>8. /\ Len(stack'[t]) = 1 /\ 1 <= Len(stack'[t])
        /\ stack'[t][1].job = stack[t][1].job /\ stack'[t][1].slot = stack[t][1].slot
        /\ stack'[t][1].at = "end" /\ stack'[t][1].exc = e
    <3>1. f = stack[t][1]
      BY DEF f
    <3>2. stack'[t][1] = r[1] /\ Len(stack'[t]) = 1
      BY <2>3, <2>4, Zenon
    <3> QED
      BY <2>3, <3>1, <3>2
  <2>9. \A k \in 1..1 : /\ stack'[t][k].job = stack[t][k].job
                       /\ stack'[t][k].slot = stack[t][k].slot
                       /\ stack'[t][k].at = "end"
    BY <2>7, <2>8, Zenon
  <2>10. Keeps(t, 1)
    BY <2>4, <2>6, <2>8, <2>9 DEF Keeps
  <2>11. Reaches(t, 1, e)
    BY <1>3, <2>2, <2>8 DEF Reaches
  <2> QED
    BY <1>2, <1>3, <2>2, <2>5, <2>8, <2>9, <2>10, <2>11
<1>4. CASE t \notin Workers
  <2>1. /\ stack' = [stack EXCEPT ![t] = <<>>] /\ caught' = caught \cup {e}
        /\ done' = done \cup {stack[t][k].job : k \in 1..Len(stack[t])}
    BY <1>4 DEF Raise
  <2>2. /\ stack' \in [Threads -> Seq(FrameType)] /\ stack'[t] = <<>>
        /\ \A u \in Threads : u # t => stack'[u] = stack[u]
    BY <2>1, <1>1, StackIs
  <2>3. n = 0 /\ 0 + 1 = 1 /\ 1..0 = {} /\ Len(stack'[t]) = 0
    BY <1>4, <2>2
  <2>4. Keeps(t, 0)
    BY <2>2, <2>3, <1>1, StackIs DEF Keeps
  <2> QED
    BY <1>2, <1>4, <2>1, <2>2, <2>3, <2>4 DEF Reaches
<1> QED
  BY <1>3, <1>4

LEMMA PropagateRethrows ==
  ASSUME PoolInv, NEW t, Busy(t), Propagate(t),
         UNCHANGED <<worker_thread_ids, task_done_signaler, task_ready_signaler,
                     we_are_destructing, pc, ids, life, ran, thrown>>
  PROVE  \E n : \E i \in Slots : Rethrows(t, n, i)
<1> DEFINE i == Lowest(ThrownSlots)
           e == tasks[i].eptr
           n == IF t \in Workers THEN 1 ELSE 0
<1>1. i \in ThrownSlots /\ i \in Slots
  BY LowestIs DEF Propagate, ThrownSlots
<1>2. /\ tasks' = [tasks EXCEPT ![i].eptr = NoJob] /\ Raise(t, e)
  BY DEF Propagate
<1> HIDE DEF i
<1>3. tasks \in [Slots -> SlotType] /\ e \in Jobs
  BY <1>1, InvTyped DEF TypeOK, SlotType, ThrownSlots
<1>4. /\ tasks' \in [Slots -> SlotType]
      /\ \A k \in Slots : SameSlot(k) /\ (k # i => tasks'[k].eptr = tasks[k].eptr)
      /\ tasks'[i].eptr = NoJob
  BY <1>1, <1>2, <1>3 DEF SlotType, SameSlot
<1> HIDE DEF e, n
<1>5. n = IF t \in Workers THEN 1 ELSE 0
  BY DEF n
<1>6. /\ t \in Workers => n # 0
      /\ Keeps(t, n) /\ Len(stack'[t]) = n
      /\ \A k \in 1..n : /\ stack'[t][k].at = "end" => t \in Workers /\ n = 1
                         /\ stack'[t][k].exc # NoJob => stack'[t][k].at = "end"
      /\ done' = done \cup {stack[t][k].job : k \in (n + 1)..Len(stack[t])}
      /\ CallEnds(t)
      /\ Reaches(t, n, e)
  BY <1>2, <1>3, <1>5, RaiseUnwinds
<1>7. Cut(t, n)
  BY <1>4, <1>6 DEF Cut
<1>8. Rethrows(t, n, i)
  BY <1>1, <1>4, <1>6, <1>7 DEF Rethrows, e
<1> QED
  BY <1>1, <1>8

\* The top task of t's stack, if it has one, gets on to the place "where".
LEMMA TopGetsOn ==
  ASSUME PoolInv, NEW t \in Threads, NEW where \in {"submitted", "waited", "end"},
         stack' = [stack EXCEPT ![t] = IF stack[t] = <<>> THEN <<>>
                                       ELSE SetTop(stack[t], where)]
  PROVE  /\ Keeps(t, Len(stack[t])) /\ Len(stack'[t]) = Len(stack[t])
         /\ \A k \in 1..Len(stack[t]) :
              /\ stack'[t][k].exc = stack[t][k].exc
              /\ stack'[t][k].at = IF k = Len(stack[t]) THEN where ELSE stack[t][k].at
<1> DEFINE s == stack[t]
           r == IF s = <<>> THEN <<>> ELSE SetTop(s, where)
<1>1. s \in Seq(FrameType) /\ stack \in [Threads -> Seq(FrameType)] /\ Len(s) \in Nat
  BY InvTyped, StackIs
<1>2. /\ SameTasks(s, r)
      /\ \A k \in 1..Len(s) : /\ r[k].exc = s[k].exc
                              /\ r[k].at = IF k = Len(s) THEN where ELSE s[k].at
  <2>1. CASE s = <<>>
    BY <2>1 DEF SameTasks
  <2>2. CASE s # <<>>
    <3>1. r = SetTop(s, where)
      BY <2>2
    <3> HIDE DEF s, r
    <3> QED
      BY <1>1, <2>2, <3>1, TopIsSet
  <2> QED
    BY <2>1, <2>2
<1>3. stack' = [stack EXCEPT ![t] = r]
  OBVIOUS
<1> HIDE DEF r
<1>4. /\ stack' \in [Threads -> Seq(FrameType)] /\ stack'[t] = r
      /\ \A u \in Threads : u # t => stack'[u] = stack[u]
  BY <1>1, <1>2, <1>3 DEF SameTasks
<1>5. Keeps(t, Len(s))
  <2>1. Len(s) \in 0..Len(s) /\ Len(s) <= Len(stack'[t])
    BY <1>1, <1>2, <1>4 DEF SameTasks
  <2>2. \A k \in 1..Len(s) : stack'[t][k].at = "begin" => s[k].at = "begin"
    BY <1>2, <1>4
  <2> QED
    BY <1>2, <1>4, <2>1, <2>2 DEF SameTasks, Keeps
<1> QED
  BY <1>2, <1>4, <1>5 DEF SameTasks

\* No task of a thread that is busy keeps an exception.
LEMMA BusyFrames ==
  ASSUME PoolInv, NEW t, Busy(t)
  PROVE  \A k \in 1..Len(stack[t]) : stack[t][k].at # "end" /\ stack[t][k].exc = NoJob
BY DEF PoolInv, Busy, StacksOK, Threads

-----------------------------------------------------------------------------
(* The actions are steps of these kinds *)

WaitSleeps(t) ==
  /\ t \in Threads /\ (t \in Workers => stack[t] # <<>> /\ stack[t][1].at # "end")
  /\ t \in Clients => life = "alive"
  /\ task_done_signaler' = task_done_signaler \cup {t}
  /\ \E op \in {"wait_for_task", "wait_for_all_tasks"}, arg \in Jobs \cup {NoJob} :
       /\ call' = [call EXCEPT ![t] = [op |-> op, arg |-> arg]]
       /\ op = "wait_for_task" => t \in Clients /\ arg \in Jobs
       /\ op = "wait_for_all_tasks" => \E i \in Slots : Pending(t, i)
  /\ UNCHANGED <<tasks, worker_thread_ids, task_ready_signaler, we_are_destructing,
                 pc, stack, ids, life, history>>

LEMMA WaitForSteps ==
  ASSUME PoolInv, NEW t, Busy(t), NEW op \in {"wait_for_task", "wait_for_all_tasks"},
         NEW arg \in Jobs \cup {NoJob}, NEW unfinished, WaitFor(t, op, arg, unfinished),
         op = "wait_for_task" => t \in Clients /\ arg \in Jobs,
         op = "wait_for_all_tasks" /\ unfinished => \E i \in Slots : Pending(t, i)
  PROVE  \/ WaitSleeps(t)
         \/ \E n : \E i \in Slots : Rethrows(t, n, i)
         \/ \E n : GoesOn(t, n)
<1>1. CASE /\ unfinished
           /\ task_done_signaler' = task_done_signaler \cup {t}
           /\ call' = [call EXCEPT ![t] = [op |-> op, arg |-> arg]]
           /\ UNCHANGED <<tasks, stack, done, caught>>
  <2>1. /\ t \in Threads /\ (t \in Workers => stack[t] # <<>> /\ stack[t][1].at # "end")
        /\ t \in Clients => life = "alive"
    BY InvTyped, StackIs DEF Busy
  <2>2. UNCHANGED <<tasks, worker_thread_ids, task_ready_signaler, we_are_destructing,
                    pc, stack, ids, life, history>>
    BY <1>1 DEF WaitFor, history
  <2> QED
    BY <1>1, <2>1, <2>2 DEF WaitSleeps
<1>2. CASE Propagate(t) /\ UNCHANGED task_done_signaler
  BY <1>2, PropagateRethrows DEF WaitFor
<1>3. CASE /\ ~unfinished /\ ThrownSlots = {}
           /\ call' = [call EXCEPT ![t] = NoCall]
           /\ stack' = IF stack[t] = <<>> THEN stack
                       ELSE [stack EXCEPT ![t] = SetTop(stack[t], "waited")]
           /\ UNCHANGED <<tasks, task_done_signaler, done, caught>>
  <2> DEFINE n == Len(stack[t])
  <2>1. t \in Threads /\ TypeOK
    BY InvTyped DEF Busy
  <2>2. stack' = [stack EXCEPT ![t] = IF stack[t] = <<>> THEN <<>>
                                      ELSE SetTop(stack[t], "waited")]
    BY <1>3, <2>1, StackIs
  <2>3. /\ Keeps(t, n) /\ Len(stack'[t]) = n
        /\ \A k \in 1..n : /\ stack'[t][k].exc = stack[t][k].exc
                           /\ stack'[t][k].at = IF k = n THEN "waited" ELSE stack[t][k].at
    <3> DEFINE w == "waited"
    <3>1. w \in {"submitted", "waited", "end"}
      OBVIOUS
    <3> HIDE DEF w
    <3>2. stack' = [stack EXCEPT ![t] = IF stack[t] = <<>> THEN <<>> ELSE SetTop(stack[t], w)]
      BY <2>2 DEF w
    <3>3. /\ Keeps(t, n) /\ Len(stack'[t]) = n
          /\ \A k \in 1..n : /\ stack'[t][k].exc = stack[t][k].exc
                             /\ stack'[t][k].at = IF k = n THEN w ELSE stack[t][k].at
      BY <2>1, <3>1, <3>2, TopGetsOn
    <3> QED
      BY <3>3 DEF w
  <2>4. \A k \in 1..n : stack'[t][k].exc = NoJob /\ stack'[t][k].at # "end"
    BY <2>3, BusyFrames
  <2>5. n \in Nat /\ (t \in Workers => n # 0)
    BY <2>1, StackIs DEF Busy
  <2>6. done' = done \cup {stack[t][k].job : k \in (n + 1)..n}
    <3>1. (n + 1)..n = {}
      BY <2>5
    <3> QED
      BY <1>3, <3>1
  <2>7. CallEnds(t)
    BY <1>3, <2>1, CallsEnd
  <2>8. /\ tasks' \in [Slots -> SlotType] /\ SameExceptions
        /\ \A i \in Slots : SameSlot(i) /\ tasks'[i].eptr \in {NoJob, tasks[i].eptr}
    BY <1>3, <2>1 DEF TypeOK, SlotType, SameSlot, SameExceptions
  <2>9. UNCHANGED <<worker_thread_ids, task_done_signaler, task_ready_signaler,
                    we_are_destructing, pc, ids, life, ran, thrown, caught>>
    BY <1>3 DEF WaitFor
  <2> HIDE DEF n
  <2>10. Cut(t, n)
    BY <2>3, <2>4, <2>5, <2>6, <2>7, <2>8, <2>9 DEF Cut, n
  <2>11. GoesOn(t, n)
    BY <2>4, <2>8, <2>9, <2>10 DEF GoesOn
  <2> QED
    BY <2>11
<1> QED
  BY <1>1, <1>2, <1>3 DEF WaitFor

AddSleepsIn(t, j) ==
  /\ MaySubmit(t, j) /\ t \in Clients /\ N # 0 /\ stack[t] = <<>> /\ j \in Roots
  /\ EmptySlots = {}
  /\ task_done_signaler' = task_done_signaler \cup {t}
  /\ call' = [call EXCEPT ![t] = [op |-> "add_task", arg |-> j]]
  /\ UNCHANGED <<tasks, worker_thread_ids, task_ready_signaler, we_are_destructing,
                 pc, stack, ids, life, history>>

LEMMA AddStoresStores ==
  ASSUME PoolInv, NEW t, NEW j, MaySubmit(t, j), AddStores(t, j),
         UNCHANGED <<worker_thread_ids, we_are_destructing, life, thrown>>
  PROVE  \E i \in Slots : Stores(t, j, i)
<1> DEFINE i == Lowest(EmptySlots)
           s == tasks[i]
           id == next_id(i)
<1>1. i \in EmptySlots /\ i \in Slots /\ is_empty(i)
  BY LowestIs DEF AddStores, EmptySlots
<1>2. /\ tasks' = [tasks EXCEPT ![i] = FilledSlot(s, t, j, id)]
      /\ ids' = [ids EXCEPT ![j] = id]
  BY DEF AddStores
<1>3. t \in Threads /\ j \in Jobs /\ TypeOK
  BY InvTyped DEF MaySubmit, Busy
<1> HIDE DEF i
<1>4. s \in SlotType /\ i \in Nat /\ N \in Nat \ {0} /\ tasks \in [Slots -> SlotType]
  BY <1>1, <1>3, SlotsAre DEF TypeOK, SlotType
<1>5. id \in Nat
  <2>1. s.next_task_id \in Nat
    BY <1>4 DEF SlotType
  <2> DEFINE m == s.next_task_id
  <2>2. id = m * N + i
    BY DEF next_id
  <2> HIDE DEF m, id
  <2>3. m * N \in Nat
    BY <1>4, <2>1 DEF m
  <2> QED
    BY <1>4, <2>2, <2>3
<1> HIDE DEF id
<1>6. s.eptr = NoJob
  BY <1>1 DEF AddStores, ThrownSlots
<1> DEFINE f == FilledSlot(s, t, j, id)
<1>7. /\ f \in SlotType /\ f.is_being_processed = s.is_being_processed
      /\ f.task_id = id /\ f.bfp = j /\ f.thread_id = t
      /\ f.next_task_id = s.next_task_id + 1 /\ f.eptr = NoJob
  <2> HIDE DEF s
  <2> QED
    BY <1>3, <1>4, <1>5, <1>6, SlotIsFilled
<1>8. tasks' = [tasks EXCEPT ![i] = f]
  BY <1>2
<1> HIDE DEF f
<1>9. /\ tasks' \in [Slots -> SlotType] /\ tasks'[i] = f
      /\ \A k \in Slots : k # i => tasks'[k] = tasks[k]
  BY <1>1, <1>4, <1>7, <1>8
<1>10. /\ Keeps(t, Len(stack[t])) /\ Len(stack'[t]) = Len(stack[t])
       /\ \A k \in 1..Len(stack[t]) :
            /\ stack'[t][k].at # "end"
            /\ stack'[t][k].exc = stack[t][k].exc
            /\ k = Len(stack[t]) => stack'[t][k].at = "submitted"
  <2> DEFINE w == "submitted"
  <2>1. w \in {"submitted", "waited", "end"}
    OBVIOUS
  <2> HIDE DEF w
  <2>2. stack' = [stack EXCEPT ![t] = IF stack[t] = <<>> THEN <<>> ELSE SetTop(stack[t], w)]
    BY DEF AddStores, AfterAdd, w
  <2>3. /\ Keeps(t, Len(stack[t])) /\ Len(stack'[t]) = Len(stack[t])
        /\ \A k \in 1..Len(stack[t]) :
             /\ stack'[t][k].exc = stack[t][k].exc
             /\ stack'[t][k].at = IF k = Len(stack[t]) THEN w ELSE stack[t][k].at
    BY <1>3, <2>1, <2>2, TopGetsOn
  <2>4. \A k \in 1..Len(stack[t]) : stack[t][k].at # "end"
    BY BusyFrames DEF MaySubmit
  <2> QED
    BY <2>3, <2>4 DEF w
<1>11. CallEnds(t)
  BY <1>3, CallsEnd DEF AddStores
<1>12. /\ task_ready_signaler' \in Signal(task_ready_signaler) /\ ThrownSlots = {}
       /\ UNCHANGED <<worker_thread_ids, task_done_signaler, we_are_destructing, pc, life,
                      ran, done, thrown, caught>>
  BY DEF AddStores
<1>13. Stores(t, j, i)
  BY <1>1, <1>2, <1>7, <1>9, <1>10, <1>11, <1>12 DEF Stores, id
<1> QED
  BY <1>1, <1>13

LEMMA AddInlineBegins ==
  ASSUME PoolInv, NEW t, NEW j, MaySubmit(t, j), AddInline(t, j),
         UNCHANGED <<worker_thread_ids, we_are_destructing, life, thrown>>
  PROVE  Inline(t, j)
<1> DEFINE s == stack[t]
           a == AfterAdd(t)
           f == Frame(j, -1)
           n == Len(s)
<1>1. t \in Threads /\ j \in Jobs /\ TypeOK /\ Busy(t)
  BY InvTyped DEF MaySubmit, Busy
<1>2. s \in Seq(FrameType) /\ n \in Nat /\ stack \in [Threads -> Seq(FrameType)]
  BY <1>1, StackIs
<1>3. /\ SameTasks(s, a)
      /\ \A k \in 1..n : /\ a[k].exc = s[k].exc
                         /\ a[k].at = IF k = n THEN "submitted" ELSE s[k].at
  <2> DEFINE w == "submitted"
  <2>1. w \in {"submitted", "waited", "end"}
    OBVIOUS
  <2> HIDE DEF w
  <2>2. CASE s = <<>>
    BY <2>2 DEF SameTasks, AfterAdd
  <2>3. CASE s # <<>>
    <3>1. a = SetTop(s, w)
      BY <2>3 DEF AfterAdd, w
    <3> HIDE DEF s, a
    <3>2. /\ SameTasks(s, a)
          /\ \A k \in 1..n : a[k].exc = s[k].exc /\ a[k].at = IF k = n THEN w ELSE s[k].at
      BY <1>2, <2>1, <2>3, <3>1, TopIsSet
    <3> QED
      BY <3>2 DEF w
  <2> QED
    BY <2>2, <2>3
<1>4. f \in FrameType /\ f.job = j /\ f.slot = -1 /\ f.at = "begin" /\ f.exc = NoJob
  BY <1>1, FramesAre
<1>5. stack' = [stack EXCEPT ![t] = Append(a, f)]
  BY DEF AddInline
<1> HIDE DEF a, f, n
<1>6. a \in Seq(FrameType) /\ Len(a) = n
  BY <1>3 DEF SameTasks, n
<1>7. /\ Append(a, f) \in Seq(FrameType) /\ Len(Append(a, f)) = n + 1
      /\ \A k \in 1..(n + 1) : Append(a, f)[k] = IF k = n + 1 THEN f ELSE a[k]
  BY <1>4, <1>6, FrameIsPushed
<1>8. /\ stack' \in [Threads -> Seq(FrameType)] /\ stack'[t] = Append(a, f)
      /\ \A u \in Threads : u # t => stack'[u] = stack[u]
  BY <1>1, <1>2, <1>5, <1>7
<1>9. /\ \A k \in 1..n : stack'[t][k] = a[k]
      /\ stack'[t][n + 1] = f /\ Len(stack'[t]) = n + 1
  BY <1>2, <1>7, <1>8
<1>10. Keeps(t, n)
  <2>1. n \in 0..Len(stack[t]) /\ n <= Len(stack'[t])
    BY <1>2, <1>9 DEF n
  <2>2. \A k \in 1..n : /\ stack'[t][k].job = s[k].job /\ stack'[t][k].slot = s[k].slot
                        /\ stack'[t][k].at = "begin" => s[k].at = "begin"
    BY <1>3, <1>9 DEF SameTasks, n
  <2> QED
    BY <1>8, <2>1, <2>2 DEF Keeps
<1>11. \A k \in 1..n : /\ stack'[t][k].at # "end"
                       /\ stack'[t][k].exc = s[k].exc
                       /\ k = n => stack'[t][k].at = "submitted"
  <2>1. \A k \in 1..n : s[k].at # "end"
    BY <1>1, BusyFrames DEF n
  <2> QED
    BY <1>3, <1>9, <2>1
<1>12. Begins(t, j, -1)
  <2>1. /\ ran' = [ran EXCEPT ![j] = @ + 1]
        /\ UNCHANGED <<worker_thread_ids, task_done_signaler, task_ready_signaler,
                       we_are_destructing, call, life, done, thrown, caught>>
    BY DEF AddInline
  <2> QED
    BY <1>4, <1>9, <1>10, <1>11, <2>1 DEF Begins, n
<1>13. t \in Clients => N = 0
  BY <1>1, PoolAssumption DEF AddInline, is_worker_thread, TypeOK
<1> QED
  BY <1>12, <1>13 DEF AddInline, Inline

LEMMA AddTaskSteps ==
  ASSUME PoolInv, NEW t, NEW j, MaySubmit(t, j), AddTask(t, j)
  PROVE  \/ AddSleepsIn(t, j) \/ Inline(t, j)
         \/ \E i \in Slots : Stores(t, j, i)
         \/ \E n : \E i \in Slots : Rethrows(t, n, i)
<1>1. CASE AddThrows(t)
  BY <1>1, PropagateRethrows DEF AddThrows, AddTask, MaySubmit
<1>2. CASE AddStores(t, j)
  BY <1>2, AddStoresStores DEF AddTask
<1>3. CASE AddInline(t, j)
  BY <1>3, AddInlineBegins DEF AddTask
<1>4. CASE AddSleeps(t, j)
  <2>1. N # 0 /\ t \notin worker_thread_ids /\ t \in Threads
    BY <1>4 DEF AddSleeps, is_worker_thread, MaySubmit, Busy
  <2>2. t \in Clients /\ stack[t] = <<>> /\ j \in Roots
    BY <2>1 DEF PoolInv, StacksOK, MaySubmit, Busy, Threads
  <2> QED
    BY <1>4, <2>1, <2>2 DEF AddSleeps, AddTask, AddSleepsIn, history
<1> QED
  BY <1>1, <1>2, <1>3, <1>4 DEF AddTask

LEMMA TaskRuns ==
  ASSUME PoolInv, NEW t \in Threads, Runs(t), stack[t] # <<>>, Top(t).at # "end"
  PROVE  Busy(t)
<1>1. TypeOK /\ StacksOK /\ LifeOK
  BY DEF PoolInv
<1>2. t \notin task_done_signaler
  BY <1>1 DEF TypeOK, Runs, Sleeping
<1>3. \A k \in 1..Len(stack[t]) : stack[t][k].at # "end"
  <2> SUFFICES ASSUME NEW k \in 1..Len(stack[t]), stack[t][k].at = "end" PROVE FALSE
    OBVIOUS
  <2>1. Len(stack[t]) = 1
    BY <1>1 DEF StacksOK
  <2>2. k = Len(stack[t])
    BY <2>1
  <2> QED
    BY <2>2 DEF Top
<1>4. t \in Clients => life = "alive"
  BY <1>1 DEF LifeOK
<1> QED
  BY <1>2, <1>3, <1>4 DEF Busy

LEMMA ClientRuns ==
  ASSUME PoolInv, NEW c, InClientCode(c)
  PROVE  Busy(c) /\ c \in Clients /\ stack[c] = <<>>
BY PoolAssumption DEF PoolInv, TypeOK, InClientCode, Runs, Busy, Sleeping, Threads

LEMMA WokenRuns ==
  ASSUME PoolInv, NEW t \in Threads,
         NEW op \in {"add_task", "wait_for_task", "wait_for_all_tasks"}, Woken(t, op)
  PROVE  Busy(t)
<1>1. CallsOK /\ StacksOK /\ LifeOK
  BY DEF PoolInv
<1>2. call[t].op = op /\ t \notin task_done_signaler /\ op \notin {"none", "shutdown", "join"}
  BY DEF Woken
<1>3. ASSUME t \in Workers
      PROVE  stack[t] # <<>> /\ \A k \in 1..Len(stack[t]) : stack[t][k].at # "end"
  <2>1. stack[t] # <<>> /\ stack[t][1].at # "end"
    BY <1>1, <1>2, <1>3 DEF CallsOK
  <2>2. SUFFICES ASSUME NEW k \in 1..Len(stack[t]), stack[t][k].at = "end" PROVE FALSE
    BY <2>1
  <2>3. Len(stack[t]) = 1
    BY <1>1, <2>2 DEF StacksOK
  <2>4. k = 1
    BY <2>3
  <2> QED
    BY <2>1, <2>2, <2>4
<1>4. t \in Clients => life = "alive"
  BY <1>1, <1>2 DEF LifeOK
<1> QED
  BY <1>2, <1>3, <1>4 DEF Busy

LEMMA EndTaskSteps ==
  ASSUME PoolInv, NEW t \in Threads, EndTask(t)
  PROVE  \/ \E n : Throws(t, n)
         \/ \E n : GoesOn(t, n)
<1> DEFINE s == stack[t]
           n == Len(s)
           job == Top(t).job
<1>1. Runs(t) /\ s # <<>> /\ Top(t).at # "end" /\ call[t].op = "none"
  BY DEF EndTask, AtEnd, Runs
<1>2. Busy(t)
  BY <1>1, TaskRuns
<1>3. /\ TypeOK /\ s \in Seq(FrameType) /\ stack \in [Threads -> Seq(FrameType)]
      /\ n \in Nat \ {0} /\ n \in 1..n /\ job \in Jobs /\ Top(t) = s[n]
  BY <1>1, InvTyped, StackIs DEF Top
<1>4. /\ tasks' \in [Slots -> SlotType] /\ SameExceptions
      /\ \A i \in Slots : SameSlot(i) /\ tasks'[i].eptr \in {NoJob, tasks[i].eptr}
  BY <1>3 DEF EndTask, pool, TypeOK, SlotType, SameSlot, SameExceptions
<1>5. UNCHANGED <<worker_thread_ids, task_done_signaler, task_ready_signaler,
                  we_are_destructing, pc, ids, life, ran>>
  BY DEF EndTask, pool
<1>6. CASE job \in Throwing /\ Raise(t, job) /\ thrown' = thrown \cup {job}
  <2> DEFINE m == IF t \in Workers THEN 1 ELSE 0
  <2>1. m = IF t \in Workers THEN 1 ELSE 0
    OBVIOUS
  <2> HIDE DEF m, job
  <2>2. /\ t \in Workers => m # 0
        /\ Keeps(t, m) /\ Len(stack'[t]) = m
        /\ \A k \in 1..m : /\ stack'[t][k].at = "end" => t \in Workers /\ m = 1
                           /\ stack'[t][k].exc # NoJob => stack'[t][k].at = "end"
        /\ done' = done \cup {stack[t][k].job : k \in (m + 1)..Len(stack[t])}
        /\ CallEnds(t)
        /\ Reaches(t, m, job)
    BY <1>2, <1>3, <1>6, <2>1, RaiseUnwinds
  <2>3. Cut(t, m)
    BY <1>2, <1>4, <1>5, <2>2 DEF Cut
  <2>4. Throws(t, m)
    BY <1>1, <1>4, <1>6, <2>2, <2>3 DEF Throws, job
  <2> QED
    BY <2>4
<1>7. CASE /\ Top(t).slot = -1
           /\ stack' = [stack EXCEPT ![t] = SubSeq(@, 1, Len(@) - 1)]
           /\ done' = done \cup {job}
           /\ UNCHANGED <<call, thrown, caught>>
  <2> DEFINE m == n - 1
             r == SubSeq(s, 1, Len(s) - 1)
  <2>1. m \in Nat /\ m \in 0..n /\ m <= m /\ (m + 1)..n = {n}
    BY <1>3
  <2>2. r \in Seq(FrameType) /\ Len(r) = m /\ \A k \in 1..m : r[k] = s[k]
    BY <1>1, <1>3, FrameIsPopped
  <2>3. stack' = [stack EXCEPT ![t] = r]
    BY <1>7
  <2> HIDE DEF r
  <2>4. /\ stack' \in [Threads -> Seq(FrameType)] /\ stack'[t] = r
        /\ \A u \in Threads : u # t => stack'[u] = stack[u]
    BY <1>3, <2>2, <2>3
  <2>5. Keeps(t, m)
    BY <2>1, <2>2, <2>4 DEF Keeps
  <2>6. t \in Workers => m # 0
    <3>1. ASSUME t \in Workers, n = 1 PROVE Top(t).slot # -1
      <4>1. Top(t) = stack[t][1] /\ 1 \in 1..Len(stack[t])
        BY <1>3, <3>1
      <4> QED
        BY <3>1, <4>1 DEF PoolInv, StacksOK
    <3> QED
      BY <1>3, <1>7, <3>1
  <2>7. \A k \in 1..m : stack'[t][k].at # "end" /\ stack'[t][k].exc = NoJob
    <3>1. \A k \in 1..m : k \in 1..Len(stack[t])
      BY <1>3
    <3> QED
      BY <1>2, <2>2, <2>4, <3>1, BusyFrames
  <2>8. done' = done \cup {stack[t][k].job : k \in (m + 1)..n}
    <3>1. {stack[t][k].job : k \in {n}} = {job}
      BY <1>3
    <3> QED
      BY <1>7, <2>1, <3>1
  <2>9. CallEnds(t)
    BY <1>1, <1>7, CallsEnd
  <2> HIDE DEF m
  <2>10. Cut(t, m)
    BY <1>2, <1>4, <1>5, <2>2, <2>4, <2>5, <2>6, <2>7, <2>8, <2>9 DEF Cut
  <2> QED
    BY <1>4, <1>7, <2>7, <2>10 DEF GoesOn
<1>8. CASE /\ Top(t).slot # -1
           /\ stack' = [stack EXCEPT ![t] = SetTop(@, "end")]
           /\ UNCHANGED <<call, done, thrown, caught>>
  <2> DEFINE w == "end"
  <2>1. w \in {"submitted", "waited", "end"}
    OBVIOUS
  <2>2. t \in Workers /\ n = 1
    BY <1>3, <1>8 DEF PoolInv, StacksOK
  <2> HIDE DEF w
  <2>3. stack' = [stack EXCEPT ![t] = IF stack[t] = <<>> THEN <<>> ELSE SetTop(stack[t], w)]
    BY <1>1, <1>8 DEF w
  <2>4. /\ Keeps(t, n) /\ Len(stack'[t]) = n
        /\ \A k \in 1..n : stack'[t][k].exc = stack[t][k].exc
    BY <2>1, <2>3, TopGetsOn
  <2>5. \A k \in 1..n : stack'[t][k].exc = NoJob
    BY <1>2, <2>4, BusyFrames
  <2>6. done' = done \cup {stack[t][k].job : k \in (n + 1)..n}
    <3>1. (n + 1)..n = {}
      BY <1>3
    <3> QED
      BY <1>8, <3>1
  <2>7. CallEnds(t)
    BY <1>1, <1>8, CallsEnd
  <2> HIDE DEF n
  <2>8. Cut(t, n)
    BY <1>2, <1>4, <1>5, <2>2, <2>4, <2>5, <2>6, <2>7 DEF Cut, n
  <2> QED
    BY <1>4, <1>8, <2>5, <2>8 DEF GoesOn
<1> QED
  BY <1>6, <1>7, <1>8 DEF EndTask

LEMMA FindTaskTakes ==
  ASSUME PoolInv, NEW w \in Workers, FindTask(w), ~we_are_destructing, ReadySlots # {},
         task_ready_signaler' = task_ready_signaler, pc' = [pc EXCEPT ![w] = "run"],
         LET i == Lowest(ReadySlots) IN
           /\ tasks' = [tasks EXCEPT ![i] = TakenSlot(tasks[i])]
           /\ stack' = [stack EXCEPT ![w] = <<Frame(tasks[i].bfp, i)>>]
           /\ ran' = [ran EXCEPT ![tasks[i].bfp] = @ + 1]
  PROVE  \E i \in Slots : Takes(w, i)
<1> DEFINE i == Lowest(ReadySlots)
           j == tasks[i].bfp
           f == Frame(j, i)
<1>1. i \in ReadySlots /\ i \in Slots
  BY LowestIs DEF ReadySlots
<1>2. /\ tasks' = [tasks EXCEPT ![i] = TakenSlot(tasks[i])]
      /\ stack' = [stack EXCEPT ![w] = <<f>>]
      /\ ran' = [ran EXCEPT ![j] = @ + 1]
  OBVIOUS
<1> HIDE DEF i
<1>3. j \in Jobs
  BY <1>1 DEF PoolInv, SlotsOK, ReadySlots, is_ready
<1>4. w \in Threads /\ TypeOK /\ stack[w] = <<>>
  BY DEF FindTask, LooksForWork, PoolInv, StacksOK, Threads
<1>5. tasks \in [Slots -> SlotType] /\ tasks[i] \in SlotType
  BY <1>1, <1>4 DEF TypeOK, SlotType
<1> DEFINE s == TakenSlot(tasks[i])
<1>6. /\ s \in SlotType /\ s.is_being_processed = TRUE /\ s.task_id = tasks[i].task_id
      /\ s.bfp = tasks[i].bfp /\ s.thread_id = tasks[i].thread_id
      /\ s.next_task_id = tasks[i].next_task_id /\ s.eptr = tasks[i].eptr
  BY <1>5, SlotIsTaken
<1>7. tasks' = [tasks EXCEPT ![i] = s]
  BY <1>2
<1> HIDE DEF s
<1>8. /\ tasks' \in [Slots -> SlotType] /\ tasks'[i] = s
      /\ \A k \in Slots : k # i => tasks'[k] = tasks[k]
  BY <1>1, <1>5, <1>6, <1>7
<1> HIDE DEF j
<1>9. f \in FrameType /\ f.job = j /\ f.slot = i /\ f.at = "begin" /\ f.exc = NoJob
  BY <1>1, <1>3, FramesAre
<1> HIDE DEF f
<1>10. <<f>> \in Seq(FrameType) /\ Len(<<f>>) = 1 /\ <<f>>[1] = f
  BY <1>9
<1>11. stack \in [Threads -> Seq(FrameType)] /\ Len(stack[w]) = 0
  BY <1>4, StackIs
<1>12. /\ stack' \in [Threads -> Seq(FrameType)] /\ stack'[w] = <<f>>
       /\ \A u \in Threads : u # w => stack'[u] = stack[u]
  BY <1>2, <1>4, <1>10, <1>11
<1>13. 1..0 = {} /\ 0 + 1 = 1 /\ 0 \in 0..0 /\ 0 <= 1
  OBVIOUS
<1>14. Keeps(w, Len(stack[w]))
  BY <1>10, <1>11, <1>12, <1>13 DEF Keeps
<1>15. Begins(w, j, i)
  <2>1. UNCHANGED <<worker_thread_ids, task_done_signaler, task_ready_signaler,
                    we_are_destructing, call, life, done, thrown, caught>>
    BY DEF FindTask
  <2> QED
    BY <1>2, <1>9, <1>10, <1>11, <1>12, <1>13, <1>14, <2>1 DEF Begins
<1>16. Takes(w, i)
  BY <1>1, <1>4, <1>6, <1>8, <1>15 DEF Takes, FindTask, j
<1> QED
  BY <1>1, <1>16

LEMMA FinishTaskFinishes ==
  ASSUME PoolInv, NEW w \in Workers, FinishTask(w)
  PROVE  \E i \in Slots : Finishes(w, i)
<1> DEFINE f == stack[w][1]
           i == f.slot
           s == ClearedSlot(tasks[i], f.exc)
<1>1. w \in Threads /\ TypeOK /\ StacksOK
  BY DEF PoolInv, Threads
<1>2. Len(stack[w]) = 1 /\ f.at = "end" /\ i \in Slots /\ f.exc \in Jobs \cup {NoJob}
  <2>1. stack[w] # <<>> /\ Top(w).at = "end"
    BY DEF FinishTask, InTask
  <2>2. /\ Len(stack[w]) \in 1..Len(stack[w]) /\ 1 \in 1..Len(stack[w])
        /\ f.slot \in Slots \cup {-1} /\ f.exc \in Jobs \cup {NoJob}
    BY <1>1, <2>1, StackIs
  <2>3. Len(stack[w]) = 1 /\ f.at = "end"
    BY <1>1, <2>1, <2>2 DEF StacksOK, Top
  <2>4. f.slot # -1
    BY <1>1, <2>2 DEF StacksOK
  <2> QED
    BY <2>2, <2>3, <2>4
<1>3. /\ tasks' = [tasks EXCEPT ![i] = s] /\ done' = done \cup {f.job}
      /\ task_done_signaler' = {}
      /\ stack' = [stack EXCEPT ![w] = <<>>] /\ pc' = [pc EXCEPT ![w] = "loop"]
      /\ call[w].op = "none"
      /\ UNCHANGED <<worker_thread_ids, task_ready_signaler, we_are_destructing,
                     call, ids, life, ran, thrown, caught>>
  BY DEF FinishTask, Broadcast, InTask, Runs
<1> HIDE DEF i, f
<1>4. tasks \in [Slots -> SlotType] /\ tasks[i] \in SlotType
  BY <1>1, <1>2 DEF TypeOK, SlotType
<1>5. /\ s \in SlotType /\ s.is_being_processed = FALSE /\ s.task_id = 0
      /\ s.next_task_id = tasks[i].next_task_id /\ s.eptr = f.exc
  BY <1>2, <1>4, SlotIsCleared
<1> HIDE DEF s
<1>6. /\ tasks' \in [Slots -> SlotType] /\ tasks'[i] = s
      /\ \A k \in Slots : k # i => tasks'[k] = tasks[k]
  BY <1>2, <1>3, <1>4, <1>5
<1>7. Finishes(w, i)
  BY <1>2, <1>3, <1>5, <1>6 DEF Finishes, f, i
<1> QED
  BY <1>2, <1>7

\* The other steps of a worker and of the destructor.
WorkerWaits(w) ==
  /\ w \in Workers /\ stack[w] = <<>>
  /\ \/ /\ pc[w] = "start" /\ pc' = [pc EXCEPT ![w] = "loop"]
        /\ worker_thread_ids' = worker_thread_ids \cup {w}
        /\ UNCHANGED task_ready_signaler
     \/ /\ LooksForWork(w) /\ we_are_destructing /\ pc' = [pc EXCEPT ![w] = "exit"]
        /\ UNCHANGED <<worker_thread_ids, task_ready_signaler>>
     \/ /\ LooksForWork(w) /\ ReadySlots = {}
        /\ task_ready_signaler' = task_ready_signaler \cup {w}
        /\ UNCHANGED <<worker_thread_ids, pc>>
  /\ UNCHANGED <<tasks, task_done_signaler, we_are_destructing, stack, call, ids, life, history>>

Destructs(c) ==
  /\ c \in Clients
  /\ \A d \in Clients : stack[d] = <<>> /\ (d # c => call[d].op = "none")
  /\ \/ /\ life \in {"alive", "closing"} /\ ~AllTasksEnded
        /\ task_done_signaler' = task_done_signaler \cup {c}
        /\ call' = [call EXCEPT ![c] = [op |-> "shutdown", arg |-> NoJob]]
        /\ life' = "closing"
        /\ UNCHANGED <<we_are_destructing, task_ready_signaler>>
     \/ /\ life \in {"alive", "closing"} /\ AllTasksEnded
        /\ c \notin task_done_signaler
        /\ we_are_destructing' = TRUE
        /\ task_ready_signaler' = {}
        /\ call' = [call EXCEPT ![c] = [op |-> "join", arg |-> NoJob]]
        /\ life' = "joining"
        /\ UNCHANGED task_done_signaler
     \/ /\ life = "joining" /\ c \notin task_done_signaler
        /\ life' \in {"destroyed", "terminated"} /\ (life' = "destroyed" => ThrownSlots = {})
        /\ call' = [call EXCEPT ![c] = NoCall]
        /\ UNCHANGED <<task_ready_signaler, task_done_signaler, we_are_destructing>>
  /\ UNCHANGED <<tasks, worker_thread_ids, pc, stack, ids, history>>

\* Every step of the pool is of one of these kinds.
Kinds ==
  \/ \E t \in Threads, n \in Nat : \/ GoesOn(t, n) \/ Throws(t, n)
                                 \/ \E i \in Slots : Rethrows(t, n, i)
  \/ \E t \in Threads, j \in Jobs : \/ \E i \in Slots : Stores(t, j, i)
                                    \/ Inline(t, j) \/ AddSleepsIn(t, j)
  \/ \E w \in Workers : WorkerWaits(w) \/ \E i \in Slots : Takes(w, i) \/ Finishes(w, i)
  \/ \E t \in Threads : WaitSleeps(t)
  \/ \E c \in Clients : Destructs(c)
  \/ UNCHANGED vars

LEMMA CutsAre ==
  ASSUME TypeOK, NEW t, NEW n, Cut(t, n)
  PROVE  t \in Threads /\ n \in Nat
BY StackIs DEF Cut, Busy, Keeps

LEMMA WaitKinds ==
  ASSUME PoolInv, NEW t,
         \/ WaitSleeps(t)
         \/ \E n : \E i \in Slots : Rethrows(t, n, i)
         \/ \E n : GoesOn(t, n)
  PROVE  Kinds
<1>1. TypeOK
  BY InvTyped
<1>2. CASE WaitSleeps(t)
  BY <1>2 DEF Kinds, WaitSleeps
<1>3. ASSUME NEW n, NEW i \in Slots, Rethrows(t, n, i) PROVE Kinds
  <2>1. t \in Threads /\ n \in Nat
    BY <1>1, <1>3, CutsAre DEF Rethrows
  <2> QED
    BY <1>3, <2>1 DEF Kinds
<1>4. ASSUME NEW n, GoesOn(t, n) PROVE Kinds
  <2>1. t \in Threads /\ n \in Nat
    BY <1>1, <1>4, CutsAre DEF GoesOn
  <2> QED
    BY <1>4, <2>1 DEF Kinds
<1> QED
  BY <1>2, <1>3, <1>4

LEMMA AddKinds ==
  ASSUME PoolInv, NEW t, NEW j, MaySubmit(t, j), AddTask(t, j)
  PROVE  Kinds
<1>1. t \in Threads /\ j \in Jobs
  BY DEF MaySubmit, Busy
<1>2. CASE \E n : \E i \in Slots : Rethrows(t, n, i)
  BY <1>2, WaitKinds
<1>3. CASE AddSleepsIn(t, j) \/ Inline(t, j) \/ \E i \in Slots : Stores(t, j, i)
  BY <1>1, <1>3 DEF Kinds
<1> QED
  BY <1>2, <1>3, AddTaskSteps

LEMMA ProceedKinds ==
  ASSUME PoolInv, NEW t \in Threads, Proceed(t)
  PROVE  Kinds
<1> USE DEF Ops
<1>1. TypeOK /\ CallsOK /\ LifeOK /\ HistoryOK /\ StacksOK /\ ChildrenOK
  BY DEF PoolInv
<1>2. call[t].op \in Ops /\ call[t].arg \in Jobs \cup {NoJob}
  BY <1>1 DEF HistoryOK
<1>3. CASE AddTaskWakes(t)
  <2>1. Woken(t, "add_task") /\ call[t].op = "add_task" /\ AddTask(t, call[t].arg)
    BY <1>3 DEF AddTaskWakes, Woken
  <2>2. Busy(t)
    BY <2>1, WokenRuns
  <2>3. /\ t \in Clients /\ stack[t] = <<>>
        /\ call[t].arg \in Roots /\ call[t].arg \in Jobs /\ ids[call[t].arg] = 0
        /\ \A d \in Clients : call[d].op = "add_task" /\ call[d].arg = call[t].arg => d = t
    BY <1>1, <2>1, PoolAssumption DEF CallsOK
  <2>4. MaySubmit(t, call[t].arg)
    BY <2>2, <2>3 DEF MaySubmit
  <2> QED
    BY <2>1, <2>4, AddKinds
<1>4. CASE WaitAllWakes(t)
  <2> DEFINE op == "wait_for_all_tasks"
  <2>1. Woken(t, op) /\ WaitFor(t, op, NoJob, \E i \in Slots : Pending(t, i))
    BY <1>4 DEF WaitAllWakes, WaitAll
  <2>2. Busy(t)
    BY <2>1, WokenRuns
  <2> QED
    BY <2>1, <2>2, WaitForSteps, WaitKinds
<1>5. CASE WaitTaskWakes(t)
  <2> DEFINE op == "wait_for_task"
             arg == call[t].arg
  <2>1. /\ Woken(t, op)
        /\ WaitFor(t, op, arg, N # 0 /\ tasks[task_id_to_index(ids[arg])].task_id = ids[arg])
    BY <1>5 DEF WaitTaskWakes, WaitTask
  <2>2. Busy(t)
    BY <2>1, WokenRuns
  <2>3. t \in Clients /\ arg \in Jobs
    BY <1>1, <2>1 DEF CallsOK, Woken, Threads
  <2> QED
    BY <2>1, <2>2, <2>3, WaitForSteps, WaitKinds
<1>6. CASE SubmitsChild(t)
  <2> DEFINE j == Child[Top(t).job]
  <2>1. /\ Runs(t) /\ stack[t] # <<>> /\ Top(t).at = "begin" /\ j # NoJob /\ AddTask(t, j)
        /\ call[t].op = "none"
    BY <1>6 DEF SubmitsChild, InTask, Runs
  <2>2. Busy(t)
    BY <2>1, TaskRuns
  <2>3. Top(t).job \in Jobs /\ Len(stack[t]) \in 1..Len(stack[t])
    BY <1>1, <2>1, StackIs DEF Top
  <2>4. j \in Jobs /\ j \notin Roots
    BY <2>1, <2>3, PoolAssumption
  <2>5. ids[j] = 0
    BY <1>1, <2>1, <2>3 DEF ChildrenOK, Top
  <2>6. \A d \in Clients : ~(call[d].op = "add_task" /\ call[d].arg = j)
    BY <1>1, <2>4 DEF CallsOK, Threads
  <2>7. MaySubmit(t, j)
    BY <2>1, <2>2, <2>4, <2>5, <2>6 DEF MaySubmit
  <2> QED
    BY <2>1, <2>7, AddKinds
<1>7. CASE WaitsForAll(t)
  <2> DEFINE op == "wait_for_all_tasks"
  <2>1. /\ Runs(t) /\ stack[t] # <<>> /\ Top(t).at # "end"
        /\ WaitFor(t, op, NoJob, \E i \in Slots : Pending(t, i))
    BY <1>7 DEF WaitsForAll, WaitAll, InTask
  <2>2. Busy(t)
    BY <2>1, TaskRuns
  <2> QED
    BY <2>1, <2>2, WaitForSteps, WaitKinds
<1>8. CASE EndTask(t)
  <2>1. CASE \E n : GoesOn(t, n)
    BY <2>1, WaitKinds
  <2>2. ASSUME NEW n, Throws(t, n) PROVE Kinds
    <3>1. n \in Nat
      BY <1>1, <2>2, CutsAre DEF Throws
    <3> QED
      BY <2>2, <3>1 DEF Kinds
  <2> QED
    BY <1>8, <2>1, <2>2, EndTaskSteps
<1>9. CASE ShutdownWakes(t)
  <2>1. call[t].op = "shutdown" /\ t \notin task_done_signaler /\ ShutdownFrom(t)
    BY <1>9 DEF ShutdownWakes, Woken
  <2>2. t \in Clients /\ life = "closing"
    BY <1>1, <2>1 DEF CallsOK, LifeOK, Threads
  <2>3. \A d \in Clients : stack[d] = <<>> /\ (d # t => call[d].op = "none")
    BY <1>1, <2>1, <2>2 DEF CallsOK, LifeOK
  <2>4. Destructs(t)
    BY <2>1, <2>2, <2>3 DEF ShutdownFrom, Destructs, Broadcast
  <2> QED
    BY <2>2, <2>4 DEF Kinds
<1>10. CASE Joined(t)
  <2>1. call[t].op = "join" /\ t \notin task_done_signaler
    BY <1>1, <1>10 DEF Joined, CallsOK
  <2>2. t \in Clients /\ life = "joining"
    BY <1>1, <2>1 DEF CallsOK, LifeOK, Threads
  <2>3. \A d \in Clients : stack[d] = <<>> /\ (d # t => call[d].op = "none")
    BY <1>1, <2>1, <2>2 DEF CallsOK, LifeOK
  <2>4. Destructs(t)
    BY <1>10, <2>1, <2>2, <2>3 DEF Joined, Destructs, pool
  <2> QED
    BY <2>2, <2>4 DEF Kinds
<1> QED
  BY <1>3, <1>4, <1>5, <1>6, <1>7, <1>8, <1>9, <1>10 DEF Proceed

LEMMA WorkerKinds ==
  ASSUME PoolInv, NEW w \in Workers, WorkerStep(w)
  PROVE  Kinds
<1>1. StacksOK
  BY DEF PoolInv
<1>2. CASE Register(w)
  BY <1>1, <1>2 DEF Register, WorkerWaits, Kinds, StacksOK
<1>3. CASE FinishTask(w)
  BY <1>3, FinishTaskFinishes DEF Kinds
<1>4. CASE FindTask(w)
  <2>1. stack[w] = <<>> /\ LooksForWork(w)
    BY <1>1, <1>4 DEF StacksOK, FindTask, LooksForWork
  <2>2. CASE /\ we_are_destructing \/ ReadySlots = {}
             /\ \/ pc' = [pc EXCEPT ![w] = "exit"] /\ we_are_destructing
                   /\ UNCHANGED <<tasks, task_ready_signaler, stack, ran>>
                \/ ReadySlots = {} /\ task_ready_signaler' = task_ready_signaler \cup {w}
                   /\ UNCHANGED <<tasks, pc, stack, ran>>
    BY <1>4, <2>1, <2>2 DEF FindTask, WorkerWaits, Kinds, history
  <2>3. CASE \E i \in Slots : Takes(w, i)
    BY <2>3 DEF Kinds
  <2> QED
    BY <1>4, <2>2, <2>3, FindTaskTakes DEF FindTask
<1> QED
  BY <1>2, <1>3, <1>4 DEF WorkerStep

LEMMA ClientKinds ==
  ASSUME PoolInv, NEW c \in Clients, ClientAdds(c) \/ ClientWaits(c) \/ Shutdown(c)
  PROVE  Kinds
<1>1. CASE ClientAdds(c)
  <2>1. InClientCode(c)
    BY <1>1 DEF ClientAdds
  <2>2. PICK j \in Roots : /\ ids[j] = 0 /\ \A d \in Clients : call[d].arg # j
                           /\ AddTask(c, j)
    BY <1>1 DEF ClientAdds
  <2>3. MaySubmit(c, j)
    BY <2>1, <2>2, ClientRuns, PoolAssumption DEF MaySubmit
  <2> QED
    BY <2>2, <2>3, AddKinds
<1>2. CASE ClientWaits(c)
  <2>1. Busy(c)
    BY <1>2, ClientRuns DEF ClientWaits
  <2>2. CASE WaitAll(c)
    <3> DEFINE op == "wait_for_all_tasks"
    <3>1. WaitFor(c, op, NoJob, \E i \in Slots : Pending(c, i))
      BY <2>2 DEF WaitAll
    <3> QED
      BY <2>1, <3>1, WaitForSteps, WaitKinds
  <2>3. CASE \E j \in Jobs : ids[j] # 0 /\ WaitTask(c, j)
    <3> DEFINE op == "wait_for_task"
    <3>1. PICK j \in Jobs :
            WaitFor(c, op, j, N # 0 /\ tasks[task_id_to_index(ids[j])].task_id = ids[j])
      BY <2>3 DEF WaitTask
    <3> QED
      BY <2>1, <3>1, WaitForSteps, WaitKinds
  <2> QED
    BY <1>2, <2>2, <2>3 DEF ClientWaits
<1>3. CASE Shutdown(c)
  <2>1. \A d \in Clients : stack[d] = <<>> /\ call[d].op = "none" /\ d \notin task_done_signaler
    BY <1>3 DEF Shutdown, InClientCode, Runs, PoolInv, TypeOK, Sleeping
  <2>2. Destructs(c)
    BY <1>3, <2>1 DEF Shutdown, ShutdownFrom, Destructs, Broadcast
  <2> QED
    BY <2>2 DEF Kinds
<1> QED
  BY <1>1, <1>2, <1>3

LEMMA StepsAreKinds ==
  ASSUME PoolInv, [Next]_vars
  PROVE  Kinds
<1>1. CASE UNCHANGED vars
  BY <1>1 DEF Kinds
<1> QED
  BY <1>1, ProceedKinds, WorkerKinds, ClientKinds DEF Next, Finished

-----------------------------------------------------------------------------
(* The types *)

Sleepers == task_done_signaler \subseteq {t \in Threads : Sleeping(t)}

LEMMA TypesAre ==
  ASSUME PoolInv
  PROVE  /\ tasks \in [Slots -> SlotType] /\ worker_thread_ids \subseteq Workers /\ Sleepers
         /\ task_ready_signaler \subseteq {w \in Workers : pc[w] = "loop"}
         /\ we_are_destructing \in BOOLEAN
         /\ pc \in [Workers -> {"start", "loop", "run", "exit"}]
         /\ stack \in [Threads -> Seq(FrameType)] /\ ids \in [Jobs -> Nat]
         /\ life \in {"alive", "closing", "joining", "destroyed", "terminated"}
         /\ call \in [Threads -> CallType] /\ ran \in [Jobs -> Nat]
         /\ done \subseteq Jobs /\ thrown \subseteq Jobs
BY InvTyped DEF TypeOK, HistoryOK, SlotType, FrameType, CallType, Sleepers

LEMMA TypesTogether ==
  ASSUME /\ tasks' \in [Slots -> SlotType] /\ worker_thread_ids' \subseteq Workers /\ Sleepers'
         /\ task_ready_signaler' \subseteq {w \in Workers : pc'[w] = "loop"}
         /\ we_are_destructing' \in BOOLEAN
         /\ pc' \in [Workers -> {"start", "loop", "run", "exit"}]
         /\ stack' \in [Threads -> Seq(FrameType)] /\ ids' \in [Jobs -> Nat]
         /\ life' \in {"alive", "closing", "joining", "destroyed", "terminated"},
         /\ call' \in [Threads -> CallType] /\ ran' \in [Jobs -> Nat]
         /\ done' \subseteq Jobs /\ thrown' \subseteq Jobs
  PROVE  TypeOK' /\ HistoryOK'
BY DEF TypeOK, HistoryOK, SlotType, FrameType, CallType, Sleepers

LEMMA CallEndsTypes ==
  ASSUME PoolInv, NEW t, Busy(t), CallEnds(t), UNCHANGED task_done_signaler
  PROVE  call' \in [Threads -> CallType] /\ Sleepers'
BY TypesAre DEF Busy, CallEnds, Sleepers, Sleeping

LEMMA CutTypes ==
  ASSUME PoolInv, NEW t, NEW n, Cut(t, n), thrown' \subseteq Jobs
  PROVE  TypeOK' /\ HistoryOK'
<1>1. t \in Threads
  BY DEF Cut, Busy
<1>2. done' \subseteq Jobs
  <2>1. n \in Nat /\ Len(stack[t]) \in Nat
    BY <1>1, InvTyped, StackIs DEF Cut, Keeps
  <2>2. \A k \in (n + 1)..Len(stack[t]) : k \in 1..Len(stack[t])
    BY <2>1
  <2>3. \A k \in (n + 1)..Len(stack[t]) : stack[t][k].job \in Jobs
    BY <1>1, <2>2, InvTyped, StackIs
  <2> QED
    BY <2>3, TypesAre DEF Cut
<1>3. call' \in [Threads -> CallType] /\ Sleepers'
  BY CallEndsTypes DEF Cut
<1> QED
  BY <1>2, <1>3, TypesAre, TypesTogether DEF Cut, Keeps

LEMMA IdIsNatural ==
  ASSUME PoolInv, NEW i \in Slots
  PROVE  /\ next_id(i) \in Nat /\ next_id(i) > 1
         /\ tasks[i].next_task_id \in Nat \ {0, 1} /\ i \in 0..(N - 1) /\ N \in Nat \ {0}
         /\ task_id_to_index(next_id(i)) = i
<1> DEFINE m == tasks[i].next_task_id
<1>1. m \in Nat \ {0, 1} /\ i \in 0..(N - 1) /\ N \in Nat \ {0}
  BY InvTyped, SlotsAre DEF SlotType
<1> HIDE DEF m
<1>2. m \in Nat /\ m > 1
  BY <1>1
<1> DEFINE size == N
<1>3. size \in Nat \ {0} /\ i \in 0..(size - 1)
  BY <1>1
<1> HIDE DEF size
<1>4. m * size + i \in Nat /\ (m * size + i) % size = i /\ m * size + i > 1
  BY <1>2, <1>3, PlaceInBlock
<1>5. next_id(i) = m * size + i
  BY DEF next_id, size, m
<1>6. task_id_to_index(next_id(i)) = (m * size + i) % size
  BY <1>5 DEF task_id_to_index, size
<1> QED
  BY <1>1, <1>4, <1>5, <1>6 DEF m

LEMMA StoresTypes ==
  ASSUME PoolInv, NEW t, NEW j, NEW i, Stores(t, j, i)
  PROVE  TypeOK' /\ HistoryOK'
<1>1. call' \in [Threads -> CallType] /\ Sleepers'
  BY CallEndsTypes DEF Stores, MaySubmit
<1>2. ids' \in [Jobs -> Nat]
  BY TypesAre, IdIsNatural DEF Stores, MaySubmit
<1>3. task_ready_signaler' \subseteq {w \in Workers : pc'[w] = "loop"}
  BY TypesAre DEF Stores, Signal
<1> QED
  BY <1>1, <1>2, <1>3, TypesAre, TypesTogether DEF Stores, Keeps

LEMMA InlineTypes ==
  ASSUME PoolInv, NEW t, NEW j, Inline(t, j)
  PROVE  TypeOK' /\ HistoryOK'
<1>1. ids' \in [Jobs -> Nat] /\ ran' \in [Jobs -> Nat]
  BY TypesAre DEF Inline, MaySubmit, Begins
<1>2. Sleepers'
  BY TypesAre DEF Inline, Begins, Sleepers, Sleeping
<1> QED
  BY <1>1, <1>2, TypesAre, TypesTogether DEF Inline, Begins, Keeps

LEMMA TakesTypes ==
  ASSUME PoolInv, NEW w, NEW i, Takes(w, i)
  PROVE  TypeOK' /\ HistoryOK'
<1>1. ran' \in [Jobs -> Nat]
  <2>1. tasks[i].bfp \in Jobs
    BY DEF Takes, PoolInv, SlotsOK, ReadySlots, is_ready
  <2> QED
    BY <2>1, TypesAre DEF Takes, Begins
<1>2. Sleepers'
  BY TypesAre DEF Takes, Begins, Sleepers, Sleeping
<1>3. task_ready_signaler' \subseteq {x \in Workers : pc'[x] = "loop"}
  BY TypesAre DEF Takes, Begins, LooksForWork
<1>4. pc' \in [Workers -> {"start", "loop", "run", "exit"}]
  BY TypesAre DEF Takes
<1> QED
  BY <1>1, <1>2, <1>3, <1>4, TypesAre, TypesTogether DEF Takes, Begins, Keeps

LEMMA FinishesTypes ==
  ASSUME PoolInv, NEW w, NEW i, Finishes(w, i)
  PROVE  TypeOK' /\ HistoryOK'
<1>1. w \in Threads
  BY DEF Finishes, Threads
<1>2. stack[w][1].job \in Jobs
  BY <1>1, InvTyped, StackIs DEF Finishes
<1>3. Sleepers'
  BY DEF Finishes, Sleepers
<1>4. task_ready_signaler' \subseteq {x \in Workers : pc'[x] = "loop"}
  BY TypesAre DEF Finishes
<1>5. pc' \in [Workers -> {"start", "loop", "run", "exit"}]
  BY TypesAre DEF Finishes
<1>6. stack' \in [Threads -> Seq(FrameType)]
  BY <1>1, TypesAre DEF Finishes
<1>7. /\ tasks' \in [Slots -> SlotType] /\ done' = done \cup {stack[w][1].job}
      /\ UNCHANGED <<worker_thread_ids, task_ready_signaler, we_are_destructing,
                     call, ids, life, ran, thrown, caught>>
  BY DEF Finishes
<1> QED
  BY <1>2, <1>3, <1>4, <1>5, <1>6, <1>7, TypesAre, TypesTogether

LEMMA SleepsTypes ==
  ASSUME PoolInv, NEW t, WaitSleeps(t) \/ \E j : AddSleepsIn(t, j)
  PROVE  TypeOK' /\ HistoryOK'
<1>1. PICK op \in Ops \ {"none"}, arg \in Jobs \cup {NoJob} :
        call' = [call EXCEPT ![t] = [op |-> op, arg |-> arg]]
  BY DEF WaitSleeps, AddSleepsIn, Ops, MaySubmit
<1>2. /\ t \in Threads /\ task_done_signaler' = task_done_signaler \cup {t}
      /\ UNCHANGED <<tasks, worker_thread_ids, task_ready_signaler, we_are_destructing,
                     pc, stack, ids, life, history>>
  BY DEF WaitSleeps, AddSleepsIn, MaySubmit, Busy
<1>3. [op |-> op, arg |-> arg] \in CallType
  BY <1>1 DEF CallType
<1>4. call' \in [Threads -> CallType] /\ Sleepers'
  BY <1>1, <1>2, <1>3, TypesAre DEF Sleepers, Sleeping, Ops
<1> QED
  BY <1>2, <1>4, TypesAre, TypesTogether DEF history

LEMMA WorkerWaitsTypes ==
  ASSUME PoolInv, NEW w, WorkerWaits(w)
  PROVE  TypeOK' /\ HistoryOK'
<1>1. Sleepers'
  BY TypesAre DEF WorkerWaits, Sleepers, Sleeping
<1>2. pc' \in [Workers -> {"start", "loop", "run", "exit"}] /\ worker_thread_ids' \subseteq Workers
  BY TypesAre DEF WorkerWaits
<1>3. task_ready_signaler' \subseteq {x \in Workers : pc'[x] = "loop"}
  BY TypesAre DEF WorkerWaits, LooksForWork
<1>4. UNCHANGED <<tasks, task_done_signaler, we_are_destructing, stack, call, ids, life,
                  ran, done, thrown, caught>>
  BY DEF WorkerWaits, history
<1> QED
  BY <1>1, <1>2, <1>3, <1>4, TypesAre, TypesTogether

LEMMA DestructsTypes ==
  ASSUME PoolInv, NEW c, Destructs(c)
  PROVE  TypeOK' /\ HistoryOK'
<1>1. c \in Threads
  BY DEF Destructs, Threads
<1>2. call' \in [Threads -> CallType]
  <2>1. PICK op \in Ops : call' = [call EXCEPT ![c] = [op |-> op, arg |-> NoJob]]
    BY DEF Destructs, NoCall, Ops
  <2>2. [op |-> op, arg |-> NoJob] \in CallType
    BY <2>1 DEF CallType
  <2> QED
    BY <1>1, <2>1, <2>2, TypesAre
<1>3. Sleepers'
  BY <1>1, TypesAre DEF Destructs, Sleepers, Sleeping
<1>4. task_ready_signaler' \subseteq {x \in Workers : pc'[x] = "loop"}
  BY TypesAre DEF Destructs
<1>5. /\ life' \in {"alive", "closing", "joining", "destroyed", "terminated"}
      /\ we_are_destructing' \in BOOLEAN
  BY TypesAre DEF Destructs
<1>6. UNCHANGED <<tasks, worker_thread_ids, pc, stack, ids, ran, done, thrown, caught>>
  BY DEF Destructs, history
<1> QED
  BY <1>2, <1>3, <1>4, <1>5, <1>6, TypesAre, TypesTogether

LEMMA KindsTypes ==
  ASSUME PoolInv, Kinds
  PROVE  TypeOK' /\ HistoryOK'
<1>1. ASSUME NEW t \in Threads, NEW n \in Nat,
             GoesOn(t, n) \/ \E i \in Slots : Rethrows(t, n, i)
      PROVE  TypeOK' /\ HistoryOK'
  BY <1>1, CutTypes, TypesAre DEF GoesOn, Rethrows
<1>2. ASSUME NEW t \in Threads, NEW n \in Nat, Throws(t, n)
      PROVE  TypeOK' /\ HistoryOK'
  <2>1. Top(t).job \in Jobs
    BY <1>2, InvTyped, StackIs DEF Throws, Top
  <2>2. thrown' \subseteq Jobs
    BY <1>2, <2>1, TypesAre DEF Throws
  <2> QED
    BY <1>2, <2>2, CutTypes DEF Throws
<1>3. CASE UNCHANGED vars
  <2>1. Sleepers'
    BY <1>3, TypesAre DEF vars, pool, threads, history, Sleepers, Sleeping
  <2> QED
    BY <1>3, <2>1, TypesAre, TypesTogether DEF vars, pool, threads, history
<1> QED
  BY <1>1, <1>2, <1>3, StoresTypes, InlineTypes, TakesTypes, FinishesTypes, SleepsTypes,
     WorkerWaitsTypes, DestructsTypes DEF Kinds

-----------------------------------------------------------------------------
(* Steps that leave the tasks where they are *)

LEMMA QuietKeeps ==
  ASSUME PoolInv, UNCHANGED <<tasks, stack, ids, history>>
  PROVE  SlotsOK' /\ PlacesOK' /\ ChildrenOK' /\ IdsOK' /\ ExceptionsOK'
<1>1. SlotsOK /\ PlacesOK /\ ChildrenOK /\ IdsOK /\ ExceptionsOK
  BY DEF PoolInv
<1>2. UNCHANGED <<WaitingJobs, ReadySlots>>
  BY DEF WaitingJobs, ReadySlots, is_ready, is_empty
<1>3. SlotsOK'
  BY <1>1 DEF SlotsOK, is_empty
<1>4. PlacesOK'
  BY <1>1, <1>2 DEF PlacesOK, JobsOn, Count, history
<1>5. ChildrenOK'
  BY <1>1, <1>2 DEF ChildrenOK
<1>6. IdsOK'
  BY <1>1 DEF IdsOK, is_empty, task_id_to_index
<1>7. ExceptionsOK'
  BY <1>1, <1>2 DEF ExceptionsOK, ExcOf, history
<1> QED
  BY <1>3, <1>4, <1>5, <1>6, <1>7

-----------------------------------------------------------------------------
(* The stacks *)

FramesOK(t) ==
  \A k \in 1..Len(stack[t]) :
    /\ stack[t][k].slot # -1 <=> t \in Workers /\ k = 1
    /\ stack[t][k].at = "end" => t \in Workers /\ Len(stack[t]) = 1
    /\ stack[t][k].exc # NoJob => stack[t][k].at = "end"
    /\ stack[t][k].slot = -1 => ids[stack[t][k].job] = 1

LEMMA StacksAre ==
  StacksOK <=> /\ \A t \in Threads : FramesOK(t)
               /\ \A w \in Workers : stack[w] # <<>> <=> pc[w] = "run"
               /\ \A w \in Workers : pc[w] # "start" => w \in worker_thread_ids
               /\ \A c \in Clients : stack[c] # <<>> => N = 0
BY DEF StacksOK, FramesOK

LEMMA StackEmpty == \A s \in Seq(FrameType) : s = <<>> <=> Len(s) = 0
OBVIOUS

LEMMA CutStacks ==
  ASSUME PoolInv, NEW t, NEW n, Cut(t, n)
  PROVE  StacksOK'
<1>1. t \in Threads /\ StacksOK /\ TypeOK
  BY DEF PoolInv, Cut, Busy
<1>2. n \in Nat /\ \A k \in 1..n : k \in 1..Len(stack[t])
  BY <1>1, StackIs DEF Cut, Keeps
<1>3. FramesOK(t)'
  <2> SUFFICES ASSUME NEW k \in 1..n
               PROVE  /\ stack'[t][k].slot # -1 <=> t \in Workers /\ k = 1
                      /\ stack'[t][k].at = "end" => t \in Workers /\ n = 1
                      /\ stack'[t][k].exc # NoJob => stack'[t][k].at = "end"
                      /\ stack'[t][k].slot = -1 => ids'[stack'[t][k].job] = 1
    BY DEF FramesOK, Cut
  <2>1. k \in 1..Len(stack[t])
    BY <1>2
  <2>2. /\ stack'[t][k].job = stack[t][k].job /\ stack'[t][k].slot = stack[t][k].slot
        /\ ids' = ids
    BY DEF Cut, Keeps
  <2> QED
    BY <1>1, <2>1, <2>2, StacksAre DEF FramesOK, Cut
<1>4. ASSUME NEW u \in Threads, u # t PROVE FramesOK(u)'
  BY <1>1, <1>4, StacksAre DEF FramesOK, Cut, Keeps
<1>5. ASSUME t \in Workers PROVE stack[t] # <<>> /\ stack'[t] # <<>>
  BY <1>5, <1>1, StackEmpty DEF Cut, Busy, Keeps
<1>6. ASSUME stack[t] = <<>> PROVE stack'[t] = <<>>
  <2>1. n = 0
    BY <1>1, <1>2, <1>6, StackIs DEF Cut, Keeps
  <2> QED
    BY <1>1, <2>1, StackEmpty DEF Cut, Keeps
<1>7. UNCHANGED <<pc, worker_thread_ids>> /\ \A u \in Threads : u # t => stack'[u] = stack[u]
  BY DEF Cut, Keeps
<1>8. \A w \in Workers : stack'[w] # <<>> <=> pc'[w] = "run"
  BY <1>1, <1>5, <1>7, StacksAre DEF Threads
<1>9. \A c \in Clients : stack'[c] # <<>> => N = 0
  BY <1>1, <1>6, <1>7, StacksAre DEF Threads
<1> QED
  BY <1>1, <1>3, <1>4, <1>7, <1>8, <1>9, StacksAre DEF StacksOK, FramesOK

\* Stores and Inline: the tasks of t stay, the top one gets on.
LEMMA KeptFrames ==
  ASSUME PoolInv, NEW t, NEW j \in Jobs, ids[j] = 0, Keeps(t, Len(stack[t])), t \in Threads,
         NEW id, ids' = [ids EXCEPT ![j] = id] \/ ids' = ids,
         \A k \in 1..Len(stack[t]) : stack'[t][k].at # "end" /\ stack'[t][k].exc = stack[t][k].exc,
         Busy(t)
  PROVE  /\ \A k \in 1..Len(stack[t]) :
              /\ stack'[t][k].slot # -1 <=> t \in Workers /\ k = 1
              /\ stack'[t][k].at # "end" /\ stack'[t][k].exc = NoJob
              /\ stack'[t][k].slot = -1 => ids'[stack'[t][k].job] = 1
         /\ \A u \in Threads : u # t => FramesOK(u)'
<1>1. StacksOK /\ TypeOK /\ ids \in [Jobs -> Nat]
  BY TypesAre DEF PoolInv
<1>2. \A l \in Jobs : ids[l] = 1 => ids'[l] = 1
  BY <1>1
<1>3. ASSUME NEW u \in Threads, u # t PROVE FramesOK(u)'
  <2>1. stack'[u] = stack[u]
    BY <1>3 DEF Keeps
  <2>2. \A k \in 1..Len(stack[u]) : stack[u][k].job \in Jobs
    BY <1>1, StackIs
  <2>3. FramesOK(u)
    BY <1>1, StacksAre
  <2> QED
    BY <1>2, <2>1, <2>2, <2>3 DEF FramesOK
<1>4. \A k \in 1..Len(stack[t]) : stack[t][k].job \in Jobs
  BY <1>1, StackIs
<1>5. \A k \in 1..Len(stack[t]) : /\ stack'[t][k].job = stack[t][k].job
                                  /\ stack'[t][k].slot = stack[t][k].slot
  BY DEF Keeps
<1>6. FramesOK(t)
  BY <1>1, StacksAre
<1>7. \A k \in 1..Len(stack[t]) : stack[t][k].exc = NoJob
  BY BusyFrames
<1> QED
  BY <1>2, <1>3, <1>4, <1>5, <1>6, <1>7 DEF FramesOK

LEMMA StoresStacks ==
  ASSUME PoolInv, NEW t, NEW j, NEW i, Stores(t, j, i)
  PROVE  StacksOK'
<1>1. t \in Threads /\ j \in Jobs /\ ids[j] = 0 /\ Busy(t) /\ StacksOK /\ TypeOK
  BY DEF Stores, MaySubmit, Busy, PoolInv
<1>2. /\ \A k \in 1..Len(stack[t]) :
           /\ stack'[t][k].slot # -1 <=> t \in Workers /\ k = 1
           /\ stack'[t][k].at # "end" /\ stack'[t][k].exc = NoJob
           /\ stack'[t][k].slot = -1 => ids'[stack'[t][k].job] = 1
      /\ \A u \in Threads : u # t => FramesOK(u)'
  <2> DEFINE id == next_id(i)
  <2>1. ids' = [ids EXCEPT ![j] = id] /\ Keeps(t, Len(stack[t]))
    BY DEF Stores
  <2>2. \A k \in 1..Len(stack[t]) : stack'[t][k].at # "end" /\ stack'[t][k].exc = stack[t][k].exc
    BY DEF Stores
  <2> HIDE DEF id
  <2> QED
    BY <1>1, <2>1, <2>2, KeptFrames
<1>3. FramesOK(t)'
  BY <1>2 DEF FramesOK, Stores
<1>4. stack[t] = <<>> <=> stack'[t] = <<>>
  BY <1>1, StackEmpty, TypesAre DEF Stores, Keeps
<1>5. UNCHANGED <<pc, worker_thread_ids>> /\ \A u \in Threads : u # t => stack'[u] = stack[u]
  BY DEF Stores, Keeps
<1>6. \A u \in Threads : stack[u] = <<>> <=> stack'[u] = <<>>
  BY <1>4, <1>5
<1>7. /\ \A w \in Workers : stack'[w] # <<>> <=> pc'[w] = "run"
      /\ \A c \in Clients : stack'[c] # <<>> => N = 0
      /\ \A w \in Workers : pc'[w] # "start" => w \in worker_thread_ids'
  BY <1>1, <1>5, <1>6, StacksAre DEF Threads
<1>8. \A u \in Threads : FramesOK(u)'
  BY <1>2, <1>3
<1> QED
  BY <1>7, <1>8 DEF StacksOK, FramesOK

LEMMA InlineStacks ==
  ASSUME PoolInv, NEW t, NEW j, Inline(t, j)
  PROVE  StacksOK'
<1>1. /\ t \in Threads /\ j \in Jobs /\ ids[j] = 0 /\ Busy(t) /\ StacksOK /\ TypeOK
      /\ ids \in [Jobs -> Nat] /\ Len(stack[t]) \in Nat
  BY TypesAre, StackIs DEF Inline, MaySubmit, Busy, PoolInv
<1>2. /\ \A k \in 1..Len(stack[t]) :
           /\ stack'[t][k].slot # -1 <=> t \in Workers /\ k = 1
           /\ stack'[t][k].at # "end" /\ stack'[t][k].exc = NoJob
           /\ stack'[t][k].slot = -1 => ids'[stack'[t][k].job] = 1
      /\ \A u \in Threads : u # t => FramesOK(u)'
  <2>1. ids' = [ids EXCEPT ![j] = 1] /\ Keeps(t, Len(stack[t]))
    BY DEF Inline, Begins
  <2>2. \A k \in 1..Len(stack[t]) : stack'[t][k].at # "end" /\ stack'[t][k].exc = stack[t][k].exc
    BY DEF Inline, Begins
  <2> QED
    BY <1>1, <2>1, <2>2, KeptFrames
<1>3. ids'[j] = 1
  BY <1>1 DEF Inline
<1>4. t \in Workers => Len(stack[t]) # 0
  BY <1>1, StackIs DEF Busy
<1>5. FramesOK(t)'
  <2> DEFINE n == Len(stack[t])
  <2>1. /\ stack'[t][n + 1].job = j /\ stack'[t][n + 1].slot = -1
        /\ stack'[t][n + 1].at = "begin" /\ stack'[t][n + 1].exc = NoJob
        /\ Len(stack'[t]) = n + 1
    BY DEF Inline, Begins
  <2>2. \A k \in 1..(n + 1) : k \in 1..n \/ k = n + 1
    BY <1>1
  <2>3. t \in Workers => n + 1 # 1
    BY <1>1, <1>4
  <2> HIDE DEF n
  <2>4. \A k \in 1..n :
           /\ stack'[t][k].slot # -1 <=> t \in Workers /\ k = 1
           /\ stack'[t][k].at # "end" /\ stack'[t][k].exc = NoJob
           /\ stack'[t][k].slot = -1 => ids'[stack'[t][k].job] = 1
    BY <1>2 DEF n
  <2> QED
    BY <1>3, <2>1, <2>2, <2>3, <2>4 DEF FramesOK
<1>6. stack'[t] # <<>>
  BY <1>1, StackEmpty DEF Inline, Begins, Keeps
<1>7. UNCHANGED <<pc, worker_thread_ids>> /\ \A u \in Threads : u # t => stack'[u] = stack[u]
  BY DEF Inline, Begins, Keeps
<1>8. t \in Workers => stack[t] # <<>>
  BY <1>1 DEF Busy
<1>9. /\ \A w \in Workers : stack'[w] # <<>> <=> pc'[w] = "run"
      /\ \A c \in Clients : stack'[c] # <<>> => N = 0
      /\ \A w \in Workers : pc'[w] # "start" => w \in worker_thread_ids'
  BY <1>1, <1>6, <1>7, <1>8, StacksAre DEF Threads, Inline
<1>10. \A u \in Threads : FramesOK(u)'
  BY <1>2, <1>5
<1> QED
  BY <1>9, <1>10 DEF StacksOK, FramesOK

LEMMA TakesStacks ==
  ASSUME PoolInv, NEW w, NEW i, Takes(w, i)
  PROVE  StacksOK'
<1>1. /\ w \in Workers /\ w \in Threads /\ StacksOK /\ TypeOK
      /\ stack[w] = <<>> /\ Len(stack[w]) = 0
      /\ i \in Slots /\ i # -1 /\ w \notin Clients
  <2>1. w \in Workers /\ w \in Threads /\ StacksOK /\ TypeOK /\ stack[w] = <<>> /\ i \in Slots
    BY DEF Takes, PoolInv, Threads, ReadySlots
  <2> QED
    BY <2>1, StackIs, SlotsAre, PoolAssumption
<1>2. /\ Len(stack'[w]) = 1 /\ stack'[w][1].slot = i
      /\ stack'[w][1].at = "begin" /\ stack'[w][1].exc = NoJob
  <2>1. 0 + 1 = 1
    OBVIOUS
  <2> QED
    BY <1>1, <2>1 DEF Takes, Begins
<1>3. FramesOK(w)'
  <2>1. \A k \in 1..1 : k = 1
    OBVIOUS
  <2> QED
    BY <1>1, <1>2, <2>1 DEF FramesOK
<1>4. /\ UNCHANGED <<ids, worker_thread_ids>> /\ \A u \in Threads : u # w => stack'[u] = stack[u]
      /\ pc' = [pc EXCEPT ![w] = "run"] /\ pc[w] = "loop"
  BY DEF Takes, Begins, Keeps, LooksForWork
<1>5. \A u \in Threads : FramesOK(u)'
  BY <1>1, <1>3, <1>4, StacksAre DEF FramesOK
<1>6. stack'[w] # <<>>
  BY <1>1, <1>2, StackEmpty DEF Takes, Begins, Keeps
<1>7. /\ \A x \in Workers : stack'[x] # <<>> <=> pc'[x] = "run"
      /\ \A c \in Clients : stack'[c] # <<>> => N = 0
      /\ \A x \in Workers : pc'[x] # "start" => x \in worker_thread_ids'
  BY <1>1, <1>4, <1>6, StacksAre, TypesAre DEF Threads
<1> QED
  BY <1>5, <1>7 DEF StacksOK, FramesOK

LEMMA FinishesStacks ==
  ASSUME PoolInv, NEW w, NEW i, Finishes(w, i)
  PROVE  StacksOK'
<1>1. w \in Workers /\ w \in Threads /\ StacksOK /\ TypeOK /\ w \notin Clients /\ stack[w] # <<>>
  BY StackIs, PoolAssumption DEF Finishes, PoolInv, Threads
<1>2. /\ UNCHANGED <<ids, worker_thread_ids>> /\ pc' = [pc EXCEPT ![w] = "loop"]
      /\ stack' = [stack EXCEPT ![w] = <<>>]
  BY DEF Finishes
<1>3. stack'[w] = <<>> /\ \A u \in Threads : u # w => stack'[u] = stack[u]
  BY <1>1, <1>2, TypesAre
<1>4. FramesOK(w)'
  <2>1. Len(stack'[w]) = 0 /\ 1..0 = {}
    BY <1>3
  <2> QED
    BY <2>1 DEF FramesOK
<1>5. \A u \in Threads : FramesOK(u)'
  BY <1>1, <1>2, <1>3, <1>4, StacksAre DEF FramesOK
<1>6. w \in worker_thread_ids
  BY <1>1 DEF StacksOK
<1>7. /\ \A x \in Workers : stack'[x] # <<>> <=> pc'[x] = "run"
      /\ \A c \in Clients : stack'[c] # <<>> => N = 0
      /\ \A x \in Workers : pc'[x] # "start" => x \in worker_thread_ids'
  BY <1>1, <1>2, <1>3, <1>6, StacksAre, TypesAre DEF Threads
<1> QED
  BY <1>5, <1>7 DEF StacksOK, FramesOK

LEMMA QuietStacks ==
  ASSUME PoolInv, UNCHANGED <<stack, ids>>,
         UNCHANGED <<pc, worker_thread_ids>> \/ \E w : WorkerWaits(w)
  PROVE  StacksOK'
<1>1. StacksOK
  BY DEF PoolInv
<1>2. /\ \A x \in Workers : stack'[x] # <<>> <=> pc'[x] = "run"
      /\ \A x \in Workers : pc'[x] # "start" => x \in worker_thread_ids'
  BY <1>1, TypesAre DEF StacksOK, WorkerWaits, LooksForWork
<1> QED
  BY <1>1, <1>2 DEF StacksOK

LEMMA KindsStacks ==
  ASSUME PoolInv, Kinds
  PROVE  StacksOK'
<1>1. ASSUME NEW t \in Threads, NEW n \in Nat,
             GoesOn(t, n) \/ Throws(t, n) \/ \E i \in Slots : Rethrows(t, n, i)
      PROVE  StacksOK'
  BY <1>1, CutStacks DEF GoesOn, Throws, Rethrows
<1>2. ASSUME NEW t, NEW j, AddSleepsIn(t, j) \/ WaitSleeps(t) PROVE StacksOK'
  BY <1>2, QuietStacks DEF AddSleepsIn, WaitSleeps
<1>3. ASSUME NEW c, Destructs(c) \/ UNCHANGED vars PROVE StacksOK'
  BY <1>3, QuietStacks DEF Destructs, vars, pool, threads
<1>4. ASSUME NEW w, WorkerWaits(w) PROVE StacksOK'
  BY <1>4, QuietStacks DEF WorkerWaits
<1> QED
  BY <1>1, <1>2, <1>3, <1>4, StoresStacks, InlineStacks, TakesStacks, FinishesStacks DEF Kinds

-----------------------------------------------------------------------------
(* The slots *)

SlotOK(i) ==
  /\ ~is_empty(i) => /\ tasks[i].bfp \in Jobs /\ tasks[i].eptr = NoJob
                     /\ ids[tasks[i].bfp] = tasks[i].task_id
  /\ tasks[i].is_being_processed =>
       ~is_empty(i) /\ \E w \in Workers : stack[w] # <<>> /\ stack[w][1].slot = i

\* Worker w runs the task of the slot that it took.
RunsSlot(w) ==
  stack[w] # <<>> =>
    /\ stack[w][1].slot \in Slots
    /\ tasks[stack[w][1].slot].is_being_processed
    /\ tasks[stack[w][1].slot].bfp = stack[w][1].job
    /\ \A x \in Workers : stack[x] # <<>> /\ stack[x][1].slot = stack[w][1].slot => x = w

LEMMA LowestTask ==
  ASSUME PoolInv, NEW w \in Workers, stack[w] # <<>>
  PROVE  stack[w][1].slot \in Slots /\ stack[w][1].job \in Jobs
<1>1. w \in Threads /\ TypeOK /\ StacksOK
  BY DEF Threads, PoolInv
<1>2. 1 \in 1..Len(stack[w])
  BY <1>1, StackIs
<1> QED
  BY <1>1, <1>2, StackIs DEF StacksOK

LEMMA SlotsNow ==
  ASSUME PoolInv
  PROVE  (\A i \in Slots : SlotOK(i)) /\ (\A w \in Workers : RunsSlot(w))
BY LowestTask DEF PoolInv, SlotsOK, SlotOK, RunsSlot

LEMMA SlotsThen ==
  ASSUME (\A i \in Slots : SlotOK(i)') /\ (\A w \in Workers : RunsSlot(w)')
  PROVE  SlotsOK'
BY DEF SlotsOK, SlotOK, RunsSlot

\* The lowest tasks of the workers stay.
LowestStay ==
  \A w \in Workers :
    /\ stack'[w] # <<>> <=> stack[w] # <<>>
    /\ stack[w] # <<>> => /\ stack'[w][1].slot = stack[w][1].slot
                          /\ stack'[w][1].job = stack[w][1].job

LEMMA KeepsLowest ==
  ASSUME PoolInv, NEW t, Busy(t), NEW n, Keeps(t, n), t \in Workers => n # 0
  PROVE  LowestStay
<1>1. t \in Threads /\ TypeOK
  BY DEF Busy, PoolInv
<1>2. ASSUME t \in Workers
      PROVE  /\ stack'[t] # <<>> /\ stack[t] # <<>>
             /\ stack'[t][1].slot = stack[t][1].slot /\ stack'[t][1].job = stack[t][1].job
  <2>1. n \in Nat \ {0} /\ Len(stack'[t]) # 0
    BY <1>1, <1>2, StackIs DEF Keeps
  <2>2. 1 \in 1..n
    BY <2>1
  <2> QED
    BY <1>1, <1>2, <2>1, <2>2, StackEmpty DEF Busy, Keeps
<1> QED
  BY <1>2 DEF LowestStay, Keeps, Threads

LEMMA KeptSlots ==
  ASSUME PoolInv, LowestStay,
         \A i \in Slots : SameSlot(i) /\ tasks'[i].eptr \in {NoJob, tasks[i].eptr},
         \A l \in Jobs : ids[l] # 0 => ids'[l] = ids[l]
  PROVE  SlotsOK'
<1>1. ASSUME NEW i \in Slots PROVE SlotOK(i)'
  <2>1. SlotOK(i) /\ SameSlot(i)
    BY SlotsNow
  <2>2. ~is_empty(i)' => /\ tasks'[i].bfp \in Jobs /\ tasks'[i].eptr = NoJob
                         /\ ids'[tasks'[i].bfp] = tasks'[i].task_id
    BY <2>1 DEF SlotOK, SameSlot, is_empty
  <2>3. tasks'[i].is_being_processed =>
          ~is_empty(i)' /\ \E w \in Workers : stack'[w] # <<>> /\ stack'[w][1].slot = i
    BY <2>1 DEF SlotOK, SameSlot, is_empty, LowestStay
  <2> QED
    BY <2>2, <2>3 DEF SlotOK
<1>2. ASSUME NEW w \in Workers PROVE RunsSlot(w)'
  <2>1. RunsSlot(w)
    BY SlotsNow
  <2> QED
    BY <2>1 DEF RunsSlot, LowestStay, SameSlot
<1> QED
  BY <1>1, <1>2, SlotsThen

LEMMA CutSlots ==
  ASSUME PoolInv, NEW t, NEW n, Cut(t, n)
  PROVE  SlotsOK'
BY KeepsLowest, KeptSlots DEF Cut

LEMMA SubmitLowest ==
  ASSUME PoolInv, NEW t, Busy(t), Keeps(t, Len(stack[t]))
  PROVE  LowestStay
<1>1. t \in Workers => Len(stack[t]) # 0
  BY StackIs DEF Busy, PoolInv
<1> DEFINE n == Len(stack[t])
<1> HIDE DEF n
<1>2. Keeps(t, n) /\ (t \in Workers => n # 0)
  BY <1>1 DEF n
<1> QED
  BY <1>2, KeepsLowest

LEMMA InlineSlots ==
  ASSUME PoolInv, NEW t, NEW j, Inline(t, j)
  PROVE  SlotsOK'
<1>1. LowestStay
  BY SubmitLowest DEF Inline, Begins, MaySubmit
<1>2. \A l \in Jobs : ids[l] # 0 => ids'[l] = ids[l]
  BY TypesAre DEF Inline, MaySubmit
<1>3. \A i \in Slots : SameSlot(i) /\ tasks'[i].eptr \in {NoJob, tasks[i].eptr}
  BY DEF Inline, SameSlot
<1> QED
  BY <1>1, <1>2, <1>3, KeptSlots

LEMMA StoresSlots ==
  ASSUME PoolInv, NEW t, NEW j, NEW i, Stores(t, j, i)
  PROVE  SlotsOK'
<1>1. LowestStay
  BY SubmitLowest DEF Stores, MaySubmit
<1>2. /\ i \in Slots /\ j \in Jobs /\ is_empty(i) /\ ~tasks[i].is_being_processed
      /\ ids'[j] = next_id(i) /\ \A l \in Jobs : ids[l] # 0 => ids'[l] = ids[l]
  <2>1. i \in Slots /\ j \in Jobs /\ is_empty(i) /\ ids[j] = 0
    BY DEF Stores, MaySubmit
  <2> QED
    BY <2>1, TypesAre, SlotsNow DEF Stores, SlotOK
<1>3. SlotOK(i)'
  BY <1>2 DEF SlotOK, Stores
<1>4. ASSUME NEW k \in Slots, k # i PROVE SlotOK(k)'
  <2>1. tasks'[k] = tasks[k] /\ SlotOK(k)
    BY <1>4, SlotsNow DEF Stores
  <2>2. ~is_empty(k)' => /\ tasks'[k].bfp \in Jobs /\ tasks'[k].eptr = NoJob
                         /\ ids'[tasks'[k].bfp] = tasks'[k].task_id
    BY <1>2, <2>1 DEF SlotOK, is_empty
  <2>3. tasks'[k].is_being_processed =>
          ~is_empty(k)' /\ \E w \in Workers : stack'[w] # <<>> /\ stack'[w][1].slot = k
    BY <1>1, <2>1 DEF SlotOK, is_empty, LowestStay
  <2> QED
    BY <2>2, <2>3 DEF SlotOK
<1>5. ASSUME NEW w \in Workers PROVE RunsSlot(w)'
  <2>1. RunsSlot(w)
    BY SlotsNow
  <2>2. stack[w] # <<>> => stack[w][1].slot # i
    BY <1>2, <2>1 DEF RunsSlot
  <2>3. \A k \in Slots : k # i => tasks'[k] = tasks[k]
    BY DEF Stores
  <2> QED
    BY <1>1, <2>1, <2>2, <2>3 DEF RunsSlot, LowestStay
<1> QED
  BY <1>3, <1>4, <1>5, SlotsThen

LEMMA TakesSlots ==
  ASSUME PoolInv, NEW w, NEW i, Takes(w, i)
  PROVE  SlotsOK'
<1>1. /\ i \in Slots /\ ~is_empty(i) /\ ~tasks[i].is_being_processed
      /\ w \in Workers /\ w \in Threads /\ stack[w] = <<>> /\ Len(stack[w]) = 0
  <2>1. /\ i \in Slots /\ ~is_empty(i) /\ ~tasks[i].is_being_processed
        /\ w \in Workers /\ stack[w] = <<>>
    BY DEF Takes, ReadySlots, is_ready
  <2> QED
    BY <2>1, StackIs DEF PoolInv, Threads
<1>2. /\ stack'[w] # <<>> /\ stack'[w][1].slot = i /\ stack'[w][1].job = tasks[i].bfp
      /\ \A x \in Workers : x # w => stack'[x] = stack[x]
  <2>1. 0 + 1 = 1
    OBVIOUS
  <2>2. /\ stack'[w][1].slot = i /\ stack'[w][1].job = tasks[i].bfp /\ Len(stack'[w]) = 1
        /\ stack'[w] \in Seq(FrameType)
        /\ \A u \in Threads : u # w => stack'[u] = stack[u]
    BY <1>1, <2>1 DEF Takes, Begins, Keeps
  <2> QED
    BY <2>2, StackEmpty DEF Threads
<1>3. \A k \in Slots : SameSlot(k) \/ k = i
  BY DEF Takes, SameSlot
<1>4. ids' = ids /\ \A k \in Slots : k # i => tasks'[k] = tasks[k]
  BY DEF Takes
<1>5. /\ tasks'[i].is_being_processed /\ tasks'[i].task_id = tasks[i].task_id
      /\ tasks'[i].bfp = tasks[i].bfp /\ tasks'[i].eptr = tasks[i].eptr
  BY DEF Takes
<1>6. SlotOK(i)'
  <2>1. SlotOK(i)
    BY <1>1, SlotsNow
  <2> QED
    BY <1>1, <1>2, <1>4, <1>5, <2>1 DEF SlotOK, is_empty
<1>7. ASSUME NEW k \in Slots, k # i PROVE SlotOK(k)'
  <2>1. tasks'[k] = tasks[k] /\ SlotOK(k)
    BY <1>4, <1>7, SlotsNow
  <2> QED
    BY <1>1, <1>2, <1>4, <2>1 DEF SlotOK, is_empty
<1>8. \A x \in Workers : stack[x] # <<>> => stack[x][1].slot # i
  BY <1>1, SlotsNow DEF RunsSlot
<1>9. ASSUME NEW x \in Workers, x # w PROVE RunsSlot(x)'
  <2>1. RunsSlot(x)
    BY SlotsNow
  <2> QED
    BY <1>2, <1>4, <1>8, <1>9, <2>1 DEF RunsSlot
<1>10. RunsSlot(w)'
  BY <1>1, <1>2, <1>5, <1>8 DEF RunsSlot
<1> QED
  BY <1>6, <1>7, <1>9, <1>10, SlotsThen

LEMMA FinishesSlots ==
  ASSUME PoolInv, NEW w, NEW i, Finishes(w, i)
  PROVE  SlotsOK'
<1>1. /\ i \in Slots /\ w \in Workers /\ w \in Threads
      /\ stack[w] # <<>> /\ stack[w][1].slot = i
  <2>1. i \in Slots /\ w \in Workers /\ w \in Threads /\ Len(stack[w]) = 1 /\ stack[w][1].slot = i
    BY DEF Finishes, Threads
  <2> QED
    BY <2>1, StackIs DEF PoolInv
<1>2. /\ stack'[w] = <<>> /\ ids' = ids
      /\ \A x \in Workers : x # w => stack'[x] = stack[x]
      /\ \A k \in Slots : k # i => tasks'[k] = tasks[k]
  BY <1>1, TypesAre DEF Finishes, Threads
<1>3. SlotOK(i)'
  BY DEF SlotOK, Finishes, is_empty
<1>4. ASSUME NEW k \in Slots, k # i PROVE SlotOK(k)'
  <2>1. tasks'[k] = tasks[k] /\ SlotOK(k)
    BY <1>2, <1>4, SlotsNow
  <2> QED
    BY <1>1, <1>2, <1>4, <2>1 DEF SlotOK, is_empty
<1>5. ASSUME NEW x \in Workers PROVE RunsSlot(x)'
  <2>1. RunsSlot(x) /\ RunsSlot(w)
    BY <1>1, SlotsNow
  <2>2. x # w /\ stack[x] # <<>> => stack[x][1].slot # i
    BY <1>1, <2>1 DEF RunsSlot
  <2> QED
    BY <1>2, <2>1, <2>2 DEF RunsSlot
<1> QED
  BY <1>3, <1>4, <1>5, SlotsThen

LEMMA QuietKinds ==
  ASSUME NEW t, \/ WaitSleeps(t) \/ WorkerWaits(t) \/ Destructs(t) \/ UNCHANGED vars
                \/ \E j : AddSleepsIn(t, j)
  PROVE  UNCHANGED <<tasks, stack, ids, history>>
BY DEF WaitSleeps, WorkerWaits, Destructs, AddSleepsIn, vars, pool, threads

LEMMA KindsSlots ==
  ASSUME PoolInv, Kinds
  PROVE  SlotsOK'
<1>1. ASSUME NEW t \in Threads, NEW n \in Nat,
             GoesOn(t, n) \/ Throws(t, n) \/ \E i \in Slots : Rethrows(t, n, i)
      PROVE  SlotsOK'
  BY <1>1, CutSlots DEF GoesOn, Throws, Rethrows
<1>2. CASE \E t : \/ WaitSleeps(t) \/ WorkerWaits(t) \/ Destructs(t) \/ UNCHANGED vars
                  \/ \E j : AddSleepsIn(t, j)
  BY <1>2, QuietKinds, QuietKeeps
<1> QED
  BY <1>1, <1>2, StoresSlots, InlineSlots, TakesSlots, FinishesSlots DEF Kinds

-----------------------------------------------------------------------------
(* The places of the tasks *)

On(t, j) == \E k \in 1..Len(stack[t]) : stack[t][k].job = j

WaitingOnce == \A i, k \in ReadySlots : tasks[i].bfp = tasks[k].bfp => i = k
RunningOnce ==
  \A t, u \in Threads : \A k \in 1..Len(stack[t]), l \in 1..Len(stack[u]) :
    stack[t][k].job = stack[u][l].job => t = u /\ k = l
OnePlace ==
  \A j \in Jobs :
    /\ ~(j \in WaitingJobs /\ j \in done)
    /\ \A t \in Threads : On(t, j) => j \notin WaitingJobs /\ j \notin done
    /\ ids[j] # 0 <=> j \in WaitingJobs \/ j \in done \/ \E t \in Threads : On(t, j)
    /\ ran[j] = Count(ids[j] # 0 /\ j \notin WaitingJobs)

LEMMA JobsAre ==
  ASSUME PoolInv
  PROVE  /\ WaitingJobs \subseteq Jobs /\ done \subseteq Jobs
         /\ \A t \in Threads : \A k \in 1..Len(stack[t]) : stack[t][k].job \in Jobs
         /\ \A t \in Threads : JobsOn(stack[t]) \subseteq Jobs
<1>1. \A i \in ReadySlots : tasks[i].bfp \in Jobs
  BY DEF PoolInv, SlotsOK, ReadySlots, is_ready
<1> QED
  BY <1>1, TypesAre, StackIs, InvTyped DEF WaitingJobs, JobsOn

LEMMA PlacesAre == \A t : \A j : j \in JobsOn(stack[t]) <=> On(t, j)
BY DEF JobsOn, On

LEMMA PlacesNow ==
  ASSUME PoolInv
  PROVE  WaitingOnce /\ RunningOnce /\ OnePlace
<1>1. PlacesOK
  BY DEF PoolInv
<1>2. WaitingOnce /\ RunningOnce
  BY <1>1 DEF PlacesOK, WaitingOnce, RunningOnce
<1> QED
  BY <1>1, <1>2, PlacesAre DEF PlacesOK, OnePlace

\* After a step whose types and slots are right.
LEMMA PlacesNext ==
  ASSUME TypeOK', HistoryOK', SlotsOK', WaitingOnce', RunningOnce', OnePlace'
  PROVE  PlacesOK'
<1>1. WaitingJobs' \subseteq Jobs
  BY DEF SlotsOK, WaitingJobs, ReadySlots, is_ready, is_empty
<1>2. done' \subseteq Jobs
  BY DEF HistoryOK
<1>3. \A t \in Threads : JobsOn(stack[t])' \subseteq Jobs
  <2> SUFFICES ASSUME NEW t \in Threads, NEW k \in 1..Len(stack'[t])
               PROVE  stack'[t][k].job \in Jobs
    BY DEF JobsOn
  <2>1. stack'[t] \in Seq(FrameType)
    BY DEF TypeOK, FrameType
  <2>2. stack'[t][k] \in FrameType
    BY <2>1
  <2> QED
    BY <2>2 DEF FrameType
<1>4. \A t \in Threads : JobsOn(stack[t])' \cap (WaitingJobs' \cup done') = {}
  BY <1>3 DEF OnePlace, JobsOn, On
<1>5. WaitingJobs' \cap done' = {}
  BY <1>1 DEF OnePlace
<1>6. \A j \in Jobs : ids'[j] # 0 <=> \/ j \in WaitingJobs' \cup done'
                                      \/ \E t \in Threads : j \in JobsOn(stack[t])'
  <2>1. \A t : \A j : j \in JobsOn(stack[t])' <=> On(t, j)'
    BY DEF JobsOn, On
  <2> QED
    BY <2>1 DEF OnePlace
<1>7. \A j \in Jobs : ran'[j] = Count(ids'[j] # 0 /\ j \notin WaitingJobs')
  BY DEF OnePlace, Count
<1> QED
  BY <1>4, <1>5, <1>6, <1>7 DEF PlacesOK, WaitingOnce, RunningOnce, Count

LEMMA SameWaiting ==
  ASSUME \A k \in Slots : SameSlot(k)
  PROVE  ReadySlots' = ReadySlots /\ WaitingJobs' = WaitingJobs /\ (WaitingOnce => WaitingOnce')
<1>1. ReadySlots' = ReadySlots /\ ReadySlots \subseteq Slots
  BY DEF ReadySlots, is_ready, is_empty, SameSlot
<1> QED
  BY <1>1 DEF SameSlot, WaitingJobs, WaitingOnce

LEMMA CutPlaces ==
  ASSUME PoolInv, NEW t, NEW n, Cut(t, n)
  PROVE  WaitingOnce' /\ RunningOnce' /\ OnePlace'
<1> DEFINE Gone(j) == \E k \in (n + 1)..Len(stack[t]) : stack[t][k].job = j
<1>1. /\ t \in Threads /\ n \in Nat /\ n <= Len(stack[t]) /\ Len(stack[t]) \in Nat
  BY StackIs, InvTyped DEF Cut, Busy, Keeps
<1>2. /\ Len(stack'[t]) = n /\ \A k \in 1..n : stack'[t][k].job = stack[t][k].job
      /\ \A u \in Threads : u # t => stack'[u] = stack[u]
  BY DEF Cut, Keeps
<1>3. /\ UNCHANGED <<ids, ran>> /\ \A j : j \in done' <=> j \in done \/ Gone(j)
  BY DEF Cut
<1>4. ReadySlots' = ReadySlots /\ WaitingJobs' = WaitingJobs /\ WaitingOnce'
  BY SameWaiting, PlacesNow DEF Cut
<1>5. \A k \in 1..n : k \in 1..Len(stack[t])
  BY <1>1
<1>6. \A k \in (n + 1)..Len(stack[t]) : k \in 1..Len(stack[t]) /\ k \notin 1..n
  BY <1>1
<1>7. \A k \in 1..Len(stack[t]) : k \in 1..n \/ k \in (n + 1)..Len(stack[t])
  BY <1>1
<1>8. RunningOnce'
  BY <1>1, <1>2, <1>5, PlacesNow DEF RunningOnce
<1>9. \A j : On(t, j) <=> On(t, j)' \/ Gone(j)
  BY <1>2, <1>5, <1>6, <1>7 DEF On
<1>10. \A j : ~(On(t, j)' /\ Gone(j))
  BY <1>1, <1>2, <1>5, <1>6, PlacesNow DEF On, RunningOnce
<1>11. \A u \in Threads : u # t => \A j : (On(u, j)' <=> On(u, j)) /\ ~(On(u, j) /\ On(t, j))
  BY <1>1, <1>2, PlacesNow DEF On, RunningOnce
<1> HIDE DEF Gone
<1>12. OnePlace'
  <2> SUFFICES ASSUME NEW j \in Jobs
               PROVE  /\ ~(j \in WaitingJobs' /\ j \in done')
                      /\ \A u \in Threads : On(u, j)' => j \notin WaitingJobs' /\ j \notin done'
                      /\ ids'[j] # 0 <=> \/ j \in WaitingJobs' \/ j \in done'
                                         \/ \E u \in Threads : On(u, j)'
                      /\ ran'[j] = Count(ids'[j] # 0 /\ j \notin WaitingJobs')
    BY DEF OnePlace, Count
  <2>1. /\ ~(j \in WaitingJobs /\ j \in done)
        /\ \A u \in Threads : On(u, j) => j \notin WaitingJobs /\ j \notin done
        /\ ids[j] # 0 <=> j \in WaitingJobs \/ j \in done \/ \E u \in Threads : On(u, j)
        /\ ran[j] = Count(ids[j] # 0 /\ j \notin WaitingJobs)
    BY PlacesNow DEF OnePlace
  <2>2. ~(j \in WaitingJobs' /\ j \in done')
    BY <1>1, <1>3, <1>4, <1>9, <2>1
  <2>3. ASSUME NEW u \in Threads, On(u, j)' PROVE j \notin WaitingJobs' /\ j \notin done'
    BY <1>1, <1>3, <1>4, <1>9, <1>10, <1>11, <2>1, <2>3
  <2>4. ids'[j] # 0 <=> \/ j \in WaitingJobs' \/ j \in done'
                        \/ \E u \in Threads : On(u, j)'
    BY <1>1, <1>3, <1>4, <1>9, <1>11, <2>1
  <2> QED
    BY <1>3, <1>4, <2>1, <2>2, <2>3, <2>4
<1> QED
  BY <1>4, <1>8, <1>12

\* Task j comes into slot i.
LEMMA StoresPlaces ==
  ASSUME PoolInv, NEW t, NEW j, NEW i, Stores(t, j, i)
  PROVE  WaitingOnce' /\ RunningOnce' /\ OnePlace'
<1>1. /\ t \in Threads /\ j \in Jobs /\ ids[j] = 0 /\ i \in Slots /\ i \notin ReadySlots
      /\ ids \in [Jobs -> Nat] /\ ~tasks[i].is_being_processed
  <2>1. t \in Threads /\ j \in Jobs /\ ids[j] = 0 /\ i \in Slots /\ is_empty(i)
    BY DEF Stores, MaySubmit, Busy
  <2> QED
    BY <2>1, TypesAre, SlotsNow DEF ReadySlots, is_ready, SlotOK
<1>2. /\ Len(stack'[t]) = Len(stack[t])
      /\ \A k \in 1..Len(stack[t]) : stack'[t][k].job = stack[t][k].job
      /\ \A u \in Threads : u # t => stack'[u] = stack[u]
  BY DEF Stores, Keeps
<1>3. UNCHANGED <<ran, done>> /\ ids'[j] # 0 /\ \A l \in Jobs : l # j => ids'[l] = ids[l]
  <2>1. next_id(i) \in Nat /\ next_id(i) > 1
    BY <1>1, IdIsNatural
  <2>2. next_id(i) # 0
    BY <2>1
  <2> QED
    BY <1>1, <2>2 DEF Stores
<1>4. /\ ReadySlots' = ReadySlots \cup {i} /\ tasks'[i].bfp = j
      /\ \A k \in ReadySlots : tasks'[k].bfp = tasks[k].bfp
  <2>1. \A k \in Slots : k # i => tasks'[k] = tasks[k]
    BY DEF Stores
  <2>2. tasks'[i].is_being_processed = tasks[i].is_being_processed /\ tasks'[i].task_id = next_id(i)
        /\ tasks'[i].bfp = j
    BY DEF Stores
  <2>3. next_id(i) > 1 /\ next_id(i) \in Nat
    BY <1>1, IdIsNatural
  <2>4. next_id(i) # 0
    BY <2>3
  <2>5. i \in ReadySlots'
    BY <1>1, <2>2, <2>4 DEF ReadySlots, is_ready, is_empty
  <2>6. \A k \in Slots : k # i => (k \in ReadySlots' <=> k \in ReadySlots)
    BY <2>1 DEF ReadySlots, is_ready, is_empty
  <2>7. ReadySlots \subseteq Slots /\ ReadySlots' \subseteq Slots
    BY DEF ReadySlots
  <2> QED
    BY <1>1, <2>1, <2>2, <2>5, <2>6, <2>7
<1>5. WaitingJobs' = WaitingJobs \cup {j}
  BY <1>4 DEF WaitingJobs
<1>6. /\ j \notin WaitingJobs /\ j \notin done /\ ran[j] = 0 /\ \A u \in Threads : ~On(u, j)
  BY <1>1, PlacesNow DEF OnePlace, Count
<1>7. WaitingOnce'
  BY <1>4, <1>6, PlacesNow DEF WaitingOnce, WaitingJobs
<1>8. RunningOnce'
  BY <1>2, PlacesNow DEF RunningOnce
<1>9. \A u \in Threads : \A l : On(u, l)' <=> On(u, l)
  BY <1>2 DEF On
<1>10. OnePlace'
  <2> SUFFICES ASSUME NEW l \in Jobs
               PROVE  /\ ~(l \in WaitingJobs' /\ l \in done')
                      /\ \A u \in Threads : On(u, l)' => l \notin WaitingJobs' /\ l \notin done'
                      /\ ids'[l] # 0 <=> \/ l \in WaitingJobs' \/ l \in done'
                                         \/ \E u \in Threads : On(u, l)'
                      /\ ran'[l] = Count(ids'[l] # 0 /\ l \notin WaitingJobs')
    BY DEF OnePlace, Count
  <2>1. /\ ~(l \in WaitingJobs /\ l \in done)
        /\ \A u \in Threads : On(u, l) => l \notin WaitingJobs /\ l \notin done
        /\ ids[l] # 0 <=> l \in WaitingJobs \/ l \in done \/ \E u \in Threads : On(u, l)
        /\ ran[l] = Count(ids[l] # 0 /\ l \notin WaitingJobs)
    BY PlacesNow DEF OnePlace
  <2> QED
    BY <1>3, <1>5, <1>6, <1>9, <2>1 DEF Count
<1> QED
  BY <1>7, <1>8, <1>10

\* t gets task j on top of its stack.
LEMMA BeginsRunning ==
  ASSUME PoolInv, NEW t \in Threads, NEW j \in Jobs, NEW i, Begins(t, j, i),
         \A u \in Threads : ~On(u, j)
  PROVE  /\ RunningOnce'
         /\ On(t, j)' /\ \A l : l # j => (On(t, l)' <=> On(t, l))
         /\ \A u \in Threads : u # t => \A l : On(u, l)' <=> On(u, l)
<1> DEFINE n == Len(stack[t])
<1>1. n \in Nat /\ 1..n \subseteq 1..(n + 1) /\ n + 1 \in 1..(n + 1) /\ n + 1 \notin 1..n
  BY StackIs, InvTyped
<1>2. \A k \in 1..(n + 1) : k \in 1..n \/ k = n + 1
  BY <1>1
<1>3. /\ Len(stack'[t]) = n + 1 /\ stack'[t][n + 1].job = j
      /\ \A k \in 1..n : stack'[t][k].job = stack[t][k].job
      /\ \A u \in Threads : u # t => stack'[u] = stack[u]
  BY DEF Begins, Keeps
<1>4. \A u \in Threads : \A k \in 1..Len(stack[u]) : stack[u][k].job # j
  BY DEF On
<1>5. RunningOnce
  BY PlacesNow
<1>6. \A u \in Threads : u # t => \A l : On(u, l)' <=> On(u, l)
  BY <1>3 DEF On
<1>7. ASSUME NEW u \in Threads, NEW v \in Threads,
             NEW k \in 1..Len(stack'[u]), NEW l \in 1..Len(stack'[v]),
             stack'[u][k].job = stack'[v][l].job
      PROVE  u = v /\ k = l
  <2>1. CASE u # t /\ v # t
    BY <1>3, <1>5, <1>7, <2>1 DEF RunningOnce
  <2>2. CASE u = t /\ v # t
    <3>1. stack'[v][l] = stack[v][l] /\ l \in 1..Len(stack[v])
      BY <1>3, <2>2
    <3>2. k \in 1..n \/ k = n + 1
      BY <1>2, <1>3, <2>2
    <3> QED
      BY <1>3, <1>4, <1>5, <1>7, <2>2, <3>1, <3>2 DEF RunningOnce
  <2>3. CASE u # t /\ v = t
    <3>1. stack'[u][k] = stack[u][k] /\ k \in 1..Len(stack[u])
      BY <1>3, <2>3
    <3>2. l \in 1..n \/ l = n + 1
      BY <1>2, <1>3, <2>3
    <3> QED
      BY <1>3, <1>4, <1>5, <1>7, <2>3, <3>1, <3>2 DEF RunningOnce
  <2>4. CASE u = t /\ v = t
    <3>1. (l \in 1..n \/ l = n + 1) /\ (k \in 1..n \/ k = n + 1)
      BY <1>2, <1>3, <2>4
    <3> QED
      BY <1>3, <1>4, <1>5, <1>7, <2>4, <3>1 DEF RunningOnce
  <2> QED
    BY <2>1, <2>2, <2>3, <2>4
<1>8. RunningOnce'
  BY <1>7 DEF RunningOnce
<1> HIDE DEF n
<1>9. On(t, j)'
  BY <1>1, <1>3 DEF On
<1>10. \A l : l # j => (On(t, l)' <=> On(t, l))
  BY <1>1, <1>2, <1>3 DEF On, n
<1> QED
  BY <1>6, <1>8, <1>9, <1>10

LEMMA InlinePlaces ==
  ASSUME PoolInv, NEW t, NEW j, Inline(t, j)
  PROVE  WaitingOnce' /\ RunningOnce' /\ OnePlace'
<1>1. t \in Threads /\ j \in Jobs /\ ids[j] = 0 /\ ids \in [Jobs -> Nat] /\ ran \in [Jobs -> Nat]
  BY TypesAre DEF Inline, MaySubmit, Busy
<1>2. /\ j \notin WaitingJobs /\ j \notin done /\ ran[j] = 0 /\ \A u \in Threads : ~On(u, j)
  BY <1>1, PlacesNow DEF OnePlace, Count
<1>3. /\ RunningOnce'
      /\ On(t, j)' /\ \A l : l # j => (On(t, l)' <=> On(t, l))
      /\ \A u \in Threads : u # t => \A l : On(u, l)' <=> On(u, l)
  BY <1>1, <1>2, BeginsRunning DEF Inline
<1>4. WaitingJobs' = WaitingJobs /\ WaitingOnce'
  BY SameWaiting, PlacesNow DEF Inline, SameSlot
<1>5. /\ done' = done /\ ids'[j] = 1 /\ ran'[j] = 1
      /\ \A l \in Jobs : l # j => ids'[l] = ids[l] /\ ran'[l] = ran[l]
  BY <1>1, <1>2 DEF Inline, Begins
<1>6. OnePlace'
  <2> SUFFICES ASSUME NEW l \in Jobs
               PROVE  /\ ~(l \in WaitingJobs' /\ l \in done')
                      /\ \A u \in Threads : On(u, l)' => l \notin WaitingJobs' /\ l \notin done'
                      /\ ids'[l] # 0 <=> \/ l \in WaitingJobs' \/ l \in done'
                                         \/ \E u \in Threads : On(u, l)'
                      /\ ran'[l] = Count(ids'[l] # 0 /\ l \notin WaitingJobs')
    BY DEF OnePlace, Count
  <2>1. /\ ~(l \in WaitingJobs /\ l \in done)
        /\ \A u \in Threads : On(u, l) => l \notin WaitingJobs /\ l \notin done
        /\ ids[l] # 0 <=> l \in WaitingJobs \/ l \in done \/ \E u \in Threads : On(u, l)
        /\ ran[l] = Count(ids[l] # 0 /\ l \notin WaitingJobs)
    BY PlacesNow DEF OnePlace
  <2>2. CASE l = j
    BY <1>1, <1>2, <1>3, <1>4, <1>5, <2>2 DEF Count
  <2>3. CASE l # j
    <3>1. \A u \in Threads : On(u, l)' <=> On(u, l)
      BY <1>1, <1>3, <2>3
    <3> QED
      BY <1>4, <1>5, <2>1, <2>3, <3>1
  <2> QED
    BY <2>2, <2>3
<1> QED
  BY <1>3, <1>4, <1>6

LEMMA TakesPlaces ==
  ASSUME PoolInv, NEW w, NEW i, Takes(w, i)
  PROVE  WaitingOnce' /\ RunningOnce' /\ OnePlace'
<1>0. tasks[i].bfp \in Jobs
  BY JobsAre DEF Takes, WaitingJobs
<1> PICK j \in Jobs : j = tasks[i].bfp
  BY <1>0
<1>1. /\ w \in Threads /\ i \in ReadySlots /\ i \in Slots /\ j \in WaitingJobs /\ j \in Jobs
      /\ ran \in [Jobs -> Nat] /\ ids' = ids /\ done' = done /\ Begins(w, j, i)
  <2>1. i \in ReadySlots /\ i \in Slots /\ w \in Threads
    BY DEF Takes, ReadySlots, Threads
  <2>2. j \in WaitingJobs
    BY <2>1 DEF WaitingJobs
  <2> QED
    BY <2>1, <2>2, TypesAre, JobsAre DEF Takes, Begins
<1>2. ReadySlots' = ReadySlots \ {i} /\ \A k \in ReadySlots' : tasks'[k].bfp = tasks[k].bfp
  <2>1. tasks'[i].is_being_processed /\ \A k \in Slots : k # i => tasks'[k] = tasks[k]
    BY DEF Takes
  <2> QED
    BY <2>1 DEF ReadySlots, is_ready, is_empty
<1>3. \A k \in ReadySlots : k # i => tasks[k].bfp # j
  BY <1>1, PlacesNow DEF WaitingOnce
<1>4. WaitingJobs' = WaitingJobs \ {j}
  BY <1>1, <1>2, <1>3 DEF WaitingJobs
<1>5. WaitingOnce'
  BY <1>2, PlacesNow DEF WaitingOnce
<1>6. j \notin done /\ ran[j] = 0 /\ ids[j] # 0 /\ \A u \in Threads : ~On(u, j)
  BY <1>1, PlacesNow DEF OnePlace, Count
<1>7. ran'[j] = 1 /\ \A l \in Jobs : l # j => ran'[l] = ran[l]
  BY <1>1, <1>6 DEF Begins
<1>8. /\ RunningOnce'
      /\ On(w, j)' /\ \A l : l # j => (On(w, l)' <=> On(w, l))
      /\ \A u \in Threads : u # w => \A l : On(u, l)' <=> On(u, l)
  BY <1>1, <1>6, BeginsRunning
<1>9. OnePlace'
  <2> SUFFICES ASSUME NEW l \in Jobs
               PROVE  /\ ~(l \in WaitingJobs' /\ l \in done')
                      /\ \A u \in Threads : On(u, l)' => l \notin WaitingJobs' /\ l \notin done'
                      /\ ids'[l] # 0 <=> \/ l \in WaitingJobs' \/ l \in done'
                                         \/ \E u \in Threads : On(u, l)'
                      /\ ran'[l] = Count(ids'[l] # 0 /\ l \notin WaitingJobs')
    BY DEF OnePlace, Count
  <2>1. /\ ~(l \in WaitingJobs /\ l \in done)
        /\ \A u \in Threads : On(u, l) => l \notin WaitingJobs /\ l \notin done
        /\ ids[l] # 0 <=> l \in WaitingJobs \/ l \in done \/ \E u \in Threads : On(u, l)
        /\ ran[l] = Count(ids[l] # 0 /\ l \notin WaitingJobs)
    BY PlacesNow DEF OnePlace
  <2>2. CASE l = j
    BY <1>1, <1>4, <1>6, <1>7, <1>8, <2>2 DEF Count
  <2>3. CASE l # j
    <3>1. \A u \in Threads : On(u, l)' <=> On(u, l)
      BY <1>1, <1>8, <2>3
    <3>2. l \in WaitingJobs' <=> l \in WaitingJobs
      BY <1>4, <2>3
    <3> QED
      BY <1>1, <1>7, <2>1, <2>3, <3>1, <3>2 DEF Count
  <2> QED
    BY <2>2, <2>3
<1> QED
  BY <1>5, <1>8, <1>9

LEMMA FinishesPlaces ==
  ASSUME PoolInv, NEW w, NEW i, Finishes(w, i)
  PROVE  WaitingOnce' /\ RunningOnce' /\ OnePlace'
<1> DEFINE j == stack[w][1].job
<1>1. /\ w \in Threads /\ w \in Workers /\ Len(stack[w]) = 1 /\ i \in Slots
      /\ stack[w] # <<>> /\ stack[w][1].slot = i
  <2>1. w \in Threads /\ w \in Workers /\ Len(stack[w]) = 1 /\ i \in Slots /\ stack[w][1].slot = i
    BY DEF Finishes, Threads
  <2> QED
    BY <2>1, StackIs, InvTyped
<1>2. /\ stack'[w] = <<>> /\ \A u \in Threads : u # w => stack'[u] = stack[u]
      /\ done' = done \cup {j} /\ UNCHANGED <<ids, ran>>
  BY <1>1, TypesAre DEF Finishes
<1>3. ReadySlots' = ReadySlots /\ i \notin ReadySlots
  <2>1. tasks[i].is_being_processed
    BY <1>1, SlotsNow DEF RunsSlot
  <2>2. tasks'[i].task_id = 0 /\ \A k \in Slots : k # i => tasks'[k] = tasks[k]
    BY DEF Finishes
  <2> QED
    BY <2>1, <2>2 DEF ReadySlots, is_ready, is_empty
<1>4. \A k \in ReadySlots : tasks'[k] = tasks[k]
  BY <1>3 DEF Finishes, ReadySlots
<1>5. WaitingJobs' = WaitingJobs /\ WaitingOnce'
  BY <1>3, <1>4, PlacesNow DEF WaitingJobs, WaitingOnce
<1>6. Len(stack'[w]) = 0 /\ 1..0 = {} /\ 1..1 = {1}
  BY <1>2
<1>7. \A l : ~On(w, l)' /\ (On(w, l) <=> l = j)
  BY <1>1, <1>6 DEF On
<1>8. \A u \in Threads : u # w => \A l : On(u, l)' <=> On(u, l)
  BY <1>2 DEF On
<1>9. \A u \in Threads : u # w => ~On(u, j)
  BY <1>1, <1>6, PlacesNow DEF On, RunningOnce
<1>10. RunningOnce'
  BY <1>2, <1>6, PlacesNow DEF RunningOnce
<1> HIDE DEF j
<1>11. OnePlace'
  <2> SUFFICES ASSUME NEW l \in Jobs
               PROVE  /\ ~(l \in WaitingJobs' /\ l \in done')
                      /\ \A u \in Threads : On(u, l)' => l \notin WaitingJobs' /\ l \notin done'
                      /\ ids'[l] # 0 <=> \/ l \in WaitingJobs' \/ l \in done'
                                         \/ \E u \in Threads : On(u, l)'
                      /\ ran'[l] = Count(ids'[l] # 0 /\ l \notin WaitingJobs')
    BY DEF OnePlace, Count
  <2>1. /\ ~(l \in WaitingJobs /\ l \in done)
        /\ \A u \in Threads : On(u, l) => l \notin WaitingJobs /\ l \notin done
        /\ ids[l] # 0 <=> l \in WaitingJobs \/ l \in done \/ \E u \in Threads : On(u, l)
        /\ ran[l] = Count(ids[l] # 0 /\ l \notin WaitingJobs)
    BY PlacesNow DEF OnePlace
  <2>2. CASE l = j
    BY <1>1, <1>2, <1>5, <1>7, <1>8, <1>9, <2>1, <2>2
  <2>3. CASE l # j
    <3>1. \A u \in Threads : On(u, l)' <=> On(u, l)
      BY <1>1, <1>7, <1>8, <2>3
    <3> QED
      BY <1>2, <1>5, <2>1, <2>3, <3>1
  <2> QED
    BY <2>2, <2>3
<1> QED
  BY <1>5, <1>10, <1>11

LEMMA KindsPlaces ==
  ASSUME PoolInv, Kinds
  PROVE  PlacesOK'
<1> USE KindsTypes, KindsSlots, PlacesNext
<1>1. ASSUME NEW t \in Threads, NEW n \in Nat,
             GoesOn(t, n) \/ Throws(t, n) \/ \E i \in Slots : Rethrows(t, n, i)
      PROVE  PlacesOK'
  BY <1>1, CutPlaces DEF GoesOn, Throws, Rethrows
<1>2. CASE \E t : \/ WaitSleeps(t) \/ WorkerWaits(t) \/ Destructs(t) \/ UNCHANGED vars
                  \/ \E j : AddSleepsIn(t, j)
  BY <1>2, QuietKinds, QuietKeeps
<1>3. CASE \E t, j, i : Stores(t, j, i) \/ Inline(t, j) \/ Takes(t, i) \/ Finishes(t, i)
  BY <1>3, StoresPlaces, InlinePlaces, TakesPlaces, FinishesPlaces
<1> QED
  BY <1>1, <1>2, <1>3 DEF Kinds

-----------------------------------------------------------------------------
(* Tasks that submit others *)

LEMMA StoresWaiting ==
  ASSUME NEW t, NEW j, NEW i, Stores(t, j, i)
  PROVE  \A l \in WaitingJobs' : l \in WaitingJobs \/ l = j
<1> SUFFICES ASSUME NEW k \in ReadySlots' PROVE tasks'[k].bfp \in WaitingJobs \/ tasks'[k].bfp = j
  BY DEF WaitingJobs
<1>1. k \in Slots
  BY DEF ReadySlots
<1>2. CASE k # i
  BY <1>1, <1>2 DEF Stores, ReadySlots, is_ready, is_empty, WaitingJobs
<1>3. CASE k = i
  BY <1>3 DEF Stores
<1> QED
  BY <1>2, <1>3

LEMMA TakesWaiting ==
  ASSUME NEW w, NEW i, Takes(w, i)
  PROVE  \A l \in WaitingJobs' : l \in WaitingJobs
<1> SUFFICES ASSUME NEW k \in ReadySlots' PROVE tasks'[k].bfp \in WaitingJobs
  BY DEF WaitingJobs
<1>1. k \in Slots /\ k # i
  BY DEF ReadySlots, is_ready, Takes
<1> QED
  BY <1>1 DEF Takes, ReadySlots, is_ready, is_empty, WaitingJobs

LEMMA FinishesWaiting ==
  ASSUME NEW w, NEW i, Finishes(w, i)
  PROVE  \A l \in WaitingJobs' : l \in WaitingJobs
<1> SUFFICES ASSUME NEW k \in ReadySlots' PROVE tasks'[k].bfp \in WaitingJobs
  BY DEF WaitingJobs
<1>1. k \in Slots /\ k # i
  BY DEF ReadySlots, is_ready, is_empty, Finishes
<1> QED
  BY <1>1 DEF Finishes, ReadySlots, is_ready, is_empty, WaitingJobs

\* Only the innermost task of t has j as its child.
LEMMA ParentIs ==
  ASSUME PoolInv, NEW t, NEW j, MaySubmit(t, j), NEW l \in Jobs, Child[l] = j
  PROVE  /\ stack[t] # <<>> /\ Len(stack[t]) \in 1..Len(stack[t])
         /\ l = stack[t][Len(stack[t])].job
         /\ l # j /\ ids[l] # 0 /\ l \notin WaitingJobs
<1>1. j \in Jobs /\ j # NoJob /\ j \notin Roots /\ t \in Threads /\ ids[j] = 0
  BY PoolAssumption DEF MaySubmit, Busy
<1>2. stack[t] # <<>> /\ Child[Top(t).job] = j
  BY <1>1 DEF MaySubmit
<1>3. Len(stack[t]) \in 1..Len(stack[t]) /\ Top(t).job \in Jobs
  BY <1>1, <1>2, StackIs, InvTyped DEF Top
<1>4. l = Top(t).job
  BY <1>1, <1>2, <1>3, PoolAssumption
<1>5. On(t, l)
  BY <1>3, <1>4 DEF On, Top
<1>6. ids[l] # 0 /\ l \notin WaitingJobs
  BY <1>1, <1>5, PlacesNow DEF OnePlace
<1> QED
  BY <1>1, <1>2, <1>3, <1>4, <1>6 DEF Top

LEMMA ChildIs == \A l \in Jobs : Child[l] # NoJob => Child[l] \in Jobs
BY PoolAssumption

LEMMA CutChildren ==
  ASSUME PoolInv, NEW t, NEW n, Cut(t, n)
  PROVE  ChildrenOK'
<1>1. ChildrenOK /\ t \in Threads /\ n \in Nat /\ n <= Len(stack[t]) /\ Len(stack[t]) \in Nat
  BY StackIs, InvTyped DEF PoolInv, Cut, Busy, Keeps
<1>2. WaitingJobs' = WaitingJobs /\ ids' = ids
  BY SameWaiting DEF Cut
<1>3. \A k \in 1..n : k \in 1..Len(stack[t])
  BY <1>1
<1>4. /\ \A k \in 1..n : /\ stack'[t][k].job = stack[t][k].job
                         /\ stack'[t][k].at = "begin" => stack[t][k].at = "begin"
      /\ Len(stack'[t]) = n /\ \A u \in Threads : u # t => stack'[u] = stack[u]
  BY DEF Cut, Keeps
<1>5. \A u \in Threads : \A k \in 1..Len(stack'[u]) :
        stack'[u][k].at = "begin" /\ Child[stack'[u][k].job] # NoJob =>
          ids'[Child[stack'[u][k].job]] = 0
  BY <1>1, <1>2, <1>3, <1>4 DEF ChildrenOK
<1> QED
  BY <1>1, <1>2, <1>5 DEF ChildrenOK

\* What is true of the tasks that were there when t submits j.
LEMMA SubmitChildren ==
  ASSUME PoolInv, NEW t, NEW j, MaySubmit(t, j), NEW id, ids' = [ids EXCEPT ![j] = id],
         Keeps(t, Len(stack[t])),
         \A k \in 1..Len(stack[t]) : k = Len(stack[t]) => stack'[t][k].at = "submitted"
  PROVE  /\ \A l \in Jobs : Child[l] # NoJob /\ (ids'[l] = 0 \/ l \in WaitingJobs \/ l = j) =>
                              ids'[Child[l]] = 0
         /\ \A u \in Threads : \A k \in 1..Len(stack[u]) :
              stack'[u][k].at = "begin" /\ Child[stack'[u][k].job] # NoJob =>
                ids'[Child[stack'[u][k].job]] = 0
<1>1. ChildrenOK /\ t \in Threads /\ j \in Jobs /\ ids[j] = 0 /\ ids \in [Jobs -> Nat]
  BY TypesAre DEF PoolInv, MaySubmit, Busy
<1>2. \A l \in Jobs : l # j => ids'[l] = ids[l]
  BY <1>1
<1>3. ASSUME NEW l \in Jobs, Child[l] # NoJob, ids'[l] = 0 \/ l \in WaitingJobs \/ l = j
      PROVE  ids'[Child[l]] = 0
  <2>1. ids[l] = 0 \/ l \in WaitingJobs
    BY <1>1, <1>2, <1>3
  <2>2. ids[Child[l]] = 0 /\ Child[l] \in Jobs
    BY <1>1, <1>3, <2>1, ChildIs DEF ChildrenOK
  <2>3. Child[l] # j
    BY <2>1, ParentIs
  <2> QED
    BY <1>2, <2>2, <2>3
<1>4. ASSUME NEW u \in Threads, NEW k \in 1..Len(stack[u]),
             stack'[u][k].at = "begin", Child[stack'[u][k].job] # NoJob
      PROVE  ids'[Child[stack'[u][k].job]] = 0
  <2> DEFINE l == stack[u][k].job
  <2>1. stack'[u][k].job = l /\ stack[u][k].at = "begin" /\ ~(u = t /\ k = Len(stack[t]))
    <3>1. CASE u # t
      BY <1>1, <1>4, <3>1 DEF Keeps
    <3>2. CASE u = t
      BY <1>1, <1>4, <3>2 DEF Keeps
    <3> QED
      BY <3>1, <3>2
  <2>2. l \in Jobs
    BY JobsAre
  <2>3. ids[Child[l]] = 0 /\ Child[l] \in Jobs
    BY <1>1, <1>4, <2>1, <2>2, ChildIs DEF ChildrenOK
  <2>4. Child[l] # j
    <3> SUFFICES ASSUME Child[l] = j PROVE FALSE
      OBVIOUS
    <3>1. l = stack[t][Len(stack[t])].job /\ Len(stack[t]) \in 1..Len(stack[t])
      BY <2>2, ParentIs
    <3> QED
      BY <1>1, <2>1, <3>1, PlacesNow DEF RunningOnce
  <2> QED
    BY <1>2, <2>1, <2>3, <2>4
<1> QED
  BY <1>3, <1>4

LEMMA StoresChildren ==
  ASSUME PoolInv, NEW t, NEW j, NEW i, Stores(t, j, i)
  PROVE  ChildrenOK'
<1> DEFINE id == next_id(i)
<1>1. /\ MaySubmit(t, j) /\ ids' = [ids EXCEPT ![j] = id] /\ Keeps(t, Len(stack[t]))
      /\ \A k \in 1..Len(stack[t]) : k = Len(stack[t]) => stack'[t][k].at = "submitted"
  BY DEF Stores
<1> HIDE DEF id
<1>2. /\ \A l \in Jobs : Child[l] # NoJob /\ (ids'[l] = 0 \/ l \in WaitingJobs \/ l = j) =>
                              ids'[Child[l]] = 0
      /\ \A u \in Threads : \A k \in 1..Len(stack[u]) :
           stack'[u][k].at = "begin" /\ Child[stack'[u][k].job] # NoJob =>
             ids'[Child[stack'[u][k].job]] = 0
  BY <1>1, SubmitChildren
<1>3. \A l \in WaitingJobs' : l \in WaitingJobs \/ l = j
  BY StoresWaiting
<1>4. \A u \in Threads : Len(stack'[u]) = Len(stack[u])
  BY DEF Stores, Keeps
<1> QED
  BY <1>2, <1>3, <1>4 DEF ChildrenOK

LEMMA InlineChildren ==
  ASSUME PoolInv, NEW t, NEW j, Inline(t, j)
  PROVE  ChildrenOK'
<1> DEFINE n == Len(stack[t])
<1>1. /\ MaySubmit(t, j) /\ ids' = [ids EXCEPT ![j] = 1] /\ Keeps(t, n)
      /\ \A k \in 1..n : k = n => stack'[t][k].at = "submitted"
  BY DEF Inline, Begins
<1>2. /\ \A l \in Jobs : Child[l] # NoJob /\ (ids'[l] = 0 \/ l \in WaitingJobs \/ l = j) =>
                              ids'[Child[l]] = 0
      /\ \A u \in Threads : \A k \in 1..Len(stack[u]) :
           stack'[u][k].at = "begin" /\ Child[stack'[u][k].job] # NoJob =>
             ids'[Child[stack'[u][k].job]] = 0
  BY <1>1, SubmitChildren
<1>3. WaitingJobs' = WaitingJobs
  BY SameWaiting DEF Inline, SameSlot
<1>4. t \in Threads /\ n \in Nat /\ j \in Jobs
  BY StackIs, InvTyped DEF Inline, MaySubmit, Busy
<1>5. \A k \in 1..(n + 1) : k \in 1..n \/ k = n + 1
  BY <1>4
<1>6. Len(stack'[t]) = n + 1 /\ stack'[t][n + 1].job = j
  BY DEF Inline, Begins
<1>7. \A u \in Threads : u # t => stack'[u] = stack[u]
  BY DEF Inline, Begins, Keeps
<1>8. \A u \in Threads : \A k \in 1..Len(stack'[u]) :
        stack'[u][k].at = "begin" /\ Child[stack'[u][k].job] # NoJob =>
          ids'[Child[stack'[u][k].job]] = 0
  <2> SUFFICES ASSUME NEW u \in Threads, NEW k \in 1..Len(stack'[u]),
                      stack'[u][k].at = "begin", Child[stack'[u][k].job] # NoJob
               PROVE  ids'[Child[stack'[u][k].job]] = 0
    OBVIOUS
  <2>1. CASE u # t
    BY <1>2, <1>7, <2>1
  <2>2. CASE u = t /\ k \in 1..n
    BY <1>2, <1>4, <2>2
  <2>3. CASE u = t /\ k = n + 1
    BY <1>2, <1>4, <1>6, <2>3
  <2> QED
    BY <1>5, <1>6, <2>1, <2>2, <2>3
<1> QED
  BY <1>2, <1>3, <1>8 DEF ChildrenOK

LEMMA TakesChildren ==
  ASSUME PoolInv, NEW w, NEW i, Takes(w, i)
  PROVE  ChildrenOK'
<1>1. ChildrenOK /\ w \in Threads /\ Len(stack[w]) = 0 /\ ids' = ids
  <2>1. w \in Threads /\ stack[w] = <<>>
    BY DEF Takes, Threads
  <2> QED
    BY <2>1, StackIs DEF PoolInv, Takes
<1>2. tasks[i].bfp \in WaitingJobs /\ tasks[i].bfp \in Jobs
  BY JobsAre DEF Takes, WaitingJobs
<1>3. \A l \in WaitingJobs' : l \in WaitingJobs
  BY TakesWaiting
<1>4. /\ Len(stack'[w]) = 1 /\ stack'[w][1].job = tasks[i].bfp
      /\ \A u \in Threads : u # w => stack'[u] = stack[u]
  <2>1. 0 + 1 = 1
    OBVIOUS
  <2> QED
    BY <1>1, <2>1 DEF Takes, Begins, Keeps
<1>5. \A k \in 1..1 : k = 1
  OBVIOUS
<1>6. \A u \in Threads : \A k \in 1..Len(stack'[u]) :
        stack'[u][k].at = "begin" /\ Child[stack'[u][k].job] # NoJob =>
          ids'[Child[stack'[u][k].job]] = 0
  BY <1>1, <1>2, <1>4, <1>5 DEF ChildrenOK
<1> QED
  BY <1>1, <1>3, <1>6 DEF ChildrenOK

LEMMA FinishesChildren ==
  ASSUME PoolInv, NEW w, NEW i, Finishes(w, i)
  PROVE  ChildrenOK'
<1>1. ChildrenOK /\ w \in Threads /\ ids' = ids
  BY DEF PoolInv, Finishes, Threads
<1>2. stack'[w] = <<>> /\ \A u \in Threads : u # w => stack'[u] = stack[u]
  BY <1>1, TypesAre DEF Finishes
<1>3. Len(stack'[w]) = 0 /\ 1..0 = {}
  BY <1>2
<1> QED
  BY <1>1, <1>2, <1>3, FinishesWaiting DEF ChildrenOK

LEMMA KindsChildren ==
  ASSUME PoolInv, Kinds
  PROVE  ChildrenOK'
<1>1. ASSUME NEW t \in Threads, NEW n \in Nat,
             GoesOn(t, n) \/ Throws(t, n) \/ \E i \in Slots : Rethrows(t, n, i)
      PROVE  ChildrenOK'
  BY <1>1, CutChildren DEF GoesOn, Throws, Rethrows
<1>2. CASE \E t : \/ WaitSleeps(t) \/ WorkerWaits(t) \/ Destructs(t) \/ UNCHANGED vars
                  \/ \E j : AddSleepsIn(t, j)
  BY <1>2, QuietKinds, QuietKeeps
<1>3. CASE \E t, j, i : Stores(t, j, i) \/ Inline(t, j) \/ Takes(t, i) \/ Finishes(t, i)
  BY <1>3, StoresChildren, InlineChildren, TakesChildren, FinishesChildren
<1> QED
  BY <1>1, <1>2, <1>3 DEF Kinds

-----------------------------------------------------------------------------
(* The ids *)

LEMMA SameIds ==
  ASSUME PoolInv, \A l \in Jobs : ids'[l] > 1 => ids'[l] = ids[l],
         \A i \in Slots : /\ tasks'[i].next_task_id = tasks[i].next_task_id
                          /\ tasks'[i].task_id \in {0, tasks[i].task_id}
  PROVE  IdsOK'
<1>1. IdsOK
  BY DEF PoolInv
<1>2. \A j \in Jobs : ids'[j] > 1 =>
        \E i \in Slots : \E n \in 2..(tasks'[i].next_task_id - 1) : ids'[j] = n * N + i
  BY <1>1 DEF IdsOK
<1>3. \A i \in Slots : ~is_empty(i)' => /\ tasks'[i].task_id > 1
                                        /\ task_id_to_index(tasks'[i].task_id) = i
  BY <1>1 DEF IdsOK, is_empty
<1>4. \A j, k \in Jobs : ids'[j] = ids'[k] /\ ids'[j] > 1 => j = k
  BY <1>1 DEF IdsOK
<1> QED
  BY <1>2, <1>3, <1>4 DEF IdsOK, task_id_to_index

LEMMA StoresIds ==
  ASSUME PoolInv, NEW t, NEW j, NEW i, Stores(t, j, i)
  PROVE  IdsOK'
<1> DEFINE id == next_id(i)
           m == tasks[i].next_task_id
<1>1. /\ i \in Slots /\ j \in Jobs /\ IdsOK /\ ids \in [Jobs -> Nat]
      /\ \A k \in Slots : k # i => tasks'[k] = tasks[k]
      /\ tasks'[i].task_id = id /\ tasks'[i].next_task_id = m + 1
      /\ ids' = [ids EXCEPT ![j] = id]
  BY TypesAre DEF Stores, MaySubmit, PoolInv
<1>2. /\ id \in Nat /\ id > 1 /\ m \in Nat \ {0, 1} /\ N \in Nat \ {0} /\ i \in 0..(N - 1)
      /\ task_id_to_index(id) = i /\ id = m * N + i
  BY <1>1, IdIsNatural DEF next_id
<1> HIDE DEF id, m
<1>3. ids'[j] = id /\ \A l \in Jobs : l # j => ids'[l] = ids[l]
  BY <1>1
<1>4. ASSUME NEW l \in Jobs, ids'[l] > 1
      PROVE  \E k \in Slots : \E n \in 2..(tasks'[k].next_task_id - 1) : ids'[l] = n * N + k
  <2>1. CASE l = j
    <3>1. m \in 2..(tasks'[i].next_task_id - 1)
      BY <1>1, <1>2
    <3> QED
      BY <1>1, <1>2, <1>3, <2>1, <3>1
  <2>2. CASE l # j
    <3>0. PICK k \in Slots : \E n \in 2..(tasks[k].next_task_id - 1) : ids[l] = n * N + k
      BY <1>1, <1>3, <1>4, <2>2 DEF IdsOK
    <3>1. PICK n \in 2..(tasks[k].next_task_id - 1) : ids[l] = n * N + k
      BY <3>0
    <3>2. n \in 2..(tasks'[k].next_task_id - 1)
      <4>1. CASE k = i
        BY <1>1, <1>2, <4>1 DEF m
      <4>2. CASE k # i
        BY <1>1, <4>2
      <4> QED
        BY <4>1, <4>2
    <3> QED
      BY <1>3, <2>2, <3>1, <3>2
  <2> QED
    BY <2>1, <2>2
<1>5. \A k \in Slots : ~is_empty(k)' => /\ tasks'[k].task_id > 1
                                        /\ task_id_to_index(tasks'[k].task_id) = k
  <2>1. \A k \in Slots : k # i => /\ is_empty(k)' <=> is_empty(k)
                                  /\ tasks'[k].task_id = tasks[k].task_id
    BY <1>1 DEF is_empty
  <2> QED
    BY <1>1, <1>2, <2>1 DEF IdsOK
<1>6. ASSUME NEW l \in Jobs, l # j, ids[l] > 1 PROVE ids[l] # id
  <2> SUFFICES ASSUME ids[l] = id PROVE FALSE
    OBVIOUS
  <2>0. PICK k \in Slots : \E n \in 2..(tasks[k].next_task_id - 1) : ids[l] = n * N + k
    BY <1>1, <1>6 DEF IdsOK
  <2>1. PICK n \in 2..(tasks[k].next_task_id - 1) : ids[l] = n * N + k
    BY <2>0
  <2> DEFINE size == N
  <2>2. size \in Nat \ {0} /\ i \in 0..(size - 1) /\ k \in 0..(size - 1)
    BY <1>2 DEF Slots
  <2> HIDE DEF size
  <2>3. n \in Int /\ m \in Int /\ n * size + k = m * size + i
    BY <1>2, <2>1 DEF size
  <2>4. n = m /\ k = i
    BY <2>2, <2>3, BlockIsUnique
  <2>5. n \in 2..(m - 1)
    BY <2>1, <2>4 DEF m
  <2> QED
    BY <1>2, <2>4, <2>5
<1>7. \A l, k \in Jobs : ids'[l] = ids'[k] /\ ids'[l] > 1 => l = k
  BY <1>1, <1>2, <1>3, <1>6 DEF IdsOK
<1> QED
  BY <1>4, <1>5, <1>7 DEF IdsOK, task_id_to_index

LEMMA KindsIds ==
  ASSUME PoolInv, Kinds
  PROVE  IdsOK'
<1>1. ASSUME NEW t \in Threads, NEW n \in Nat,
             GoesOn(t, n) \/ Throws(t, n) \/ \E i \in Slots : Rethrows(t, n, i)
      PROVE  IdsOK'
  BY <1>1, SameIds DEF GoesOn, Throws, Rethrows, Cut, SameSlot
<1>2. CASE \E t : \/ WaitSleeps(t) \/ WorkerWaits(t) \/ Destructs(t) \/ UNCHANGED vars
                  \/ \E j : AddSleepsIn(t, j)
  BY <1>2, QuietKinds, QuietKeeps
<1>3. ASSUME NEW t, NEW j, Inline(t, j) PROVE IdsOK'
  BY <1>3, SameIds, TypesAre DEF Inline
<1>4. ASSUME NEW w, NEW i, Takes(w, i) PROVE IdsOK'
  BY <1>4, SameIds DEF Takes
<1>5. ASSUME NEW w, NEW i, Finishes(w, i) PROVE IdsOK'
  <2>1. ids' = ids
    BY <1>5 DEF Finishes
  <2>2. \A k \in Slots : /\ tasks'[k].next_task_id = tasks[k].next_task_id
                         /\ tasks'[k].task_id \in {0, tasks[k].task_id}
    BY <1>5 DEF Finishes
  <2> QED
    BY <2>1, <2>2, SameIds
<1> QED
  BY <1>1, <1>2, <1>3, <1>4, <1>5, StoresIds DEF Kinds

-----------------------------------------------------------------------------
(* The calls and the destructor *)

CallOK(t) ==
  /\ call[t].op = "add_task" =>
       /\ t \in Clients /\ N # 0 /\ stack[t] = <<>>
       /\ call[t].arg \in Roots /\ ids[call[t].arg] = 0
  /\ t \in Workers => call[t].op \in {"none", "wait_for_all_tasks"}
  /\ t \in Workers /\ call[t].op # "none" => stack[t] # <<>> /\ stack[t][1].at # "end"
  /\ call[t].op = "wait_for_task" => call[t].arg \in Jobs

NobodyJoinsAsleep == \A t \in task_done_signaler : call[t].op # "join"
OneSubmitter ==
  \A c, d \in Clients :
    call[c].op = "add_task" /\ call[d].op = "add_task" /\ call[c].arg = call[d].arg => c = d
OneDestructor ==
  \A c, d \in Clients :
    call[c].op \in {"shutdown", "join"} /\ call[d].op \in {"shutdown", "join"} => c = d

LEMMA CallsAre ==
  CallsOK <=> (\A t \in Threads : CallOK(t)) /\ NobodyJoinsAsleep /\ OneSubmitter /\ OneDestructor
BY DEF CallsOK, CallOK, NobodyJoinsAsleep, OneSubmitter, OneDestructor

LEMMA CallsThen ==
  ASSUME \A t \in Threads : CallOK(t)', NobodyJoinsAsleep', OneSubmitter', OneDestructor'
  PROVE  CallsOK'
BY DEF CallsOK, CallOK, NobodyJoinsAsleep, OneSubmitter, OneDestructor

\* All threads but t stay in their calls; t is in none.
LEMMA OneCallEnds ==
  ASSUME PoolInv, NEW t \in Threads, call'[t].op = "none",
         \A u \in Threads : u # t => call'[u] = call[u] /\ stack'[u] = stack[u],
         task_done_signaler' \subseteq task_done_signaler,
         \A u \in Clients : u # t /\ call[u].op = "add_task" =>
           ids'[call[u].arg] = ids[call[u].arg]
  PROVE  CallsOK'
<1>1. (\A u \in Threads : CallOK(u)) /\ NobodyJoinsAsleep /\ OneSubmitter /\ OneDestructor
  BY CallsAre DEF PoolInv
<1>2. CallOK(t)'
  BY DEF CallOK
<1>3. ASSUME NEW u \in Threads, u # t PROVE CallOK(u)'
  BY <1>1, <1>3 DEF CallOK
<1>4. NobodyJoinsAsleep'
  BY <1>1, TypesAre DEF NobodyJoinsAsleep, Sleepers
<1>5. OneSubmitter' /\ OneDestructor'
  BY <1>1 DEF OneSubmitter, OneDestructor, Threads
<1> QED
  BY <1>2, <1>3, <1>4, <1>5, CallsThen

LEMMA CutCalls ==
  ASSUME PoolInv, NEW t, NEW n, Cut(t, n)
  PROVE  CallsOK'
<1>1. t \in Threads
  BY DEF Cut, Busy
<1> QED
  BY <1>1, OneCallEnds DEF Cut, CallEnds, Keeps

LEMMA StoresCalls ==
  ASSUME PoolInv, NEW t, NEW j, NEW i, Stores(t, j, i)
  PROVE  CallsOK'
<1>1. t \in Threads /\ \A u \in Clients : u # t /\ call[u].op = "add_task" => call[u].arg # j
  BY DEF Stores, MaySubmit, Busy
<1>2. \A u \in Clients : u # t /\ call[u].op = "add_task" => ids'[call[u].arg] = ids[call[u].arg]
  <2>1. ids' = [ids EXCEPT ![j] = next_id(i)]
    BY DEF Stores
  <2>2. \A u \in Clients : call[u].op = "add_task" => call[u].arg \in Jobs
    BY PoolAssumption DEF PoolInv, CallsOK, Threads
  <2> QED
    BY <1>1, <2>1, <2>2, TypesAre
<1> QED
  BY <1>1, <1>2, OneCallEnds DEF Stores, CallEnds, Keeps

LEMMA InlineCalls ==
  ASSUME PoolInv, NEW t, NEW j, Inline(t, j)
  PROVE  CallsOK'
<1>1. t \in Threads /\ \A u \in Clients : u # t /\ call[u].op = "add_task" => call[u].arg # j
  BY DEF Inline, MaySubmit, Busy
<1>2. \A u \in Clients : u # t /\ call[u].op = "add_task" => ids'[call[u].arg] = ids[call[u].arg]
  <2>1. ids' = [ids EXCEPT ![j] = 1]
    BY DEF Inline
  <2>2. \A u \in Clients : call[u].op = "add_task" => call[u].arg \in Jobs
    BY PoolAssumption DEF PoolInv, CallsOK, Threads
  <2> QED
    BY <1>1, <2>1, <2>2, TypesAre
<1> QED
  BY <1>1, <1>2, OneCallEnds DEF Inline, Begins, Keeps

LEMMA TakesCalls ==
  ASSUME PoolInv, NEW w, NEW i, Takes(w, i)
  PROVE  CallsOK'
<1>1. w \in Threads /\ call[w].op = "none"
  BY DEF Takes, PoolInv, CallsOK, Threads
<1> QED
  BY <1>1, OneCallEnds DEF Takes, Begins, Keeps

LEMMA FinishesCalls ==
  ASSUME PoolInv, NEW w, NEW i, Finishes(w, i)
  PROVE  CallsOK'
<1>1. w \in Threads /\ call'[w].op = "none" /\ call' = call /\ ids' = ids
  BY DEF Finishes, Threads
<1>2. \A u \in Threads : u # w => stack'[u] = stack[u]
  BY <1>1, TypesAre DEF Finishes
<1>3. task_done_signaler' \subseteq task_done_signaler
  BY DEF Finishes
<1> QED
  BY <1>1, <1>2, <1>3, OneCallEnds

LEMMA WorkerWaitsCalls ==
  ASSUME PoolInv, UNCHANGED <<call, stack, ids, task_done_signaler>>
  PROVE  CallsOK'
BY DEF PoolInv, CallsOK

LEMMA WaitSleepsCalls ==
  ASSUME PoolInv, NEW t, WaitSleeps(t)
  PROVE  CallsOK'
<1>1. (\A u \in Threads : CallOK(u)) /\ NobodyJoinsAsleep /\ OneSubmitter /\ OneDestructor
  BY CallsAre DEF PoolInv
<1>2. /\ t \in Threads /\ (t \in Workers => stack[t] # <<>> /\ stack[t][1].at # "end")
      /\ UNCHANGED <<stack, ids>> /\ task_done_signaler' = task_done_signaler \cup {t}
      /\ t \in Workers => t \notin Clients
  BY PoolAssumption DEF WaitSleeps
<1>3. PICK op \in {"wait_for_task", "wait_for_all_tasks"}, arg \in Jobs \cup {NoJob} :
        /\ call' = [call EXCEPT ![t] = [op |-> op, arg |-> arg]]
        /\ op = "wait_for_task" => t \in Clients /\ arg \in Jobs
  BY DEF WaitSleeps
<1>4. /\ call'[t].op = op /\ call'[t].arg = arg
      /\ \A u \in Threads : u # t => call'[u] = call[u]
  BY <1>2, <1>3, TypesAre
<1>5. CallOK(t)'
  BY <1>2, <1>3, <1>4 DEF CallOK
<1>6. ASSUME NEW u \in Threads, u # t PROVE CallOK(u)'
  BY <1>1, <1>2, <1>4, <1>6 DEF CallOK
<1>7. NobodyJoinsAsleep'
  BY <1>1, <1>2, <1>3, <1>4, TypesAre DEF NobodyJoinsAsleep, Sleepers
<1>8. OneSubmitter' /\ OneDestructor'
  BY <1>1, <1>3, <1>4 DEF OneSubmitter, OneDestructor, Threads
<1> QED
  BY <1>5, <1>6, <1>7, <1>8, CallsThen

LEMMA AddSleepsCalls ==
  ASSUME PoolInv, NEW t, NEW j, AddSleepsIn(t, j)
  PROVE  CallsOK'
<1>1. (\A u \in Threads : CallOK(u)) /\ NobodyJoinsAsleep /\ OneSubmitter /\ OneDestructor
  BY CallsAre DEF PoolInv
<1>2. /\ t \in Threads /\ t \in Clients /\ t \notin Workers /\ j \in Roots /\ ids[j] = 0
      /\ N # 0 /\ stack[t] = <<>>
      /\ UNCHANGED <<stack, ids>> /\ task_done_signaler' = task_done_signaler \cup {t}
      /\ \A d \in Clients : call[d].op = "add_task" /\ call[d].arg = j => d = t
  BY PoolAssumption DEF AddSleepsIn, MaySubmit, Threads
<1>3. /\ call'[t].op = "add_task" /\ call'[t].arg = j
      /\ \A u \in Threads : u # t => call'[u] = call[u]
  BY <1>2, TypesAre DEF AddSleepsIn
<1>4. CallOK(t)'
  BY <1>2, <1>3 DEF CallOK
<1>5. ASSUME NEW u \in Threads, u # t PROVE CallOK(u)'
  BY <1>1, <1>2, <1>3, <1>5 DEF CallOK
<1>6. NobodyJoinsAsleep'
  BY <1>1, <1>2, <1>3, TypesAre DEF NobodyJoinsAsleep, Sleepers
<1>7. OneSubmitter' /\ OneDestructor'
  BY <1>1, <1>2, <1>3 DEF OneSubmitter, OneDestructor, Threads
<1> QED
  BY <1>4, <1>5, <1>6, <1>7, CallsThen

LEMMA DestructsCalls ==
  ASSUME PoolInv, NEW c, Destructs(c)
  PROVE  CallsOK'
<1>1. (\A u \in Threads : CallOK(u)) /\ NobodyJoinsAsleep /\ OneSubmitter /\ OneDestructor
  BY CallsAre DEF PoolInv
<1>2. /\ c \in Threads /\ c \in Clients /\ c \notin Workers
      /\ UNCHANGED <<stack, ids>> /\ \A d \in Clients : d # c => call[d].op = "none"
  BY PoolAssumption DEF Destructs, Threads
<1>3. /\ call'[c].op \in {"none", "shutdown", "join"}
      /\ \A u \in Threads : u # c => call'[u] = call[u]
      /\ \/ call'[c].op # "join" /\ task_done_signaler' \subseteq task_done_signaler \cup {c}
         \/ c \notin task_done_signaler /\ task_done_signaler' = task_done_signaler
  BY <1>2, TypesAre DEF Destructs, NoCall
<1>4. CallOK(c)'
  BY <1>2, <1>3 DEF CallOK
<1>5. ASSUME NEW u \in Threads, u # c PROVE CallOK(u)'
  BY <1>1, <1>2, <1>3, <1>5 DEF CallOK
<1>6. NobodyJoinsAsleep'
  BY <1>1, <1>2, <1>3, TypesAre DEF NobodyJoinsAsleep, Sleepers
<1>7. OneSubmitter' /\ OneDestructor'
  BY <1>2, <1>3 DEF OneSubmitter, OneDestructor, Threads
<1> QED
  BY <1>4, <1>5, <1>6, <1>7, CallsThen

LEMMA KindsCalls ==
  ASSUME PoolInv, Kinds
  PROVE  CallsOK'
<1>1. ASSUME NEW t \in Threads, NEW n \in Nat,
             GoesOn(t, n) \/ Throws(t, n) \/ \E i \in Slots : Rethrows(t, n, i)
      PROVE  CallsOK'
  BY <1>1, CutCalls DEF GoesOn, Throws, Rethrows
<1>2. ASSUME NEW w, WorkerWaits(w) \/ UNCHANGED vars PROVE CallsOK'
  BY <1>2, WorkerWaitsCalls DEF WorkerWaits, vars, pool, threads
<1> QED
  BY <1>1, <1>2, StoresCalls, InlineCalls, TakesCalls, FinishesCalls, WaitSleepsCalls,
     AddSleepsCalls, DestructsCalls DEF Kinds

LEMMA TasksRunBefore ==
  ASSUME PoolInv, NEW t \in Threads, stack[t] # <<>>
  PROVE  ~we_are_destructing
BY DEF PoolInv, LifeOK

LEMMA BusyBefore ==
  ASSUME PoolInv, NEW t, Busy(t)
  PROVE  ~we_are_destructing /\ t \in Threads /\ (t \in Clients => life = "alive")
<1>1. LifeOK
  BY DEF PoolInv
<1>2. CASE t \in Workers
  BY <1>2, TasksRunBefore DEF Busy
<1>3. CASE t \in Clients
  BY <1>1, <1>3 DEF LifeOK, Busy
<1> QED
  BY <1>2, <1>3 DEF Busy, Threads

\* A step of thread t while the pool is not destructing.
LEMMA LifeStays ==
  ASSUME PoolInv, NEW t \in Threads, UNCHANGED <<life, we_are_destructing>>, ~we_are_destructing,
         t \in Clients => life = "alive" /\ call'[t].op \notin {"shutdown", "join"},
         \A u \in Threads : u # t => call'[u] = call[u] /\ stack'[u] = stack[u]
  PROVE  LifeOK'
<1>1. LifeOK
  BY DEF PoolInv
<1>2. life \notin {"joining", "destroyed", "terminated"}
  BY <1>1 DEF LifeOK
<1>3. ASSUME NEW c \in Clients
      PROVE  /\ life' # "alive" => stack'[c] = <<>> /\ call'[c].op \in {"none", "shutdown", "join"}
             /\ call'[c].op = "shutdown" => life' = "closing"
             /\ call'[c].op = "join" => life' = "joining"
  BY <1>1, <1>3 DEF LifeOK, Threads
<1> QED
  BY <1>1, <1>2, <1>3 DEF LifeOK

LEMMA DestructsLife ==
  ASSUME PoolInv, NEW c, Destructs(c)
  PROVE  LifeOK'
<1>1. /\ LifeOK /\ c \in Clients /\ c \in Threads /\ UNCHANGED <<tasks, stack>>
      /\ \A d \in Clients : stack[d] = <<>> /\ (d # c => call[d].op = "none")
      /\ call \in [Threads -> CallType]
  BY TypesAre DEF PoolInv, Destructs, Threads
<1>2. \A d \in Threads : d # c => call'[d] = call[d]
  BY <1>1 DEF Destructs
<1>3. AllTasksEnded' = AllTasksEnded /\ ThrownSlots' = ThrownSlots
  BY <1>1 DEF AllTasksEnded, EmptySlots, is_empty, ThrownSlots
<1>4. \A d \in Clients : d # c => stack'[d] = <<>> /\ call'[d].op = "none"
  BY <1>1, <1>2 DEF Threads
<1>5. CASE life \in {"alive", "closing"} /\ ~AllTasksEnded
  <2>1. life' = "closing" /\ call'[c].op = "shutdown" /\ we_are_destructing' = we_are_destructing
    BY <1>1, <1>5 DEF Destructs
  <2>2. ~we_are_destructing
    BY <1>1, <1>5 DEF LifeOK
  <2> QED
    BY <1>1, <1>4, <2>1, <2>2 DEF LifeOK
<1>6. CASE life \in {"alive", "closing"} /\ AllTasksEnded
  <2>1. life' = "joining" /\ call'[c].op = "join" /\ we_are_destructing' = TRUE
    BY <1>1, <1>6 DEF Destructs
  <2>2. ASSUME NEW w \in Workers PROVE stack[w] = <<>>
    <3> SUFFICES ASSUME stack[w] # <<>> PROVE FALSE
      OBVIOUS
    <3> DEFINE i == stack[w][1].slot
    <3>1. i \in Slots /\ tasks[i].is_being_processed
      BY SlotsNow DEF RunsSlot
    <3>2. ~is_empty(i)
      BY <3>1, SlotsNow DEF SlotOK
    <3> QED
      BY <1>6, <3>1, <3>2 DEF AllTasksEnded, EmptySlots
  <2>3. \A t \in Threads : stack'[t] = <<>>
    BY <1>1, <2>2 DEF Threads
  <2> QED
    BY <1>1, <1>3, <1>4, <1>6, <2>1, <2>3 DEF LifeOK
<1>7. CASE life = "joining"
  <2>1. /\ life' \in {"destroyed", "terminated"} /\ (life' = "destroyed" => ThrownSlots = {})
        /\ call'[c].op = "none" /\ we_are_destructing' = we_are_destructing
    BY <1>1, <1>7 DEF Destructs, NoCall
  <2>2. we_are_destructing /\ AllTasksEnded /\ \A t \in Threads : stack[t] = <<>>
    BY <1>1, <1>7 DEF LifeOK
  <2> QED
    BY <1>1, <1>3, <1>4, <2>1, <2>2 DEF LifeOK
<1> QED
  BY <1>5, <1>6, <1>7 DEF Destructs

LEMMA KindsLife ==
  ASSUME PoolInv, Kinds
  PROVE  LifeOK'
<1>1. ASSUME NEW t \in Threads, NEW n \in Nat,
             GoesOn(t, n) \/ Throws(t, n) \/ \E i \in Slots : Rethrows(t, n, i)
      PROVE  LifeOK'
  <2>1. Cut(t, n)
    BY <1>1 DEF GoesOn, Throws, Rethrows
  <2> QED
    BY <2>1, BusyBefore, LifeStays DEF Cut, CallEnds, Keeps
<1>2. ASSUME NEW t, NEW j, NEW i, Stores(t, j, i) PROVE LifeOK'
  BY <1>2, BusyBefore, LifeStays DEF Stores, MaySubmit, CallEnds, Keeps
<1>3. ASSUME NEW t, NEW j, Inline(t, j) PROVE LifeOK'
  BY <1>3, BusyBefore, LifeStays DEF Inline, Begins, MaySubmit, Keeps
<1>4. ASSUME NEW w, NEW i, Takes(w, i) PROVE LifeOK'
  <2>1. w \in Threads /\ w \notin Clients
    BY <1>4, PoolAssumption DEF Takes, Threads
  <2> QED
    BY <1>4, <2>1, LifeStays DEF Takes, Begins, Keeps
<1>5. ASSUME NEW w, NEW i, Finishes(w, i) PROVE LifeOK'
  <2>1. w \in Threads /\ w \notin Clients /\ stack[w] # <<>>
    BY <1>5, PoolAssumption, StackIs, InvTyped DEF Finishes, Threads
  <2>2. ~we_are_destructing
    BY <2>1, TasksRunBefore
  <2>3. \A u \in Threads : u # w => call'[u] = call[u] /\ stack'[u] = stack[u]
    BY <1>5, <2>1, TypesAre DEF Finishes
  <2>4. UNCHANGED <<life, we_are_destructing>>
    BY <1>5 DEF Finishes
  <2> QED
    BY <2>1, <2>2, <2>3, <2>4, LifeStays
<1>6. ASSUME NEW t, WaitSleeps(t) PROVE LifeOK'
  <2>1. /\ t \in Threads /\ (t \in Workers => stack[t] # <<>>) /\ (t \in Clients => life = "alive")
        /\ UNCHANGED <<life, we_are_destructing, stack>>
    BY <1>6 DEF WaitSleeps
  <2>2. ~we_are_destructing
    BY <2>1, TasksRunBefore DEF Threads, PoolInv, LifeOK
  <2>3. /\ call'[t].op \notin {"shutdown", "join"}
        /\ \A u \in Threads : u # t => call'[u] = call[u]
    BY <1>6, <2>1, TypesAre DEF WaitSleeps
  <2> QED
    BY <2>1, <2>2, <2>3, LifeStays
<1>7. ASSUME NEW t, NEW j, AddSleepsIn(t, j) PROVE LifeOK'
  <2>1. /\ t \in Threads /\ (t \in Clients => life = "alive") /\ ~we_are_destructing
        /\ UNCHANGED <<life, we_are_destructing, stack>>
    BY <1>7, BusyBefore DEF AddSleepsIn, MaySubmit
  <2>2. call'[t].op = "add_task" /\ \A u \in Threads : u # t => call'[u] = call[u]
    BY <1>7, <2>1, TypesAre DEF AddSleepsIn
  <2> QED
    BY <2>1, <2>2, LifeStays
<1>8. ASSUME NEW w, WorkerWaits(w) \/ UNCHANGED vars PROVE LifeOK'
  <2>1. UNCHANGED <<tasks, stack, call, life, we_are_destructing>>
    BY <1>8 DEF WorkerWaits, vars, pool, threads
  <2>2. AllTasksEnded' = AllTasksEnded /\ ThrownSlots' = ThrownSlots
    BY <2>1 DEF AllTasksEnded, EmptySlots, is_empty, ThrownSlots
  <2> QED
    BY <2>1, <2>2 DEF PoolInv, LifeOK
<1> QED
  BY <1>1, <1>2, <1>3, <1>4, <1>5, <1>6, <1>7, <1>8, DestructsLife DEF Kinds

-----------------------------------------------------------------------------
(* The exceptions *)

\* Each exception that was thrown and not caught is in one place.
OneKeeper ==
  /\ caught \subseteq thrown
  /\ \A i \in Slots : tasks[i].eptr # NoJob => tasks[i].eptr \in thrown \ caught
  /\ \A w \in Workers : ExcOf(w) # NoJob => ExcOf(w) \in thrown \ caught
  /\ \A i, k \in Slots : tasks[i].eptr # NoJob /\ tasks[i].eptr = tasks[k].eptr => i = k
  /\ \A w, x \in Workers : ExcOf(w) # NoJob /\ ExcOf(w) = ExcOf(x) => w = x
  /\ \A i \in Slots, w \in Workers : tasks[i].eptr # NoJob => tasks[i].eptr # ExcOf(w)
  /\ \A j \in thrown \ caught : \/ \E i \in Slots : tasks[i].eptr = j
                                \/ \E w \in Workers : ExcOf(w) = j

\* A task that threw has left its place, or is the lowest of a worker.
ThrownRan ==
  /\ \A j \in thrown : ids[j] # 0 /\ j \notin WaitingJobs
  /\ \A t \in Threads : \A k \in 1..Len(stack[t]) :
       stack[t][k].job \in thrown => stack[t][k].at = "end"

LEMMA ExceptionsAre == ExceptionsOK <=> OneKeeper /\ ThrownRan
BY DEF ExceptionsOK, OneKeeper, ThrownRan

LEMMA ExceptionsThen ==
  ASSUME OneKeeper', ThrownRan'
  PROVE  ExceptionsOK'
BY DEF ExceptionsOK, OneKeeper, ThrownRan

LEMMA ExceptionsNow ==
  ASSUME PoolInv
  PROVE  OneKeeper /\ ThrownRan /\ thrown \subseteq Jobs /\ NoJob \notin thrown
BY ExceptionsAre, TypesAre, PoolAssumption DEF PoolInv

LEMMA KeepersStay ==
  ASSUME PoolInv, UNCHANGED <<thrown, caught>>, SameExceptions,
         \A w \in Workers : ExcOf(w)' = ExcOf(w)
  PROVE  OneKeeper'
<1>1. OneKeeper
  BY ExceptionsNow
<1> QED
  BY <1>1 DEF OneKeeper, SameExceptions

\* What a busy worker keeps, and what it keeps after a step.
LEMMA BusyKeepsNone ==
  ASSUME PoolInv, NEW t \in Workers, Busy(t)
  PROVE  ExcOf(t) = NoJob
<1>1. 1 \in 1..Len(stack[t])
  BY StackIs, InvTyped DEF Busy
<1> QED
  BY <1>1, BusyFrames DEF ExcOf

\* The frames of t that are left after a step have not thrown.
LEMMA ThrownStays ==
  ASSUME PoolInv, NEW t, Busy(t), NEW n, Keeps(t, n), Len(stack'[t]) = n, thrown' = thrown,
         \A j \in WaitingJobs' : j \in WaitingJobs \/ ids[j] = 0,
         \A j \in Jobs : ids[j] # 0 => ids'[j] # 0
  PROVE  ThrownRan'
<1>1. /\ ThrownRan /\ t \in Threads /\ thrown \subseteq Jobs
      /\ n \in Nat /\ n <= Len(stack[t]) /\ Len(stack[t]) \in Nat
  BY ExceptionsNow, StackIs, InvTyped DEF Busy, Keeps
<1>2. \A k \in 1..n : k \in 1..Len(stack[t])
  BY <1>1
<1>3. \A k \in 1..n : stack'[t][k].job \notin thrown
  BY <1>1, <1>2, BusyFrames DEF ThrownRan, Keeps
<1>4. \A u \in Threads : \A k \in 1..Len(stack'[u]) :
        stack'[u][k].job \in thrown' => stack'[u][k].at = "end"
  BY <1>1, <1>3 DEF ThrownRan, Keeps
<1>5. \A j \in thrown' : ids'[j] # 0 /\ j \notin WaitingJobs'
  BY <1>1 DEF ThrownRan
<1> QED
  BY <1>4, <1>5 DEF ThrownRan

LEMMA GoesOnExceptions ==
  ASSUME PoolInv, NEW t, NEW n, GoesOn(t, n)
  PROVE  ExceptionsOK'
<1>1. /\ Cut(t, n) /\ Busy(t) /\ Keeps(t, n) /\ t \in Threads
      /\ UNCHANGED <<thrown, caught, ids>> /\ SameExceptions
      /\ Len(stack'[t]) = n /\ (t \in Workers => n # 0)
  BY DEF GoesOn, Cut, Busy
<1>2. WaitingJobs' = WaitingJobs
  BY <1>1, SameWaiting DEF Cut
<1>3. ThrownRan'
  BY <1>1, <1>2, ThrownStays
<1>4. ASSUME NEW w \in Workers PROVE ExcOf(w)' = ExcOf(w)
  <2>1. CASE w # t
    BY <1>1, <2>1 DEF Keeps, ExcOf, Threads
  <2>2. CASE w = t
    <3>1. ExcOf(t) = NoJob
      BY <1>1, <2>2, BusyKeepsNone
    <3>2. n \in Nat \ {0}
      BY <1>1, <2>2, StackIs, InvTyped DEF Keeps
    <3>3. 1 \in 1..n
      BY <3>2
    <3> QED
      BY <2>2, <3>1, <3>3 DEF GoesOn, ExcOf
  <2> QED
    BY <2>1, <2>2
<1> QED
  BY <1>1, <1>3, <1>4, KeepersStay, ExceptionsThen

LEMMA SubmitKeepsNone ==
  ASSUME PoolInv, NEW t, Busy(t), Keeps(t, Len(stack[t])),
         \A k \in 1..Len(stack[t]) : stack'[t][k].exc = stack[t][k].exc
  PROVE  \A w \in Workers : ExcOf(w)' = ExcOf(w)
<1>1. t \in Threads
  BY DEF Busy
<1>2. ASSUME NEW w \in Workers, w # t PROVE ExcOf(w)' = ExcOf(w)
  BY <1>2 DEF Keeps, ExcOf, Threads
<1>3. ASSUME t \in Workers PROVE ExcOf(t)' = ExcOf(t)
  <2>1. stack[t] # <<>> /\ 1 \in 1..Len(stack[t])
    BY <1>1, <1>3, StackIs, InvTyped DEF Busy
  <2>2. stack'[t] # <<>>
    BY <1>3, SubmitLowest, <2>1 DEF LowestStay
  <2> QED
    BY <2>1, <2>2 DEF ExcOf
<1> QED
  BY <1>2, <1>3

LEMMA StoresExceptions ==
  ASSUME PoolInv, NEW t, NEW j, NEW i, Stores(t, j, i)
  PROVE  ExceptionsOK'
<1>1. /\ Busy(t) /\ Keeps(t, Len(stack[t])) /\ Len(stack'[t]) = Len(stack[t])
      /\ t \in Threads /\ j \in Jobs /\ ids[j] = 0 /\ i \in Slots
      /\ UNCHANGED <<thrown, caught>>
      /\ \A k \in 1..Len(stack[t]) : stack'[t][k].exc = stack[t][k].exc
  BY DEF Stores, MaySubmit, Busy
<1>2. \A w \in Workers : ExcOf(w)' = ExcOf(w)
  BY <1>1, SubmitKeepsNone
<1>3. SameExceptions
  BY DEF Stores, ThrownSlots, SameExceptions
<1>4. \A l \in Jobs : ids[l] # 0 => ids'[l] # 0
  BY <1>1, TypesAre DEF Stores
<1>5. ThrownRan'
  <2> DEFINE n == Len(stack[t])
  <2>1. Keeps(t, n) /\ Len(stack'[t]) = n
    BY <1>1
  <2>2. \A l \in WaitingJobs' : l \in WaitingJobs \/ ids[l] = 0
    BY <1>1, StoresWaiting
  <2> HIDE DEF n
  <2> QED
    BY <1>1, <1>4, <2>1, <2>2, ThrownStays
<1> QED
  BY <1>1, <1>2, <1>3, <1>5, KeepersStay, ExceptionsThen

\* Task j, which begins, has not thrown before.
LEMMA BeginsThrown ==
  ASSUME PoolInv, NEW t \in Threads, NEW j, NEW i, Begins(t, j, i), j \notin thrown,
         \A k \in 1..Len(stack[t]) : stack[t][k].at # "end",
         \A l \in WaitingJobs' : l \in WaitingJobs,
         \A l \in Jobs : ids[l] # 0 => ids'[l] # 0
  PROVE  ThrownRan'
<1> DEFINE n == Len(stack[t])
<1>1. ThrownRan /\ n \in Nat /\ thrown' = thrown /\ thrown \subseteq Jobs
  BY ExceptionsNow, StackIs, InvTyped DEF Begins
<1>2. \A k \in 1..(n + 1) : k \in 1..n \/ k = n + 1
  BY <1>1
<1>3. /\ Len(stack'[t]) = n + 1 /\ stack'[t][n + 1].job = j
      /\ \A k \in 1..n : stack'[t][k].job = stack[t][k].job
      /\ \A u \in Threads : u # t => stack'[u] = stack[u]
  BY DEF Begins, Keeps
<1>4. \A k \in 1..n : stack[t][k].job \notin thrown
  BY <1>1 DEF ThrownRan
<1> HIDE DEF n
<1>5. \A u \in Threads : \A k \in 1..Len(stack'[u]) :
        stack'[u][k].job \in thrown' => stack'[u][k].at = "end"
  BY <1>1, <1>2, <1>3, <1>4 DEF ThrownRan
<1>6. \A l \in thrown' : ids'[l] # 0 /\ l \notin WaitingJobs'
  BY <1>1 DEF ThrownRan
<1> QED
  BY <1>5, <1>6 DEF ThrownRan

LEMMA InlineExceptions ==
  ASSUME PoolInv, NEW t, NEW j, Inline(t, j)
  PROVE  ExceptionsOK'
<1>1. /\ Busy(t) /\ Keeps(t, Len(stack[t])) /\ Begins(t, j, -1)
      /\ t \in Threads /\ j \in Jobs /\ ids[j] = 0
      /\ UNCHANGED <<thrown, caught, tasks>>
      /\ \A k \in 1..Len(stack[t]) : stack'[t][k].exc = stack[t][k].exc
  BY DEF Inline, Begins, MaySubmit, Busy
<1>2. \A w \in Workers : ExcOf(w)' = ExcOf(w)
  BY <1>1, SubmitKeepsNone
<1>3. SameExceptions
  BY <1>1 DEF SameExceptions
<1>4. \A l \in Jobs : ids[l] # 0 => ids'[l] # 0
  BY <1>1, TypesAre DEF Inline
<1>5. WaitingJobs' = WaitingJobs
  BY <1>1, SameWaiting DEF SameSlot
<1>6. j \notin thrown
  BY <1>1, ExceptionsNow DEF ThrownRan
<1>7. \A k \in 1..Len(stack[t]) : stack[t][k].at # "end"
  BY <1>1, BusyFrames
<1>8. ThrownRan'
  <2> DEFINE i == -1
  <2>1. Begins(t, j, i)
    BY <1>1
  <2> HIDE DEF i
  <2> QED
    BY <1>1, <1>4, <1>5, <1>6, <1>7, <2>1, BeginsThrown
<1> QED
  BY <1>1, <1>2, <1>3, <1>8, KeepersStay, ExceptionsThen

LEMMA TakesExceptions ==
  ASSUME PoolInv, NEW w, NEW i, Takes(w, i)
  PROVE  ExceptionsOK'
<1>0. tasks[i].bfp \in Jobs /\ tasks[i].bfp \in WaitingJobs
  BY JobsAre DEF Takes, WaitingJobs
<1> PICK j \in Jobs : j = tasks[i].bfp /\ j \in WaitingJobs
  BY <1>0
<1>1. /\ w \in Workers /\ w \in Threads /\ Begins(w, j, i) /\ stack[w] = <<>> /\ i \in Slots
      /\ UNCHANGED <<thrown, caught, ids>> /\ Len(stack[w]) = 0
  <2>1. w \in Workers /\ w \in Threads /\ Begins(w, j, i) /\ stack[w] = <<>> /\ i \in Slots
    BY DEF Takes, Threads, ReadySlots
  <2> QED
    BY <2>1, StackIs, InvTyped DEF Takes, Begins
<1>2. /\ Len(stack'[w]) = 1 /\ stack'[w][1].exc = NoJob
      /\ \A u \in Threads : u # w => stack'[u] = stack[u]
  <2>1. 0 + 1 = 1
    OBVIOUS
  <2> QED
    BY <1>1, <2>1 DEF Begins, Keeps
<1>3. \A x \in Workers : ExcOf(x)' = ExcOf(x)
  <2>1. ExcOf(w)' = NoJob /\ ExcOf(w) = NoJob
    BY <1>1, <1>2 DEF ExcOf
  <2>2. \A x \in Workers : x # w => ExcOf(x)' = ExcOf(x)
    BY <1>2 DEF ExcOf, Threads
  <2> QED
    BY <2>1, <2>2
<1>4. SameExceptions
  BY DEF Takes, SameExceptions
<1>5. j \notin thrown
  BY ExceptionsNow DEF ThrownRan
<1>6. \A k \in 1..Len(stack[w]) : stack[w][k].at # "end"
  BY <1>1
<1>7. ThrownRan'
  BY <1>1, <1>5, <1>6, TakesWaiting, BeginsThrown
<1> QED
  BY <1>1, <1>3, <1>4, <1>7, KeepersStay, ExceptionsThen

\* The exceptions after one has been brought to t or to the client t.
LEMMA ReachedFrames ==
  ASSUME PoolInv, NEW t, NEW n, Cut(t, n), NEW e, Reaches(t, n, e)
  PROVE  /\ t \in Threads /\ \A u \in Threads : u # t => stack'[u] = stack[u]
         /\ \A k \in 1..Len(stack'[t]) : stack'[t][k].at = "end"
         /\ t \in Workers => ExcOf(t) = NoJob /\ ExcOf(t)' = e /\ caught' = caught
         /\ t \notin Workers => caught' = caught \cup {e}
         /\ \A w \in Workers : w # t => ExcOf(w)' = ExcOf(w)
<1>1. t \in Threads /\ Busy(t) /\ \A u \in Threads : u # t => stack'[u] = stack[u]
  BY DEF Cut, Busy, Keeps
<1>2. 1..0 = {} /\ 1..1 = {1}
  OBVIOUS
<1>3. \A k \in 1..Len(stack'[t]) : stack'[t][k].at = "end"
  BY <1>2 DEF Cut, Reaches
<1>4. ASSUME t \in Workers PROVE ExcOf(t) = NoJob /\ ExcOf(t)' = e /\ caught' = caught
  <2>1. stack'[t] # <<>>
    BY <1>1, <1>4, StackEmpty DEF Cut, Reaches, Keeps
  <2> QED
    BY <1>1, <1>4, <2>1, BusyKeepsNone DEF Reaches, ExcOf
<1>5. \A w \in Workers : w # t => ExcOf(w)' = ExcOf(w)
  BY <1>1 DEF ExcOf, Threads
<1> QED
  BY <1>1, <1>3, <1>4, <1>5 DEF Reaches

LEMMA RethrowsExceptions ==
  ASSUME PoolInv, NEW t, NEW n, NEW i, Rethrows(t, n, i)
  PROVE  ExceptionsOK'
<1>0. PICK e : e = tasks[i].eptr
  OBVIOUS
<1>1. /\ Cut(t, n) /\ Reaches(t, n, e) /\ i \in Slots /\ e # NoJob /\ tasks[i].eptr = e
      /\ tasks'[i].eptr = NoJob /\ thrown' = thrown /\ ids' = ids
      /\ \A k \in Slots : k # i => tasks'[k].eptr = tasks[k].eptr
  BY <1>0 DEF Rethrows, ThrownSlots, Cut
<1>2. /\ t \in Threads /\ \A u \in Threads : u # t => stack'[u] = stack[u]
      /\ \A k \in 1..Len(stack'[t]) : stack'[t][k].at = "end"
      /\ t \in Workers => ExcOf(t) = NoJob /\ ExcOf(t)' = e /\ caught' = caught
      /\ t \notin Workers => caught' = caught \cup {e}
      /\ \A w \in Workers : w # t => ExcOf(w)' = ExcOf(w)
  BY <1>1, ReachedFrames
<1>3. OneKeeper /\ ThrownRan
  BY ExceptionsNow
<1>4. e \in thrown \ caught
  BY <1>1, <1>3 DEF OneKeeper
<1>5. OneKeeper'
  <2>1. CASE t \in Workers
    <3>1. /\ caught' \subseteq thrown'
          /\ \A k \in Slots : tasks'[k].eptr # NoJob => tasks'[k].eptr \in thrown' \ caught'
          /\ \A w \in Workers : ExcOf(w)' # NoJob => ExcOf(w)' \in thrown' \ caught'
      BY <1>1, <1>2, <1>3, <1>4, <2>1 DEF OneKeeper
    <3>2. \A k, l \in Slots : tasks'[k].eptr # NoJob /\ tasks'[k].eptr = tasks'[l].eptr => k = l
      BY <1>1, <1>3 DEF OneKeeper
    <3>3. \A k \in Slots : k # i => tasks'[k].eptr # e
      BY <1>1, <1>3 DEF OneKeeper
    <3>4. \A w \in Workers : ExcOf(w) # e
      BY <1>1, <1>3 DEF OneKeeper
    <3>5. \A w, x \in Workers : ExcOf(w)' # NoJob /\ ExcOf(w)' = ExcOf(x)' => w = x
      BY <1>1, <1>2, <1>3, <2>1, <3>4 DEF OneKeeper
    <3>6. \A k \in Slots, w \in Workers : tasks'[k].eptr # NoJob => tasks'[k].eptr # ExcOf(w)'
      BY <1>1, <1>2, <1>3, <2>1, <3>3 DEF OneKeeper
    <3>7. ASSUME NEW j \in thrown' \ caught'
          PROVE  (\E k \in Slots : tasks'[k].eptr = j) \/ \E w \in Workers : ExcOf(w)' = j
      <4>1. j # NoJob /\ j \in thrown \ caught
        BY <1>1, <1>2, <2>1, ExceptionsNow
      <4>2. CASE j = e
        BY <1>2, <2>1, <4>2
      <4>3. CASE j # e
        BY <1>1, <1>2, <1>3, <2>1, <4>1, <4>3 DEF OneKeeper
      <4> QED
        BY <4>2, <4>3
    <3> QED
      BY <3>1, <3>2, <3>5, <3>6, <3>7 DEF OneKeeper
  <2>2. CASE t \notin Workers
    <3>1. \A w \in Workers : ExcOf(w)' = ExcOf(w) /\ ExcOf(w) # e
      BY <1>1, <1>2, <1>3, <2>2 DEF OneKeeper
    <3>2. \A k \in Slots : k # i => tasks'[k].eptr # e
      BY <1>1, <1>3 DEF OneKeeper
    <3>3. /\ caught' \subseteq thrown'
          /\ \A k \in Slots : tasks'[k].eptr # NoJob => tasks'[k].eptr \in thrown' \ caught'
          /\ \A w \in Workers : ExcOf(w)' # NoJob => ExcOf(w)' \in thrown' \ caught'
      BY <1>1, <1>2, <1>3, <1>4, <2>2, <3>1, <3>2 DEF OneKeeper
    <3>4. \A k, l \in Slots : tasks'[k].eptr # NoJob /\ tasks'[k].eptr = tasks'[l].eptr => k = l
      BY <1>1, <1>3 DEF OneKeeper
    <3>5. \A w, x \in Workers : ExcOf(w)' # NoJob /\ ExcOf(w)' = ExcOf(x)' => w = x
      BY <1>3, <3>1 DEF OneKeeper
    <3>6. \A k \in Slots, w \in Workers : tasks'[k].eptr # NoJob => tasks'[k].eptr # ExcOf(w)'
      BY <1>1, <1>3, <3>1 DEF OneKeeper
    <3>7. ASSUME NEW j \in thrown' \ caught'
          PROVE  (\E k \in Slots : tasks'[k].eptr = j) \/ \E w \in Workers : ExcOf(w)' = j
      <4>1. j # e /\ j \in thrown \ caught
        BY <1>1, <1>2, <2>2
      <4> QED
        BY <1>1, <1>3, <3>1, <4>1 DEF OneKeeper
    <3> QED
      BY <3>3, <3>4, <3>5, <3>6, <3>7 DEF OneKeeper
  <2> QED
    BY <2>1, <2>2
<1>6. WaitingJobs' = WaitingJobs
  BY <1>1, SameWaiting DEF Cut
<1>7. ThrownRan'
  BY <1>1, <1>2, <1>3, <1>6 DEF ThrownRan
<1> QED
  BY <1>5, <1>7, ExceptionsThen

LEMMA ThrowsExceptions ==
  ASSUME PoolInv, NEW t, NEW n, Throws(t, n)
  PROVE  ExceptionsOK'
<1>0. PICK e : e = Top(t).job
  OBVIOUS
<1>1. /\ Cut(t, n) /\ Reaches(t, n, e) /\ Busy(t) /\ stack[t] # <<>>
      /\ thrown' = thrown \cup {e} /\ ids' = ids
      /\ \A k \in Slots : tasks'[k].eptr = tasks[k].eptr
  BY <1>0 DEF Throws, Cut, SameExceptions
<1>2. /\ t \in Threads /\ \A u \in Threads : u # t => stack'[u] = stack[u]
      /\ \A k \in 1..Len(stack'[t]) : stack'[t][k].at = "end"
      /\ t \in Workers => ExcOf(t) = NoJob /\ ExcOf(t)' = e /\ caught' = caught
      /\ t \notin Workers => caught' = caught \cup {e}
      /\ \A w \in Workers : w # t => ExcOf(w)' = ExcOf(w)
  BY <1>1, ReachedFrames
<1>3. OneKeeper /\ ThrownRan /\ NoJob \notin thrown
  BY ExceptionsNow
<1>4. Len(stack[t]) \in 1..Len(stack[t]) /\ e = stack[t][Len(stack[t])].job /\ e \in Jobs
  BY <1>0, <1>1, <1>2, StackIs, InvTyped DEF Top
<1>5. e \notin thrown /\ e \notin caught /\ e # NoJob
  <2>1. e \notin thrown
    BY <1>1, <1>2, <1>3, <1>4, BusyFrames DEF ThrownRan
  <2> QED
    BY <1>3, <1>4, <2>1, PoolAssumption DEF OneKeeper
<1>6. /\ \A k \in Slots : tasks[k].eptr # e
      /\ \A w \in Workers : ExcOf(w) # e
  BY <1>3, <1>5 DEF OneKeeper
<1>7. OneKeeper'
  <2>1. CASE t \in Workers
    <3>1. /\ caught' \subseteq thrown'
          /\ \A k \in Slots : tasks'[k].eptr # NoJob => tasks'[k].eptr \in thrown' \ caught'
          /\ \A w \in Workers : ExcOf(w)' # NoJob => ExcOf(w)' \in thrown' \ caught'
      BY <1>1, <1>2, <1>3, <1>5, <2>1 DEF OneKeeper
    <3>2. \A k, l \in Slots : tasks'[k].eptr # NoJob /\ tasks'[k].eptr = tasks'[l].eptr => k = l
      BY <1>1, <1>3 DEF OneKeeper
    <3>3. \A w, x \in Workers : ExcOf(w)' # NoJob /\ ExcOf(w)' = ExcOf(x)' => w = x
      BY <1>2, <1>3, <1>6, <2>1 DEF OneKeeper
    <3>4. \A k \in Slots, w \in Workers : tasks'[k].eptr # NoJob => tasks'[k].eptr # ExcOf(w)'
      BY <1>1, <1>2, <1>3, <1>6, <2>1 DEF OneKeeper
    <3>5. ASSUME NEW j \in thrown' \ caught'
          PROVE  (\E k \in Slots : tasks'[k].eptr = j) \/ \E w \in Workers : ExcOf(w)' = j
      <4>1. CASE j = e
        BY <1>2, <2>1, <4>1
      <4>2. CASE j # e
        <5>1. j \in thrown \ caught /\ j # NoJob
          BY <1>1, <1>2, <1>3, <2>1, <4>2
        <5> QED
          BY <1>1, <1>2, <1>3, <2>1, <5>1 DEF OneKeeper
      <4> QED
        BY <4>1, <4>2
    <3> QED
      BY <3>1, <3>2, <3>3, <3>4, <3>5 DEF OneKeeper
  <2>2. CASE t \notin Workers
    <3>1. /\ thrown' \ caught' = thrown \ caught /\ caught' \subseteq thrown'
          /\ \A w \in Workers : ExcOf(w)' = ExcOf(w)
      BY <1>1, <1>2, <1>3, <1>5, <2>2 DEF OneKeeper
    <3>2. \A k \in Slots : tasks'[k].eptr # NoJob => tasks'[k].eptr \in thrown' \ caught'
      BY <1>1, <1>3, <3>1 DEF OneKeeper
    <3>3. \A w \in Workers : ExcOf(w)' # NoJob => ExcOf(w)' \in thrown' \ caught'
      BY <1>3, <3>1 DEF OneKeeper
    <3>4. \A k, l \in Slots : tasks'[k].eptr # NoJob /\ tasks'[k].eptr = tasks'[l].eptr => k = l
      BY <1>1, <1>3 DEF OneKeeper
    <3>5. \A w, x \in Workers : ExcOf(w)' # NoJob /\ ExcOf(w)' = ExcOf(x)' => w = x
      BY <1>3, <3>1 DEF OneKeeper
    <3>6. \A k \in Slots, w \in Workers : tasks'[k].eptr # NoJob => tasks'[k].eptr # ExcOf(w)'
      BY <1>1, <1>3, <3>1 DEF OneKeeper
    <3>7. \A j \in thrown' \ caught' :
            (\E k \in Slots : tasks'[k].eptr = j) \/ \E w \in Workers : ExcOf(w)' = j
      BY <1>1, <1>3, <3>1 DEF OneKeeper
    <3> QED
      BY <3>1, <3>2, <3>3, <3>4, <3>5, <3>6, <3>7 DEF OneKeeper
  <2> QED
    BY <2>1, <2>2
<1>8. WaitingJobs' = WaitingJobs
  BY <1>1, SameWaiting DEF Cut
<1>9. ids[e] # 0 /\ e \notin WaitingJobs
  <2>1. On(t, e)
    BY <1>4 DEF On
  <2> QED
    BY <1>2, <1>4, <2>1, PlacesNow DEF OnePlace
<1>10. \A u \in Threads : u # t => \A k \in 1..Len(stack[u]) : stack[u][k].job # e
  BY <1>2, <1>4, PlacesNow DEF RunningOnce
<1>11. ThrownRan'
  BY <1>1, <1>2, <1>3, <1>8, <1>9, <1>10 DEF ThrownRan
<1> QED
  BY <1>7, <1>11, ExceptionsThen

LEMMA FinishesExceptions ==
  ASSUME PoolInv, NEW w, NEW i, Finishes(w, i)
  PROVE  ExceptionsOK'
<1>1. /\ w \in Workers /\ w \in Threads /\ i \in Slots /\ stack[w] # <<>>
      /\ stack[w][1].slot = i /\ Len(stack[w]) = 1
      /\ UNCHANGED <<thrown, caught, ids>>
  <2>1. /\ w \in Workers /\ w \in Threads /\ i \in Slots
        /\ stack[w][1].slot = i /\ Len(stack[w]) = 1
        /\ UNCHANGED <<thrown, caught, ids>>
    BY DEF Finishes, Threads
  <2> QED
    BY <2>1, StackIs, InvTyped
<1>2. tasks[i].eptr = NoJob
  <2>1. tasks[i].is_being_processed
    BY <1>1, SlotsNow DEF RunsSlot
  <2> QED
    BY <1>1, <2>1, SlotsNow DEF SlotOK
<1>3. stack'[w] = <<>> /\ \A u \in Threads : u # w => stack'[u] = stack[u]
  BY <1>1, TypesAre DEF Finishes
<1>4. /\ ExcOf(w) = tasks'[i].eptr /\ ExcOf(w)' = NoJob
      /\ \A x \in Workers : x # w => ExcOf(x)' = ExcOf(x)
      /\ \A k \in Slots : k # i => tasks'[k].eptr = tasks[k].eptr
  BY <1>1, <1>3 DEF ExcOf, Finishes, Threads
<1>5. OneKeeper /\ ThrownRan /\ NoJob \notin thrown
  BY ExceptionsNow
<1>6. OneKeeper'
  <2>1. /\ caught' \subseteq thrown'
        /\ \A k \in Slots : tasks'[k].eptr # NoJob => tasks'[k].eptr \in thrown' \ caught'
        /\ \A x \in Workers : ExcOf(x)' # NoJob => ExcOf(x)' \in thrown' \ caught'
    BY <1>1, <1>4, <1>5 DEF OneKeeper
  <2>2. \A k, l \in Slots : tasks'[k].eptr # NoJob /\ tasks'[k].eptr = tasks'[l].eptr => k = l
    BY <1>1, <1>4, <1>5 DEF OneKeeper
  <2>3. \A x, y \in Workers : ExcOf(x)' # NoJob /\ ExcOf(x)' = ExcOf(y)' => x = y
    BY <1>4, <1>5 DEF OneKeeper
  <2>4. \A k \in Slots, x \in Workers : tasks'[k].eptr # NoJob => tasks'[k].eptr # ExcOf(x)'
    BY <1>1, <1>4, <1>5 DEF OneKeeper
  <2>5. ASSUME NEW j \in thrown' \ caught'
        PROVE  (\E k \in Slots : tasks'[k].eptr = j) \/ \E x \in Workers : ExcOf(x)' = j
    <3>1. j \in thrown \ caught /\ j # NoJob
      BY <1>1, <1>5
    <3> QED
      BY <1>1, <1>2, <1>4, <1>5, <3>1 DEF OneKeeper
  <2> QED
    BY <2>1, <2>2, <2>3, <2>4, <2>5 DEF OneKeeper
<1>7. Len(stack'[w]) = 0 /\ 1..0 = {}
  BY <1>3
<1>8. ThrownRan'
  BY <1>1, <1>3, <1>5, <1>7, FinishesWaiting DEF ThrownRan
<1> QED
  BY <1>6, <1>8, ExceptionsThen

LEMMA KindsExceptions ==
  ASSUME PoolInv, Kinds
  PROVE  ExceptionsOK'
<1>1. CASE \E t : \/ WaitSleeps(t) \/ WorkerWaits(t) \/ Destructs(t) \/ UNCHANGED vars
                  \/ \E j : AddSleepsIn(t, j)
  BY <1>1, QuietKinds, QuietKeeps
<1>2. CASE \E t, j, i : Stores(t, j, i) \/ Inline(t, j) \/ Takes(t, i) \/ Finishes(t, i)
  BY <1>2, StoresExceptions, InlineExceptions, TakesExceptions, FinishesExceptions
<1>3. CASE \E t, n, i : GoesOn(t, n) \/ Throws(t, n) \/ Rethrows(t, n, i)
  BY <1>3, GoesOnExceptions, ThrowsExceptions, RethrowsExceptions
<1> QED
  BY <1>1, <1>2, <1>3 DEF Kinds

-----------------------------------------------------------------------------
(* The invariant *)

LEMMA InitHolds == Init => PoolInv
<1> SUFFICES ASSUME Init PROVE PoolInv
  OBVIOUS
<1> DEFINE none == <<>>
<1>1. EmptySlot \in SlotType /\ EmptySlot.task_id = 0 /\ EmptySlot.eptr = NoJob
      /\ EmptySlot.is_being_processed = FALSE
  BY DEF EmptySlot, SlotType
<1>2. NoCall \in CallType /\ NoCall.op = "none"
  BY DEF NoCall, CallType, Ops
<1>3. none \in Seq(FrameType) /\ Len(none) = 0 /\ 1..Len(none) = {}
  OBVIOUS
<1>4. /\ tasks \in [Slots -> SlotType] /\ call \in [Threads -> CallType]
      /\ \A i \in Slots : tasks[i] = EmptySlot
      /\ \A t \in Threads : call[t].op = "none" /\ stack[t] = none
      /\ \A j \in Jobs : ids[j] = 0 /\ ran[j] = 0
      /\ \A w \in Workers : pc[w] = "start"
  BY <1>1, <1>2 DEF Init
<1>5. /\ stack \in [Threads -> Seq(FrameType)]
      /\ \A t \in Threads : 1..Len(stack[t]) = {} /\ JobsOn(stack[t]) = {}
  BY <1>3, <1>4 DEF Init, JobsOn
<1>6. /\ worker_thread_ids = {} /\ task_done_signaler = {} /\ task_ready_signaler = {}
      /\ we_are_destructing = FALSE /\ life = "alive"
      /\ done = {} /\ thrown = {} /\ caught = {}
      /\ pc \in [Workers -> {"start", "loop", "run", "exit"}]
      /\ ids \in [Jobs -> Nat] /\ ran \in [Jobs -> Nat]
  BY DEF Init
<1>7. ReadySlots = {} /\ WaitingJobs = {}
  BY <1>1, <1>4 DEF ReadySlots, is_ready, is_empty, WaitingJobs
<1> HIDE DEF none
<1>8. TypeOK /\ HistoryOK
  BY <1>4, <1>5, <1>6 DEF TypeOK, HistoryOK, SlotType, FrameType, CallType
<1>9. StacksOK /\ \A w \in Workers : stack[w] = <<>>
  BY <1>4, <1>5 DEF StacksOK, none, Threads
<1>10. SlotsOK /\ IdsOK
  BY <1>1, <1>4, <1>9 DEF SlotsOK, IdsOK, is_empty
<1>11. PlacesOK /\ ChildrenOK
  BY <1>4, <1>5, <1>6, <1>7 DEF PlacesOK, ChildrenOK, Count
<1>12. CallsOK /\ LifeOK
  BY <1>4, <1>6 DEF CallsOK, LifeOK, Threads
<1>13. ExceptionsOK
  BY <1>1, <1>4, <1>5, <1>6, <1>9 DEF ExceptionsOK, ExcOf
<1> QED
  BY <1>8, <1>9, <1>10, <1>11, <1>12, <1>13 DEF PoolInv

LEMMA StepKeepsInv == PoolInv /\ [Next]_vars => PoolInv'
<1> SUFFICES ASSUME PoolInv, [Next]_vars PROVE PoolInv'
  OBVIOUS
<1>1. Kinds
  BY StepsAreKinds
<1> QED
  BY <1>1, KindsTypes, KindsStacks, KindsSlots, KindsPlaces, KindsChildren, KindsIds,
     KindsCalls, KindsLife, KindsExceptions DEF PoolInv

\* The inductive invariant of the pool: slots, stacks, places, ids, calls, life
\* and exceptions are as described above, whatever add_task(), the wait
\* functions, thread() and the destructor do.
THEOREM PoolInvariant == Spec => []PoolInv
BY InitHolds, StepKeepsInv, PTL DEF Spec

-----------------------------------------------------------------------------
(* What has one place is counted once *)

LEMMA OneIsCounted ==
  ASSUME NEW S, \A x, y \in S : x = y
  PROVE  Cardinality(S) = Count(S # {})
<1>1. CASE S = {}
  BY <1>1, FS_EmptySet DEF Count
<1>2. CASE S # {}
  <2>1. PICK x : S = {x}
    BY <1>2
  <2> QED
    BY <2>1, FS_Singleton DEF Count
<1> QED
  BY <1>1, <1>2

LEMMA WaitingCounted ==
  ASSUME PoolInv, NEW j
  PROVE  LET waiting == {i \in ReadySlots : tasks[i].bfp = j} IN
         /\ Cardinality(waiting) = Count(j \in WaitingJobs)
         /\ waiting = {} <=> j \notin WaitingJobs
<1> DEFINE waiting == {i \in ReadySlots : tasks[i].bfp = j}
<1>1. \A i, k \in waiting : i = k
  BY PlacesNow DEF WaitingOnce
<1>2. waiting # {} <=> j \in WaitingJobs
  BY DEF WaitingJobs
<1> HIDE DEF waiting
<1>3. Cardinality(waiting) = Count(j \in WaitingJobs)
  BY <1>1, <1>2, OneIsCounted DEF Count
<1> QED
  BY <1>2, <1>3 DEF waiting

LEMMA RunningCounted ==
  ASSUME PoolInv, NEW j
  PROVE  Cardinality(RunningFrames(j)) = Count(\E t \in Threads : On(t, j))
<1> DEFINE at(t) == {l \in 1..Len(stack[t]) : stack[t][l].job = j}
           frames(t) == {<<t, k>> : k \in at(t)}
<1>1. RunningFrames(j) = UNION {frames(t) : t \in Threads}
  BY DEF RunningFrames
<1>2. \A t : \A p : p \in frames(t) <=> \E k \in at(t) : p = <<t, k>>
  OBVIOUS
<1> HIDE DEF frames
<1>3. \A p : p \in RunningFrames(j) <=> \E t \in Threads : p \in frames(t)
  BY <1>1
<1>4. \A p : p \in RunningFrames(j) <=>
        \E t \in Threads : \E k \in at(t) : p = <<t, k>>
  BY <1>2, <1>3
<1>5. \A t, u \in Threads : \A k \in at(t) : \A l \in at(u) : t = u /\ k = l
  BY PlacesNow DEF RunningOnce
<1>6. \A t : On(t, j) <=> at(t) # {}
  BY DEF On
<1> HIDE DEF at
<1>7. \A p, q \in RunningFrames(j) : p = q
  BY <1>4, <1>5
<1>8. ASSUME RunningFrames(j) # {} PROVE \E t \in Threads : On(t, j)
  BY <1>4, <1>6, <1>8
<1>9. ASSUME NEW t \in Threads, On(t, j) PROVE RunningFrames(j) # {}
  <2>1. PICK k : k \in at(t)
    BY <1>6, <1>9
  <2>2. <<t, k>> \in RunningFrames(j)
    BY <1>4, <2>1
  <2> QED
    BY <2>2
<1> QED
  BY <1>7, <1>8, <1>9, OneIsCounted DEF Count

LEMMA AccountedFor == PoolInv => TasksAccountedFor
<1> SUFFICES ASSUME PoolInv PROVE TasksAccountedFor
  OBVIOUS
<1>1. TypeOK /\ LifeOK
  BY DEF PoolInv
<1> SUFFICES ASSUME NEW j \in Jobs
             PROVE  LET waiting == {i \in ReadySlots : tasks[i].bfp = j} IN
                    /\ Cardinality(waiting) + Cardinality(RunningFrames(j)) + Count(j \in done)
                         = Count(ids[j] # 0)
                    /\ ran[j] = Count(ids[j] # 0 /\ waiting = {})
                    /\ we_are_destructing /\ ids[j] # 0 => j \in done
  BY <1>1 DEF TasksAccountedFor
<1> DEFINE waiting == {i \in ReadySlots : tasks[i].bfp = j}
<1>2. OnePlace
  BY PlacesNow
<1>3. Cardinality(waiting) = Count(j \in WaitingJobs) /\ (waiting = {} <=> j \notin WaitingJobs)
  BY WaitingCounted
<1>4. Cardinality(RunningFrames(j)) = Count(\E t \in Threads : On(t, j))
  BY RunningCounted
<1> HIDE DEF waiting
<1>5. Cardinality(waiting) + Cardinality(RunningFrames(j)) + Count(j \in done) = Count(ids[j] # 0)
  BY <1>2, <1>3, <1>4 DEF OnePlace, Count
<1>6. ran[j] = Count(ids[j] # 0 /\ waiting = {})
  BY <1>2, <1>3 DEF OnePlace, Count
<1>7. ASSUME we_are_destructing, ids[j] # 0 PROVE j \in done
  <2>1. AllTasksEnded /\ \A t \in Threads : stack[t] = <<>>
    BY <1>1, <1>7 DEF LifeOK
  <2>2. j \notin WaitingJobs
    BY <2>1 DEF AllTasksEnded, EmptySlots, WaitingJobs, ReadySlots, is_ready
  <2>3. \A t \in Threads : ~On(t, j)
    BY <2>1 DEF On
  <2> QED
    BY <1>2, <1>7, <2>2, <2>3 DEF OnePlace
<1> QED
  BY <1>5, <1>6, <1>7 DEF waiting

\* Every accepted task waits in one slot, runs in one thread or has ended, and
\* is started exactly once, by a worker from its slot or inside add_task(); the
\* workers are told to end only when all tasks have.
THEOREM EveryTaskAccountedFor == Spec => []TasksAccountedFor
BY PoolInvariant, AccountedFor, PTL

-----------------------------------------------------------------------------
(* Exceptions and ids *)

LEMMA KeptExceptions == PoolInv => ExceptionsKept
<1> SUFFICES ASSUME PoolInv PROVE ExceptionsKept
  OBVIOUS
<1>1. OneKeeper /\ NoJob \notin thrown
  BY ExceptionsNow
<1>2. ASSUME NEW j \in thrown
      PROVE  Cardinality({i \in Slots : tasks[i].eptr = j})
               + Cardinality({w \in Workers : stack[w] # <<>> /\ stack[w][1].exc = j})
               + Count(j \in caught) = 1
  <2> DEFINE S == {i \in Slots : tasks[i].eptr = j}
             W == {w \in Workers : stack[w] # <<>> /\ stack[w][1].exc = j}
  <2>1. j # NoJob
    BY <1>1, <1>2
  <2>2. \A w \in Workers : w \in W <=> ExcOf(w) = j
    BY <2>1 DEF ExcOf
  <2>3. Cardinality(S) = Count(S # {})
    <3>1. \A i, k \in S : i = k
      BY <1>1, <2>1 DEF OneKeeper
    <3> HIDE DEF S
    <3> QED
      BY <3>1, OneIsCounted
  <2>4. \A w, x \in W : w = x
    BY <1>1, <2>1, <2>2 DEF OneKeeper
  <2>5. Cardinality(W) = Count(W # {})
    <3> HIDE DEF W
    <3> QED
      BY <2>4, OneIsCounted
  <2>6. S # {} => W = {} /\ j \notin caught
    BY <1>1, <2>1, <2>2 DEF OneKeeper
  <2>7. W # {} => j \notin caught
    BY <1>1, <2>1, <2>2 DEF OneKeeper
  <2>8. j \notin caught => S # {} \/ W # {}
    BY <1>1, <1>2, <2>2 DEF OneKeeper
  <2> HIDE DEF S, W
  <2>9. Cardinality(S) + Cardinality(W) + Count(j \in caught) = 1
    BY <2>3, <2>5, <2>6, <2>7, <2>8 DEF Count
  <2> QED
    BY <2>9 DEF S, W
<1>3. ASSUME life = "destroyed" PROVE caught = thrown
  <2>1. ThrownSlots = {} /\ we_are_destructing /\ \A t \in Threads : stack[t] = <<>>
    BY <1>3 DEF PoolInv, LifeOK
  <2>2. \A i \in Slots : tasks[i].eptr = NoJob
    BY <2>1 DEF ThrownSlots
  <2>3. \A w \in Workers : ExcOf(w) = NoJob
    BY <2>1 DEF ExcOf, Threads
  <2>4. caught \subseteq thrown
    BY <1>1 DEF OneKeeper
  <2>5. ASSUME NEW j \in thrown \ caught PROVE FALSE
    <3>1. (\E i \in Slots : tasks[i].eptr = j) \/ \E w \in Workers : ExcOf(w) = j
      BY <1>1 DEF OneKeeper
    <3>2. j = NoJob
      BY <2>2, <2>3, <3>1
    <3> QED
      BY <1>1, <3>2
  <2> QED
    BY <2>4, <2>5
<1> QED
  BY <1>2, <1>3 DEF ExceptionsKept

\* The exception of a task that threw is in one place until a call of a client
\* throws it again: add_task() never puts a task into a slot that holds one, no
\* two calls throw the same one, and a destruction that does not end the
\* program has lost none.
THEOREM NoExceptionIsLost == Spec => []ExceptionsKept
BY PoolInvariant, KeptExceptions, PTL

LEMMA IdsTellTheEnd ==
  ASSUME PoolInv, NEW j \in Jobs, N # 0, ids[j] > 1
  PROVE  tasks[task_id_to_index(ids[j])].task_id = ids[j] <=> j \notin done
<1> DEFINE i == task_id_to_index(ids[j])
<1>1. SlotsOK /\ IdsOK /\ StacksOK /\ OnePlace /\ WaitingOnce
  BY PlacesNow DEF PoolInv
<1>2. ids[j] \in Nat /\ ids[j] # 0
  BY TypesAre
<1>3. i \in Slots
  <2>1. N \in Nat \ {0}
    BY NumberOfWorkers
  <2> DEFINE m == N
             x == ids[j]
  <2>2. m \in Nat \ {0} /\ x \in Nat
    BY <1>2, <2>1
  <2> HIDE DEF m, x
  <2>3. x % m \in 0..(m - 1)
    BY <2>2
  <2> QED
    BY <2>3 DEF m, x, task_id_to_index, Slots
<1>4. ASSUME tasks[i].task_id = ids[j] PROVE j \notin done
  <2>1. ~is_empty(i)
    BY <1>2, <1>4 DEF is_empty
  <2>2. tasks[i].bfp \in Jobs /\ ids[tasks[i].bfp] = ids[j]
    BY <1>1, <1>3, <1>4, <2>1 DEF SlotsOK
  <2>3. tasks[i].bfp = j
    BY <1>1, <2>2 DEF IdsOK
  <2>4. CASE is_ready(i)
    BY <1>1, <1>3, <2>3, <2>4 DEF WaitingJobs, ReadySlots, OnePlace
  <2>5. CASE ~is_ready(i)
    <3>1. tasks[i].is_being_processed
      BY <2>1, <2>5 DEF is_ready
    <3>2. PICK w \in Workers : stack[w] # <<>> /\ stack[w][1].slot = i
      BY <1>1, <1>3, <3>1 DEF SlotsOK
    <3>3. stack[w][1].job = j
      BY <1>1, <2>3, <3>2 DEF SlotsOK
    <3>4. 1 \in 1..Len(stack[w]) /\ w \in Threads
      BY <3>2, StackIs, InvTyped DEF Threads
    <3> QED
      BY <1>1, <3>3, <3>4 DEF On, OnePlace
  <2> QED
    BY <2>4, <2>5
<1>5. ASSUME j \notin done PROVE tasks[i].task_id = ids[j]
  <2>1. j \in WaitingJobs \/ \E t \in Threads : On(t, j)
    BY <1>1, <1>2, <1>5 DEF OnePlace
  <2>2. PICK k \in Slots : tasks[k].bfp = j /\ ~is_empty(k)
    <3>1. CASE j \in WaitingJobs
      BY <3>1 DEF WaitingJobs, ReadySlots, is_ready
    <3>2. ASSUME NEW t \in Threads, On(t, j) PROVE \E k \in Slots : tasks[k].bfp = j /\ ~is_empty(k)
      <4>1. PICK k \in 1..Len(stack[t]) : stack[t][k].job = j
        BY <3>2 DEF On
      <4>2. stack[t][k].slot # -1
        BY <1>1, <4>1 DEF StacksOK
      <4>3. t \in Workers /\ k = 1 /\ stack[t] # <<>>
        BY <1>1, <4>1, <4>2, StackIs, InvTyped DEF StacksOK
      <4>4. RunsSlot(t) /\ \A l \in Slots : SlotOK(l)
        BY <4>3, SlotsNow
      <4> QED
        BY <4>1, <4>3, <4>4 DEF RunsSlot, SlotOK
    <3> QED
      BY <2>1, <3>1, <3>2
  <2>3. ids[j] = tasks[k].task_id
    BY <1>1, <2>2 DEF SlotsOK
  <2>4. task_id_to_index(tasks[k].task_id) = k
    BY <1>1, <2>2 DEF IdsOK
  <2> QED
    BY <2>3, <2>4
<1> QED
  BY <1>4, <1>5

\* The id that add_task() returned is that of its slot exactly until the task
\* ends, however often slots are used again, and no two slot tasks have the
\* same: the test in wait_for_task() is right.
THEOREM IdsAreNames == Spec => []IdsNameTasks
<1>1. PoolInv => IdsNameTasks
  <2>1. PoolInv => IdsOK
    BY DEF PoolInv
  <2> QED
    BY <2>1, IdsTellTheEnd DEF IdsNameTasks, IdsOK
<1> QED
  BY <1>1, PoolInvariant, PTL

-----------------------------------------------------------------------------
(* Wakeups *)

Seekers == {w \in Workers : pc[w] = "start" \/ LooksForWork(w)}

\* The two halves of NoLostWakeup: the workers, and the threads in a pool function.
WorkersWoken == task_ready_signaler # {} => Cardinality(ReadySlots) <= Cardinality(Seekers)
WaitsFor(t) ==
  /\ call[t].op = "add_task" => EmptySlots = {}
  /\ call[t].op = "wait_for_all_tasks" => \E i \in Slots : Pending(t, i)
  /\ call[t].op = "shutdown" => EmptySlots # Slots
CallersWoken == \A t \in task_done_signaler : WaitsFor(t)

LEMMA WakeupsAre == NoLostWakeup <=> WorkersWoken /\ CallersWoken
BY DEF NoLostWakeup, WorkersWoken, CallersWoken, WaitsFor, Seekers

LEMMA WakeupsThen ==
  ASSUME WorkersWoken', CallersWoken'
  PROVE  NoLostWakeup'
BY DEF NoLostWakeup, WorkersWoken, CallersWoken, WaitsFor, Seekers

LEMMA CountsAre ==
  /\ IsFiniteSet(ReadySlots) /\ IsFiniteSet(Seekers)
  /\ Cardinality(ReadySlots) \in Nat /\ Cardinality(Seekers) \in Nat
<1>1. IsFiniteSet(Slots)
  BY NumberOfWorkers, FS_Interval DEF Slots
<1>2. IsFiniteSet(Workers)
  BY FS_Subset DEF Threads
<1>3. ReadySlots \in SUBSET Slots /\ Seekers \in SUBSET Workers
  BY DEF ReadySlots, Seekers
<1>4. IsFiniteSet(ReadySlots) /\ IsFiniteSet(Seekers)
  BY <1>1, <1>2, <1>3, FS_Subset
<1> QED
  BY <1>4, FS_CardinalityType

\* Steps after which no more slots are ready and no fewer workers look for work.
LEMMA SameSeekers ==
  ASSUME WorkersWoken, UNCHANGED <<ReadySlots, Seekers>>,
         task_ready_signaler' = {} \/ UNCHANGED task_ready_signaler
  PROVE  WorkersWoken'
BY DEF WorkersWoken

LEMMA SeekersUnchanged ==
  ASSUME UNCHANGED <<pc, task_ready_signaler>>
  PROVE  UNCHANGED Seekers
BY DEF Seekers, LooksForWork

LEMMA ReadyUnchanged ==
  ASSUME UNCHANGED tasks
  PROVE  UNCHANGED ReadySlots
BY DEF ReadySlots, is_ready, is_empty

\* Steps that only empty slots, or fill one that was empty.
LEMMA CallersStay ==
  ASSUME CallersWoken, task_done_signaler' \subseteq task_done_signaler,
         \A u \in task_done_signaler' : call'[u] = call[u],
         \A k \in Slots : ~is_empty(k) => ~is_empty(k)' /\ tasks'[k].thread_id = tasks[k].thread_id
  PROVE  CallersWoken'
<1>1. EmptySlots' \subseteq EmptySlots /\ EmptySlots \subseteq Slots
  BY DEF EmptySlots
<1>2. \A u : \A k \in Slots : Pending(u, k) => Pending(u, k)'
  BY DEF Pending
<1> SUFFICES ASSUME NEW u \in task_done_signaler' PROVE WaitsFor(u)'
  BY DEF CallersWoken
<1>3. WaitsFor(u) /\ call'[u] = call[u]
  BY DEF CallersWoken
<1> QED
  BY <1>1, <1>2, <1>3 DEF WaitsFor

LEMMA CutWakes ==
  ASSUME PoolInv, NoLostWakeup, NEW t, NEW n, Cut(t, n)
  PROVE  NoLostWakeup'
<1>1. WorkersWoken /\ CallersWoken
  BY WakeupsAre
<1>2. ReadySlots' = ReadySlots
  BY SameWaiting DEF Cut
<1>3. WorkersWoken'
  BY <1>1, <1>2, SeekersUnchanged, SameSeekers DEF Cut
<1>4. \A u \in task_done_signaler' : call'[u] = call[u]
  BY TypesAre DEF Cut, CallEnds, Busy, Sleepers
<1>5. \A k \in Slots : ~is_empty(k) => ~is_empty(k)' /\ tasks'[k].thread_id = tasks[k].thread_id
  BY DEF Cut, SameSlot, is_empty
<1>6. CallersWoken'
  BY <1>1, <1>4, <1>5, CallersStay DEF Cut
<1> QED
  BY <1>3, <1>6, WakeupsThen

LEMMA StoresWakes ==
  ASSUME PoolInv, NoLostWakeup, NEW t, NEW j, NEW i, Stores(t, j, i)
  PROVE  NoLostWakeup'
<1>1. WorkersWoken /\ CallersWoken
  BY WakeupsAre
<1>2. /\ i \in Slots /\ is_empty(i) /\ i \notin ReadySlots
      /\ \A k \in Slots : k # i => tasks'[k] = tasks[k]
  BY DEF Stores, ReadySlots, is_ready
<1>3. ReadySlots' = ReadySlots \cup {i} \/ ReadySlots' = ReadySlots
  BY <1>2 DEF ReadySlots, is_ready, is_empty
<1>4. WorkersWoken'
  <2>1. CASE task_ready_signaler = {}
    BY <2>1 DEF Stores, Signal, WorkersWoken
  <2>2. CASE task_ready_signaler # {}
    <3>1. PICK w \in task_ready_signaler : task_ready_signaler' = task_ready_signaler \ {w}
      BY <2>2 DEF Stores, Signal
    <3>2. w \in Workers /\ pc[w] = "loop" /\ w \notin Seekers
      BY TypesAre DEF Seekers, LooksForWork
    <3>3. Seekers' = Seekers \cup {w}
      BY <3>1, <3>2 DEF Stores, Seekers, LooksForWork
    <3>4. Cardinality(Seekers)' = Cardinality(Seekers) + 1
      BY <3>2, <3>3, CountsAre, FS_AddElement
    <3>5. Cardinality(ReadySlots)' <= Cardinality(ReadySlots) + 1
      <4> DEFINE more == ReadySlots \cup {i}
      <4>1. Cardinality(more) = Cardinality(ReadySlots) + 1
        BY <1>2, CountsAre, FS_AddElement
      <4> HIDE DEF more
      <4>2. Cardinality(ReadySlots') \in {Cardinality(more), Cardinality(ReadySlots)}
        BY <1>3 DEF more
      <4> QED
        BY <4>1, <4>2, CountsAre
    <3>6. Cardinality(ReadySlots) <= Cardinality(Seekers)
      BY <1>1, <2>2 DEF WorkersWoken
    <3>7. Cardinality(ReadySlots)' \in Nat
      <4>1. IsFiniteSet(ReadySlots')
        BY <1>3, CountsAre, FS_AddElement
      <4> QED
        BY <4>1, FS_CardinalityType
    <3>8. Cardinality(ReadySlots)' <= Cardinality(Seekers)'
      BY <3>4, <3>5, <3>6, <3>7, CountsAre
    <3> QED
      BY <3>8 DEF WorkersWoken
  <2> QED
    BY <2>1, <2>2
<1>5. \A u \in task_done_signaler' : call'[u] = call[u]
  BY TypesAre DEF Stores, MaySubmit, CallEnds, Busy, Sleepers
<1>6. \A k \in Slots : ~is_empty(k) => ~is_empty(k)' /\ tasks'[k].thread_id = tasks[k].thread_id
  BY <1>2 DEF is_empty
<1>7. CallersWoken'
  BY <1>1, <1>5, <1>6, CallersStay DEF Stores
<1> QED
  BY <1>4, <1>7, WakeupsThen

LEMMA InlineWakes ==
  ASSUME PoolInv, NoLostWakeup, NEW t, NEW j, Inline(t, j)
  PROVE  NoLostWakeup'
<1>1. WorkersWoken /\ CallersWoken
  BY WakeupsAre
<1>2. UNCHANGED <<tasks, pc, call, task_ready_signaler, task_done_signaler>>
  BY DEF Inline, Begins
<1>3. WorkersWoken'
  BY <1>1, <1>2, SeekersUnchanged, ReadyUnchanged, SameSeekers
<1>4. CallersWoken'
  BY <1>1, <1>2, CallersStay DEF is_empty
<1> QED
  BY <1>3, <1>4, WakeupsThen

LEMMA TakesWakes ==
  ASSUME PoolInv, NoLostWakeup, NEW w, NEW i, Takes(w, i)
  PROVE  NoLostWakeup'
<1>1. WorkersWoken /\ CallersWoken
  BY WakeupsAre
<1>2. /\ i \in Slots /\ i \in ReadySlots /\ \A k \in Slots : k # i => tasks'[k] = tasks[k]
      /\ tasks'[i].is_being_processed = TRUE /\ tasks'[i].task_id = tasks[i].task_id
      /\ tasks'[i].thread_id = tasks[i].thread_id
      /\ UNCHANGED <<call, task_ready_signaler, task_done_signaler>>
  BY DEF Takes, Begins, ReadySlots
<1>3. ReadySlots' = ReadySlots \ {i}
  BY <1>2 DEF ReadySlots, is_ready, is_empty
<1>4. w \in Seekers /\ Seekers' = Seekers \ {w}
  BY <1>2, TypesAre DEF Takes, Seekers, LooksForWork
<1>5. Cardinality(ReadySlots)' = Cardinality(ReadySlots) - 1
  BY <1>2, <1>3, CountsAre, FS_RemoveElement
<1>6. Cardinality(Seekers)' = Cardinality(Seekers) - 1
  BY <1>4, CountsAre, FS_RemoveElement
<1>7. WorkersWoken'
  BY <1>1, <1>2, <1>5, <1>6, CountsAre DEF WorkersWoken
<1>8. CallersWoken'
  BY <1>1, <1>2, CallersStay DEF is_empty
<1> QED
  BY <1>7, <1>8, WakeupsThen

LEMMA FinishesWakes ==
  ASSUME PoolInv, NoLostWakeup, NEW w, NEW i, Finishes(w, i)
  PROVE  NoLostWakeup'
<1>1. WorkersWoken /\ CallersWoken
  BY WakeupsAre
<1>2. w \in Workers /\ stack[w] # <<>> /\ stack[w][1].slot = i
  BY StackIs, InvTyped DEF Finishes, Threads
<1>3. pc[w] = "run" /\ w \notin task_ready_signaler /\ w \notin Seekers
  BY <1>2, TypesAre DEF PoolInv, StacksOK, Seekers, LooksForWork
<1>4. Seekers' = Seekers \cup {w}
  BY <1>2, <1>3, TypesAre DEF Finishes, Seekers, LooksForWork
<1>5. ReadySlots' = ReadySlots
  <2>1. i \in Slots /\ tasks[i].is_being_processed
    BY <1>2, SlotsNow DEF RunsSlot
  <2> QED
    BY <2>1 DEF Finishes, ReadySlots, is_ready, is_empty
<1>6. Cardinality(Seekers)' = Cardinality(Seekers) + 1
  BY <1>3, <1>4, CountsAre, FS_AddElement
<1>7. WorkersWoken'
  BY <1>1, <1>5, <1>6, CountsAre DEF WorkersWoken, Finishes
<1>8. CallersWoken'
  BY DEF Finishes, CallersWoken
<1> QED
  BY <1>7, <1>8, WakeupsThen

LEMMA SleepWakes ==
  ASSUME PoolInv, NoLostWakeup, NEW t, WaitSleeps(t) \/ \E j : AddSleepsIn(t, j)
  PROVE  NoLostWakeup'
<1>1. WorkersWoken /\ CallersWoken
  BY WakeupsAre
<1>2. /\ UNCHANGED <<tasks, pc, task_ready_signaler>> /\ t \in Threads
      /\ task_done_signaler' = task_done_signaler \cup {t}
  BY DEF WaitSleeps, AddSleepsIn, MaySubmit, Busy
<1>3. WorkersWoken'
  BY <1>1, <1>2, SeekersUnchanged, ReadyUnchanged, SameSeekers
<1>4. /\ EmptySlots' = EmptySlots
      /\ \A u : \A k \in Slots : Pending(u, k)' <=> Pending(u, k)
  BY <1>2 DEF EmptySlots, is_empty, Pending
<1>5. \A u \in Threads : u # t => call'[u] = call[u]
  BY TypesAre DEF WaitSleeps, AddSleepsIn
<1>6. WaitsFor(t)'
  <2>1. CASE WaitSleeps(t)
    <3>1. PICK op \in {"wait_for_task", "wait_for_all_tasks"}, arg \in Jobs \cup {NoJob} :
            /\ call' = [call EXCEPT ![t] = [op |-> op, arg |-> arg]]
            /\ op = "wait_for_all_tasks" => \E i \in Slots : Pending(t, i)
      BY <2>1 DEF WaitSleeps
    <3>2. call'[t].op = op
      BY <1>2, <3>1, TypesAre
    <3> QED
      BY <1>4, <3>1, <3>2 DEF WaitsFor
  <2>2. ASSUME NEW j, AddSleepsIn(t, j) PROVE WaitsFor(t)'
    <3>1. call'[t].op = "add_task" /\ EmptySlots = {}
      BY <1>2, <2>2, TypesAre DEF AddSleepsIn
    <3> QED
      BY <1>4, <3>1 DEF WaitsFor
  <2> QED
    BY <2>1, <2>2
<1>7. \A u \in task_done_signaler : u # t => WaitsFor(u)'
  BY <1>1, <1>4, <1>5, TypesAre DEF CallersWoken, WaitsFor, Sleepers
<1>8. CallersWoken'
  BY <1>2, <1>6, <1>7 DEF CallersWoken
<1> QED
  BY <1>3, <1>8, WakeupsThen

LEMMA WorkerWaitsWakes ==
  ASSUME PoolInv, NoLostWakeup, NEW w, WorkerWaits(w)
  PROVE  NoLostWakeup'
<1>1. WorkersWoken /\ CallersWoken
  BY WakeupsAre
<1>2. w \in Workers /\ UNCHANGED <<tasks, call, task_done_signaler>>
  BY DEF WorkerWaits
<1>3. ReadySlots' = ReadySlots
  BY <1>2, ReadyUnchanged
<1>4. CASE ReadySlots = {}
  <2>1. Cardinality(ReadySlots)' = 0
    BY <1>3, <1>4, FS_EmptySet
  <2>2. Seekers' \in SUBSET Workers /\ IsFiniteSet(Workers)
    BY FS_Subset DEF Seekers, Threads
  <2>3. Cardinality(Seekers)' \in Nat
    BY <2>2, FS_Subset, FS_CardinalityType
  <2> QED
    BY <1>1, <1>2, <2>1, <2>3, CallersStay, WakeupsThen DEF WorkersWoken, is_empty
<1>5. CASE pc[w] = "start" /\ pc' = [pc EXCEPT ![w] = "loop"] /\ UNCHANGED task_ready_signaler
  <2>1. w \notin task_ready_signaler
    BY <1>5, TypesAre
  <2>2. Seekers' = Seekers
    BY <1>2, <1>5, <2>1, TypesAre DEF Seekers, LooksForWork
  <2>3. WorkersWoken'
    BY <1>1, <1>3, <1>5, <2>2, SameSeekers
  <2> QED
    BY <1>1, <1>2, <2>3, CallersStay, WakeupsThen DEF is_empty
<1>6. CASE we_are_destructing
  <2>1. AllTasksEnded
    BY <1>6 DEF PoolInv, LifeOK
  <2>2. ReadySlots = {}
    BY <2>1 DEF AllTasksEnded, EmptySlots, ReadySlots, is_ready
  <2> QED
    BY <1>4, <2>2
<1> QED
  BY <1>4, <1>5, <1>6 DEF WorkerWaits

LEMMA DestructsWakes ==
  ASSUME PoolInv, NoLostWakeup, NEW c, Destructs(c)
  PROVE  NoLostWakeup'
<1>1. WorkersWoken /\ CallersWoken
  BY WakeupsAre
<1>2. c \in Threads /\ UNCHANGED <<tasks, pc>>
  BY DEF Destructs, Threads
<1>3. /\ EmptySlots' = EmptySlots /\ ReadySlots' = ReadySlots
      /\ \A u : \A k \in Slots : Pending(u, k)' <=> Pending(u, k)
  BY <1>2, ReadyUnchanged DEF EmptySlots, is_empty, Pending
<1>4. WorkersWoken'
  <2>1. CASE task_ready_signaler' = {}
    BY <2>1 DEF WorkersWoken
  <2>2. CASE UNCHANGED task_ready_signaler
    BY <1>1, <1>2, <1>3, <2>2, SeekersUnchanged, SameSeekers
  <2> QED
    BY <2>1, <2>2 DEF Destructs
<1>5. \A u \in Threads : u # c => call'[u] = call[u]
  BY TypesAre DEF Destructs
<1>6. \A u \in task_done_signaler : u # c => WaitsFor(u)'
  BY <1>1, <1>3, <1>5, TypesAre DEF CallersWoken, WaitsFor, Sleepers
<1>7. c \in task_done_signaler' => WaitsFor(c)'
  <2>1. CASE ~AllTasksEnded /\ call' = [call EXCEPT ![c] = [op |-> "shutdown", arg |-> NoJob]]
    <3>1. call'[c].op = "shutdown"
      BY <1>2, <2>1, TypesAre
    <3> QED
      BY <1>3, <2>1, <3>1 DEF WaitsFor, AllTasksEnded
  <2>2. CASE c \notin task_done_signaler'
    BY <2>2
  <2> QED
    BY <2>1, <2>2 DEF Destructs
<1>8. task_done_signaler' \subseteq task_done_signaler \cup {c}
  BY DEF Destructs
<1>9. CallersWoken'
  BY <1>6, <1>7, <1>8 DEF CallersWoken
<1> QED
  BY <1>4, <1>9, WakeupsThen

LEMMA KindsWake ==
  ASSUME PoolInv, NoLostWakeup, Kinds
  PROVE  NoLostWakeup'
<1>1. ASSUME NEW t, NEW n, GoesOn(t, n) \/ Throws(t, n) \/ \E i \in Slots : Rethrows(t, n, i)
      PROVE  NoLostWakeup'
  BY <1>1, CutWakes DEF GoesOn, Throws, Rethrows
<1>2. CASE UNCHANGED vars
  <2>1. UNCHANGED <<tasks, pc, call, task_ready_signaler, task_done_signaler>>
    BY <1>2 DEF vars, pool, threads
  <2>2. WorkersWoken /\ CallersWoken
    BY WakeupsAre
  <2>3. WorkersWoken'
    BY <2>1, <2>2, SeekersUnchanged, ReadyUnchanged, SameSeekers
  <2>4. CallersWoken'
    BY <2>1, <2>2, CallersStay DEF is_empty
  <2> QED
    BY <2>3, <2>4, WakeupsThen
<1> QED
  BY <1>1, <1>2, StoresWakes, InlineWakes, TakesWakes, FinishesWakes, SleepWakes,
     WorkerWaitsWakes, DestructsWakes DEF Kinds

LEMMA InitWoken == Init => NoLostWakeup
BY DEF Init, NoLostWakeup

\* One signal() for each task that add_task() stores and one broadcast() for each
\* that ends reach everyone: while a worker sleeps, as many others are on their
\* way as tasks are ready, and whoever sleeps in add_task(), a wait function or
\* the destructor has a reason to.
THEOREM PoolWakeups == Spec => []NoLostWakeup
<1>1. Init => PoolInv /\ NoLostWakeup
  BY InitHolds, InitWoken
<1>2. PoolInv /\ NoLostWakeup /\ [Next]_vars => PoolInv' /\ NoLostWakeup'
  BY StepKeepsInv, StepsAreKinds, KindsWake
<1> QED
  BY <1>1, <1>2, PTL DEF Spec
=============================================================================
