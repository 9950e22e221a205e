---------------------- MODULE MultithreadedObject_proofs ----------------------
(***************************************************************************)
(* The safety properties of MultithreadedObject, for any number of         *)
(* functions, threads and clients.  ThreadsCounted counts with             *)
(* cardinalities; the inductive invariant says instead that no function is *)
(* twice in the queue, and adds where a thread is that runs a function.    *)
(***************************************************************************)
EXTENDS MultithreadedObject, FiniteSetTheorems, SequenceTheorems, TLAPS

ObjectType ==
  /\ TypeOK
  /\ pc = [x \in Threads \cup Clients |-> pc[x]]
  /\ s \subseteq Threads \cup Clients
  /\ \A t \in Threads : thread_ids[t] # None <=> pc[t] \in {"work", "should_stop", "return"}

Counts ==
  /\ threads_started = Cardinality(Spawned) + Cardinality(Alive)
  /\ Cardinality(Spawned) <= Len(dead_threads)

Distinct(q) == \A i, j \in 1..Len(q) : q[i] = q[j] => i = j
Holds(q, f) == \E i \in 1..Len(q) : q[i] = f

\* A function is in one place.
OnePlace ==
  /\ Distinct(dead_threads)
  /\ \A t, u \in Alive : thread_ids[t] = thread_ids[u] => t = u
  /\ \A t \in Alive : ~Holds(dead_threads, thread_ids[t])

ObjectInv == ObjectType /\ Counts /\ OnePlace

USE ObjectAssumption

-----------------------------------------------------------------------------
(* Sets of threads and the queue *)

\* Sets of threads are finite.
LEMMA CountsAreNat ==
  /\ IsFiniteSet(Spawned) /\ Cardinality(Spawned) \in Nat
  /\ IsFiniteSet(Alive) /\ Cardinality(Alive) \in Nat
<1>1. Spawned \subseteq Threads /\ Alive \subseteq Threads /\ IsFiniteSet(Threads)
  BY DEF Spawned, Alive
<1> QED
  BY <1>1, FS_Subset, FS_CardinalityType

\* A set that is apart from the spawned threads becomes spawned.
LEMMA SpawnedGrows ==
  ASSUME NEW new \in SUBSET (Threads \ Spawned)
  PROVE  /\ IsFiniteSet(new) /\ Cardinality(new) \in Nat
         /\ Cardinality(Spawned \cup new) = Cardinality(Spawned) + Cardinality(new)
<1>1. IsFiniteSet(Threads) /\ new \subseteq Threads /\ Spawned \cap new = {}
  OBVIOUS
<1>2. IsFiniteSet(new) /\ Cardinality(new) \in Nat
  BY <1>1, FS_Subset, FS_CardinalityType
<1>3. Cardinality(Spawned \cap new) = 0
  BY <1>1, FS_EmptySet
<1>4. Cardinality(Spawned \cup new) =
        Cardinality(Spawned) + Cardinality(new) - Cardinality(Spawned \cap new)
  BY <1>2, CountsAreNat, FS_Union
<1> QED
  BY <1>2, <1>3, <1>4, CountsAreNat

\* A function that is not in the queue joins it.
LEMMA AppendDistinct ==
  ASSUME NEW q \in Seq(Functions), Distinct(q), NEW f \in Functions, ~Holds(q, f)
  PROVE  /\ Append(q, f) \in Seq(Functions) /\ Len(Append(q, f)) = Len(q) + 1
         /\ Distinct(Append(q, f))
         /\ \A g : Holds(Append(q, f), g) <=> Holds(q, g) \/ g = f
<1> DEFINE r == Append(q, f)
<1>1. /\ r \in Seq(Functions) /\ Len(q) \in Nat /\ Len(r) = Len(q) + 1
      /\ \A i \in 1..Len(q) : r[i] = q[i]
      /\ r[Len(q) + 1] = f
  OBVIOUS
<1>2. \A i \in 1..Len(r) : i \in 1..Len(q) \/ i = Len(q) + 1
  BY <1>1
<1>3. \A i \in 1..Len(q) : i \in 1..Len(r) /\ q[i] # f
  BY <1>1 DEF Holds
<1>4. Len(q) + 1 \in 1..Len(r)
  BY <1>1
<1> HIDE DEF r
<1>5. Distinct(r)
  BY <1>1, <1>2, <1>3 DEF Distinct
<1>6. ASSUME NEW g PROVE Holds(r, g) <=> Holds(q, g) \/ g = f
  BY <1>1, <1>2, <1>3, <1>4 DEF Holds
<1> QED
  BY <1>1, <1>5, <1>6 DEF r

\* The first function leaves the queue and is not in it any more.
LEMMA TailDistinct ==
  ASSUME NEW q \in Seq(Functions), Distinct(q), q # <<>>
  PROVE  /\ Head(q) \in Functions /\ Holds(q, Head(q))
         /\ Tail(q) \in Seq(Functions) /\ Len(Tail(q)) = Len(q) - 1
         /\ Distinct(Tail(q)) /\ ~Holds(Tail(q), Head(q))
         /\ \A g : Holds(Tail(q), g) => Holds(q, g)
<1> DEFINE r == Tail(q)
<1>1. /\ Len(q) \in Nat \ {0} /\ Head(q) = q[1] /\ 1 \in 1..Len(q)
      /\ r \in Seq(Functions) /\ Len(r) = Len(q) - 1
      /\ \A i \in 1..Len(r) : r[i] = q[i + 1]
      /\ Head(q) \in Functions
  BY HeadTailProperties, EmptySeq
<1>2. \A i \in 1..Len(r) : i + 1 \in 1..Len(q) /\ i + 1 # 1 /\ i \in Nat
  BY <1>1
<1> HIDE DEF r
<1>3. Distinct(r)
  BY <1>1, <1>2 DEF Distinct
<1>4. ~Holds(r, Head(q))
  BY <1>1, <1>2 DEF Holds, Distinct
<1>5. ASSUME NEW g, Holds(r, g) PROVE Holds(q, g)
  BY <1>1, <1>2, <1>5 DEF Holds
<1> QED
  BY <1>1, <1>3, <1>4, <1>5 DEF r, Holds

\* What ThreadsCounted says with cardinalities.
LEMMA DistinctCounts ==
  ASSUME NEW q \in Seq(Functions), Distinct(q)
  PROVE  Cardinality({q[i] : i \in DOMAIN q}) = Len(q)
<1> DEFINE S == {q[i] : i \in DOMAIN q}
<1>1. DOMAIN q = 1..Len(q) /\ Len(q) \in Nat /\ q \in [1..Len(q) -> S]
  BY LenProperties
<1>2. IsFiniteSet(1..Len(q)) /\ Cardinality(1..Len(q)) = Len(q)
  BY <1>1, FS_Interval
<1>3. q \in Surjection(1..Len(q), S)
  BY <1>1 DEF Surjection
<1>4. q \in Injection(1..Len(q), S)
  BY <1>1 DEF Injection, IsInjective, Distinct
<1> QED
  BY <1>2, <1>3, <1>4, FS_Surjection

\* Distinct and apart as ThreadsCounted has it.
LEMMA InvCounts == ObjectInv => ThreadsCounted
<1> SUFFICES ASSUME ObjectInv PROVE ThreadsCounted
  OBVIOUS
<1>1. dead_threads \in Seq(Functions)
  BY DEF ObjectInv, ObjectType, TypeOK
<1>2. Cardinality(Dead) = Len(dead_threads)
  BY <1>1, DistinctCounts DEF ObjectInv, OnePlace, Dead
<1>3. Dead \cap Running = {}
  <2>1. \A i \in DOMAIN dead_threads : i \in 1..Len(dead_threads)
    BY <1>1, LenProperties
  <2> QED
    BY <2>1 DEF Dead, Running, ObjectInv, OnePlace, Holds
<1>4. \A t \in Threads : pc[t] \in {"work", "should_stop"} => t \in Alive
  BY DEF ObjectInv, ObjectType, Alive
<1> QED
  BY <1>2, <1>3, <1>4 DEF ObjectInv, ObjectType, Counts, OnePlace, ThreadsCounted

-----------------------------------------------------------------------------
(* Steps *)

\* One of the threads and clients goes on.
LEMMA GoesOn ==
  ASSUME ObjectInv, NEW x \in Threads \cup Clients, NEW where, Goes(x, where)
  PROVE  /\ pc' = [y \in Threads \cup Clients |-> pc'[y]]
         /\ pc'[x] = where
         /\ \A y \in Threads \cup Clients : y # x => pc'[y] = pc[y]
  BY DEF Goes, ObjectInv, ObjectType

\* Steps that move no function and begin or end no thread.
LEMMA Quiet ==
  ASSUME ObjectInv, ObjectType',
         UNCHANGED <<thread_ids, dead_threads, threads_started>>, Spawned' = Spawned
  PROVE  ObjectInv'
<1>1. Alive' = Alive
  BY DEF Alive
<1>2. Counts'
  BY <1>1 DEF ObjectInv, Counts
<1>3. OnePlace'
  BY <1>1 DEF ObjectInv, OnePlace
<1> QED
  BY <1>2, <1>3 DEF ObjectInv

\* start(), with a queue to which a function may have been added.
LEMMA StartStep ==
  ASSUME ObjectInv, NEW dead \in Seq(Functions), NEW catches \in BOOLEAN,
         Len(dead) >= Len(dead_threads), Distinct(dead),
         \A t \in Alive : ~Holds(dead, thread_ids[t]),
         StartWith(dead, catches)
  PROVE  ObjectInv'
<1> USE DEF Broadcast
<1>1. PICK new \in SUBSET {t \in Threads : pc[t] = "none"} :
        /\ Cardinality(new) <= Missing(dead)
        /\ pc' = [x \in DOMAIN pc |-> IF x \in new THEN "spawned" ELSE pc[x]]
        /\ threads_started' = threads_started + Cardinality(new)
        /\ dead_threads' = dead /\ thread_ids' = thread_ids
        /\ s' \in {s, {}}
        /\ is_running_' \in BOOLEAN /\ should_stop_' \in BOOLEAN /\ failed' \in BOOLEAN
  BY DEF StartWith, Started
<1>2. /\ new \in SUBSET (Threads \ Spawned) /\ Spawned' = Spawned \cup new
      /\ \A x \in Threads \cup Clients : pc'[x] = IF x \in new THEN "spawned" ELSE pc[x]
      /\ DOMAIN pc = Threads \cup Clients
  BY <1>1 DEF Spawned, ObjectInv, ObjectType
<1>3. Alive' = Alive
  BY <1>1 DEF Alive
<1>4. Counts'
  <2>1. Cardinality(Spawned') = Cardinality(Spawned) + Cardinality(new) /\ Cardinality(new) \in Nat
    BY <1>2, SpawnedGrows
  <2>2. Cardinality(new) <= Len(dead) - Cardinality(Spawned)
    BY <1>1, CountsAreNat DEF Missing, Registered, ObjectInv, Counts
  <2> QED
    BY <1>1, <1>3, <2>1, <2>2, CountsAreNat DEF ObjectInv, Counts
<1>5. OnePlace'
  BY <1>1, <1>3 DEF ObjectInv, OnePlace
<1>6. ObjectType'
  <2>1. threads_started' \in Nat
    <3>1. Cardinality(new) \in Nat
      BY <1>2, SpawnedGrows
    <3> QED
      BY <1>1, <3>1 DEF ObjectInv, ObjectType, TypeOK
  <2>2. \A x \in s' : pc'[x] \in {"should_stop", "wait", "clear"}
    <3>1. \A x \in s : x \notin new /\ pc[x] \in {"should_stop", "wait", "clear"}
      BY <1>1 DEF ObjectInv, ObjectType, TypeOK
    <3>2. \A x \in s : x \in Threads \cup Clients
      BY DEF ObjectInv, ObjectType
    <3> QED
      BY <1>1, <1>2, <3>1, <3>2
  <2>3. TypeOK'
    BY <1>1, <1>2, <2>1, <2>2 DEF ObjectInv, ObjectType, TypeOK
  <2> QED
    BY <1>1, <1>2, <2>3 DEF ObjectInv, ObjectType
<1> QED
  BY <1>4, <1>5, <1>6 DEF ObjectInv

\* register_thread(), which also starts the function when the object runs.
LEMMA RegisterStep ==
  ASSUME ObjectInv, NEW c \in Clients, NEW f \in Functions, register_thread(c, f)
  PROVE  ObjectInv'
<1> DEFINE dead == Append(dead_threads, f)
<1>1. dead_threads \in Seq(Functions) /\ Distinct(dead_threads) /\ ~Holds(dead_threads, f)
  BY LenProperties DEF ObjectInv, ObjectType, TypeOK, OnePlace, register_thread, Dead, Holds
<1>2. /\ dead \in Seq(Functions) /\ Len(dead) = Len(dead_threads) + 1 /\ Distinct(dead)
      /\ \A g : Holds(dead, g) <=> Holds(dead_threads, g) \/ g = f
  BY <1>1, AppendDistinct
<1>3. \A t \in Alive : ~Holds(dead, thread_ids[t])
  BY <1>2 DEF ObjectInv, OnePlace, register_thread, Running
<1>4. Len(dead_threads) \in Nat /\ Len(dead) >= Len(dead_threads)
  BY <1>1, <1>2
<1>5. CASE is_running_ /\ StartWith(dead, TRUE)
  BY <1>2, <1>3, <1>4, <1>5, StartStep
<1>6. CASE dead_threads' = dead /\ UNCHANGED <<thread_ids, threads_started, flags, s, pc, failed>>
  <2>1. Alive' = Alive /\ Spawned' = Spawned
    BY <1>6 DEF Alive, Spawned
  <2>2. Counts'
    BY <1>2, <1>4, <1>6, <2>1, CountsAreNat DEF ObjectInv, Counts
  <2>3. OnePlace'
    BY <1>2, <1>3, <1>6, <2>1 DEF ObjectInv, OnePlace
  <2>4. ObjectType'
    BY <1>2, <1>6 DEF ObjectInv, ObjectType, TypeOK, flags
  <2> QED
    BY <2>2, <2>3, <2>4 DEF ObjectInv
<1> QED
  BY <1>5, <1>6 DEF register_thread

\* The other calls of clients, and their wakeups.
LEMMA ClientStep ==
  ASSUME ObjectInv, NEW c \in Clients,
         Pause(c) \/ Stop(c) \/ Wait(c) \/ Clear(c) \/ ClientWakes(c)
  PROVE  ObjectInv'
<1> USE DEF At, Broadcast, flags
<1>1. c \notin Threads /\ c \in Threads \cup Clients
  OBVIOUS
<1> DEFINE Sleeps == pc'[c] \in {"wait", "clear"} /\ s' \in {s \cup {c}, {c}}
           Moves ==
             /\ UNCHANGED <<thread_ids, threads_started>>
             /\ s' \in {s, {}} \/ Sleeps
             /\ c \notin s
             /\ UNCHANGED pc \/ (\E w \in {"idle", "wait", "clear"} : Goes(c, w))
             /\ dead_threads' \in Seq(Functions)
             /\ is_running_' \in BOOLEAN /\ should_stop_' \in BOOLEAN /\ failed' \in BOOLEAN
<1>2. ASSUME Moves
      PROVE  ObjectType' /\ Spawned' = Spawned /\ Alive' = Alive
  <2>1. /\ pc' = [y \in Threads \cup Clients |-> pc'[y]]
        /\ pc'[c] \in {"idle", "wait", "clear"}
        /\ \A y \in Threads \cup Clients : y # c => pc'[y] = pc[y]
    BY <1>1, <1>2, GoesOn DEF ObjectInv, ObjectType, TypeOK
  <2>2. /\ \A x \in s : x \in Threads \cup Clients /\ pc[x] \in {"should_stop", "wait", "clear"} /\ x # c
        /\ \A x \in s' : x \in s \/ (x = c /\ pc'[c] \in {"wait", "clear"})
    BY <1>2 DEF ObjectInv, ObjectType, TypeOK
  <2>3. \A x \in s' : x \in Threads \cup Clients /\ pc'[x] \in {"should_stop", "wait", "clear"}
    BY <1>1, <2>1, <2>2
  <2>4. \A t \in Threads : pc'[t] = pc[t]
    BY <1>1, <2>1
  <2>5. \A d \in Clients : pc'[d] \in {"idle", "wait", "clear"}
    BY <2>1 DEF ObjectInv, ObjectType, TypeOK
  <2>6. TypeOK'
    BY <1>2, <2>3, <2>4, <2>5 DEF ObjectInv, ObjectType, TypeOK
  <2>7. ObjectType'
    BY <1>2, <2>1, <2>3, <2>4, <2>6 DEF ObjectInv, ObjectType
  <2> QED
    BY <1>2, <2>4, <2>7 DEF Spawned, Alive
<1>3. /\ dead_threads \in Seq(Functions) /\ <<>> \in Seq(Functions)
      /\ is_running_ \in BOOLEAN /\ should_stop_ \in BOOLEAN /\ failed \in BOOLEAN
  BY EmptySeq DEF ObjectInv, ObjectType, TypeOK
<1>4. ASSUME NEW w \in {"wait", "clear"}, Goes(c, w) PROVE pc'[c] = w
  BY <1>1, <1>4, GoesOn
<1>5. CASE Pause(c) \/ Stop(c) \/ Wait(c) \/ WaitWakes(c)
  <2>1. UNCHANGED <<thread_ids, dead_threads, threads_started>>
    BY <1>5 DEF Pause, Stop, Stops, Wait, WaitWakes, WaitFrom
  <2>2. ObjectType' /\ Spawned' = Spawned
    <3>1. CASE Pause(c) \/ Stop(c)
      <4>1. UNCHANGED pc /\ s' \in {s, {}} /\ c \notin s
        BY <3>1 DEF Pause, Stop
      <4>2. is_running_' \in BOOLEAN /\ should_stop_' \in BOOLEAN /\ failed' \in BOOLEAN
        BY <1>3, <3>1 DEF Pause, Stop, Stops
      <4> QED
        BY <1>2, <1>3, <2>1, <4>1, <4>2
    <3>2. CASE Wait(c) \/ WaitWakes(c)
      <4>1. c \notin s /\ UNCHANGED <<is_running_, should_stop_, failed>>
        BY <3>2 DEF Wait, WaitWakes, WaitFrom
      <4>2. (s' = s \cup {c} /\ Goes(c, "wait")) \/ (s' = s /\ Goes(c, "idle"))
        BY <3>2 DEF Wait, WaitWakes, WaitFrom
      <4>3. s' \in {s, {}} \/ Sleeps
        BY <1>4, <4>2
      <4> QED
        BY <1>2, <1>3, <2>1, <4>1, <4>2, <4>3
    <3> QED
      BY <1>5, <3>1, <3>2
  <2> QED
    BY <2>1, <2>2, Quiet
<1>6. CASE Clear(c) \/ ClearWakes(c)
  <2>1. /\ UNCHANGED <<thread_ids, threads_started>>
        /\ \/ dead_threads' = dead_threads
           \/ threads_started = 0 /\ dead_threads' = <<>>
    BY <1>6 DEF Clear, ClearWakes, ClearFrom, MustWait, ObjectInv, ObjectType, TypeOK
  <2>2. ObjectType' /\ Spawned' = Spawned /\ Alive' = Alive
    <3>1. c \notin s
      BY <1>6 DEF Clear, ClearWakes
    <3>2. \/ s' \in {s \cup {c}, {c}} /\ Goes(c, "clear")
          \/ s' \in {s, {}} /\ Goes(c, "idle")
      BY <1>6 DEF Clear, ClearWakes, ClearFrom
    <3>3. s' \in {s, {}} \/ Sleeps
      BY <1>4, <3>2
    <3>4. is_running_' \in BOOLEAN /\ should_stop_' \in BOOLEAN /\ failed' \in BOOLEAN
      BY <1>3, <1>6 DEF Clear, ClearWakes
    <3>5. dead_threads' \in Seq(Functions)
      BY <1>3, <2>1
    <3> QED
      BY <1>2, <2>1, <3>1, <3>2, <3>3, <3>4, <3>5
  <2>3. CASE dead_threads' = dead_threads
    BY <2>1, <2>2, <2>3, Quiet
  <2>4. CASE threads_started = 0 /\ dead_threads' = <<>>
    <3>1. Cardinality(Spawned) = 0 /\ Alive = {}
      BY <2>4, CountsAreNat, FS_EmptySet DEF ObjectInv, Counts
    <3>2. Len(dead_threads') = 0
      BY <2>4
    <3>3. Counts'
      BY <2>1, <2>2, <3>1, <3>2 DEF ObjectInv, Counts
    <3>4. OnePlace'
      BY <2>1, <2>2, <3>1, <3>2 DEF OnePlace, Distinct
    <3> QED
      BY <2>2, <3>3, <3>4 DEF ObjectInv
  <2> QED
    BY <2>1, <2>3, <2>4
<1> QED
  BY <1>5, <1>6 DEF ClientWakes

\* What the variables take when a thread goes on to w.
LEMMA ThreadType ==
  ASSUME ObjectInv, NEW t \in Threads,
         NEW w \in {"none", "spawned", "work", "should_stop", "return"}, Goes(t, w),
         s' \in {s, {}} \/ (s' = s \cup {t} /\ w = "should_stop"), t \notin s,
         thread_ids' \in [Threads -> Functions \cup {None}],
         \A u \in Threads : u # t => thread_ids'[u] = thread_ids[u],
         thread_ids'[t] # None <=> w \in {"work", "should_stop", "return"},
         dead_threads' \in Seq(Functions), threads_started' \in Nat,
         is_running_' \in BOOLEAN, should_stop_' \in BOOLEAN, failed' \in BOOLEAN
  PROVE  ObjectType'
<1>1. /\ t \in Threads \cup Clients
      /\ \A c \in Clients : c # t /\ c \in Threads \cup Clients
      /\ \A u \in Threads : u \in Threads \cup Clients
  OBVIOUS
<1>2. /\ pc' = [y \in Threads \cup Clients |-> pc'[y]]
      /\ pc'[t] = w
      /\ \A y \in Threads \cup Clients : y # t => pc'[y] = pc[y]
  BY <1>1, GoesOn
<1>3. \A x \in s' : x \in Threads \cup Clients /\ pc'[x] \in {"should_stop", "wait", "clear"}
  <2>1. /\ \A x \in s : x \in Threads \cup Clients /\ pc[x] \in {"should_stop", "wait", "clear"} /\ x # t
        /\ \A x \in s' : x \in s \/ (x = t /\ w = "should_stop")
    BY DEF ObjectInv, ObjectType, TypeOK
  <2> QED
    BY <1>1, <1>2, <2>1
<1>4. /\ \A u \in Threads : pc'[u] \in {"none", "spawned", "work", "should_stop", "return"}
      /\ \A c \in Clients : pc'[c] \in {"idle", "wait", "clear"}
  BY <1>1, <1>2 DEF ObjectInv, ObjectType, TypeOK
<1>5. \A u \in Threads : thread_ids'[u] # None <=> pc'[u] \in {"work", "should_stop", "return"}
  BY <1>1, <1>2 DEF ObjectInv, ObjectType
<1>6. TypeOK'
  BY <1>3, <1>4 DEF TypeOK
<1> QED
  BY <1>2, <1>3, <1>5, <1>6 DEF ObjectType

\* thread_helper() takes a function: there is one, since a thread on its way counts.
LEMMA BeginStep == ASSUME ObjectInv, NEW t \in Threads, Begin(t) PROVE ObjectInv'
<1> USE DEF At, Goes, Dequeued, flags
<1>1. /\ pc[t] = "spawned" /\ t \notin s /\ t \in Spawned /\ t \notin Alive
      /\ UNCHANGED <<threads_started, flags, s, failed>>
  BY DEF Begin, Spawned, Alive, ObjectInv, ObjectType
<1>2. dead_threads # <<>>
  <2>1. Cardinality(Spawned) # 0
    BY <1>1, CountsAreNat, FS_EmptySet
  <2>2. dead_threads = <<>> => Len(dead_threads) = 0
    OBVIOUS
  <2> QED
    BY <2>1, <2>2, CountsAreNat DEF ObjectInv, Counts
<1> DEFINE f == Head(dead_threads)
<1>3. /\ thread_ids' = [thread_ids EXCEPT ![t] = f]
      /\ dead_threads' = Tail(dead_threads)
      /\ pc' = [pc EXCEPT ![t] = "work"]
  BY <1>2 DEF Begin
<1>4. dead_threads \in Seq(Functions) /\ Distinct(dead_threads)
  BY DEF ObjectInv, ObjectType, TypeOK, OnePlace
<1>5. /\ f \in Functions /\ Holds(dead_threads, f)
      /\ Tail(dead_threads) \in Seq(Functions) /\ Len(Tail(dead_threads)) = Len(dead_threads) - 1
      /\ Distinct(Tail(dead_threads)) /\ ~Holds(Tail(dead_threads), f)
      /\ \A g : Holds(Tail(dead_threads), g) => Holds(dead_threads, g)
      /\ Len(dead_threads) \in Nat
  BY <1>2, <1>4, TailDistinct
<1> HIDE DEF f
<1>6. /\ Alive' = Alive \cup {t} /\ Spawned' = Spawned \ {t}
      /\ \A u \in Threads : thread_ids'[u] = IF u = t THEN f ELSE thread_ids[u]
  BY <1>1, <1>3, <1>5 DEF Alive, Spawned, ObjectInv, ObjectType, TypeOK
<1>7. Counts'
  <2>1. Cardinality(Alive') = Cardinality(Alive) + 1 /\ Cardinality(Spawned') = Cardinality(Spawned) - 1
    BY <1>1, <1>6, CountsAreNat, FS_AddElement, FS_RemoveElement
  <2> QED
    BY <1>1, <1>3, <1>5, <2>1, CountsAreNat DEF ObjectInv, Counts
<1>8. OnePlace'
  <2>1. \A u \in Alive : thread_ids[u] # f /\ u \in Threads /\ u # t
    BY <1>1, <1>5 DEF ObjectInv, OnePlace, Alive
  <2> QED
    BY <1>3, <1>5, <1>6, <2>1 DEF ObjectInv, OnePlace
<1>9. ObjectType'
  <2>1. thread_ids' \in [Threads -> Functions \cup {None}]
    BY <1>3, <1>5 DEF ObjectInv, ObjectType, TypeOK
  <2>2. /\ is_running_' \in BOOLEAN /\ should_stop_' \in BOOLEAN /\ failed' \in BOOLEAN
        /\ threads_started' \in Nat /\ dead_threads' \in Seq(Functions)
    BY <1>1, <1>3, <1>5 DEF ObjectInv, ObjectType, TypeOK
  <2> QED
    BY <1>1, <1>3, <1>5, <1>6, <2>1, <2>2, ThreadType
<1> QED
  BY <1>7, <1>8, <1>9 DEF ObjectInv

\* A thread ends and puts its function back.
LEMMA EndStep == ASSUME ObjectInv, NEW t \in Threads, End(t) PROVE ObjectInv'
<1> USE DEF At, Goes, Broadcast, flags
<1> DEFINE f == thread_ids[t]
<1>1. /\ pc[t] = "return" /\ t \notin s /\ t \notin Spawned /\ t \in Alive /\ f \in Functions
  BY DEF End, Spawned, Alive, ObjectInv, ObjectType, TypeOK
<1>2. /\ thread_ids' = [thread_ids EXCEPT ![t] = None]
      /\ dead_threads' = Append(dead_threads, f)
      /\ threads_started' = threads_started - 1
      /\ pc' = [pc EXCEPT ![t] = "none"]
      /\ s' \in {s, {}}
      /\ is_running_' \in BOOLEAN /\ should_stop_' \in BOOLEAN /\ failed' \in BOOLEAN
  BY <1>1 DEF End, ObjectInv, ObjectType, TypeOK
<1>3. dead_threads \in Seq(Functions) /\ Distinct(dead_threads) /\ ~Holds(dead_threads, f)
  BY <1>1 DEF ObjectInv, ObjectType, TypeOK, OnePlace
<1>4. /\ dead_threads' \in Seq(Functions) /\ Len(dead_threads') = Len(dead_threads) + 1
      /\ Distinct(dead_threads')
      /\ \A g : Holds(dead_threads', g) <=> Holds(dead_threads, g) \/ g = f
      /\ Len(dead_threads) \in Nat
  BY <1>1, <1>2, <1>3, AppendDistinct
<1>5. /\ Alive' = Alive \ {t} /\ Spawned' = Spawned
      /\ \A u \in Threads : thread_ids'[u] = IF u = t THEN None ELSE thread_ids[u]
  BY <1>1, <1>2 DEF Alive, Spawned, ObjectInv, ObjectType, TypeOK
<1>6. Cardinality(Alive') = Cardinality(Alive) - 1 /\ Cardinality(Alive) # 0
  BY <1>1, <1>5, CountsAreNat, FS_RemoveElement, FS_EmptySet
<1>7. Counts'
  <2>1. threads_started' = Cardinality(Spawned') + Cardinality(Alive')
    BY <1>2, <1>5, <1>6, CountsAreNat DEF ObjectInv, Counts
  <2>2. Cardinality(Spawned') <= Len(dead_threads')
    BY <1>4, <1>5, CountsAreNat DEF ObjectInv, Counts
  <2> QED
    BY <2>1, <2>2 DEF Counts
<1>8. OnePlace'
  <2>1. \A u \in Alive \ {t} : thread_ids[u] # f /\ u \in Threads
    BY <1>1 DEF ObjectInv, OnePlace, Alive
  <2> QED
    BY <1>4, <1>5, <2>1 DEF ObjectInv, OnePlace
<1>9. ObjectType'
  <2>1. threads_started \in Nat /\ threads_started # 0
    BY <1>6, CountsAreNat DEF ObjectInv, Counts
  <2>2. threads_started' \in Nat
    BY <1>2, <2>1
  <2>3. thread_ids' \in [Threads -> Functions \cup {None}]
    BY <1>2 DEF ObjectInv, ObjectType, TypeOK
  <2> QED
    BY <1>1, <1>2, <1>4, <1>5, <2>2, <2>3, ThreadType
<1> QED
  BY <1>7, <1>8, <1>9 DEF ObjectInv

\* should_stop() and a function that returns move no function.
LEMMA ThreadQuiet == ASSUME ObjectInv, NEW t \in Threads, ShouldStop(t) \/ Returns(t) PROVE ObjectInv'
<1>1. UNCHANGED <<thread_ids, dead_threads, threads_started>> /\ Spawned' = Spawned
  BY DEF ShouldStop, Returns, At, Goes, Spawned, ObjectInv, ObjectType
<1>2. /\ t \notin s /\ thread_ids[t] # None
      /\ \E w \in {"work", "should_stop", "return"} :
           /\ Goes(t, w)
           /\ s' = s \/ (s' = s \cup {t} /\ w = "should_stop")
  BY DEF ShouldStop, Returns, At, ObjectInv, ObjectType
<1>3. UNCHANGED <<is_running_, should_stop_, failed>>
  BY DEF ShouldStop, Returns, flags
<1>4. ObjectType'
  BY <1>1, <1>2, <1>3, ThreadType DEF ObjectInv, ObjectType, TypeOK
<1> QED
  BY <1>1, <1>4, Quiet

\* The constructor.
LEMMA InitHolds == Init => ObjectInv
<1> SUFFICES ASSUME Init PROVE ObjectInv
  OBVIOUS
<1>1. Spawned = {} /\ Alive = {}
  BY DEF Init, Spawned, Alive
<1>2. Len(dead_threads) = 0 /\ dead_threads \in Seq(Functions)
  BY EmptySeq DEF Init
<1>3. Counts
  BY <1>1, <1>2, FS_EmptySet DEF Init, Counts
<1>4. OnePlace
  BY <1>1, <1>2 DEF OnePlace, Distinct
<1>5. ObjectType
  BY <1>2 DEF Init, ObjectType, TypeOK
<1> QED
  BY <1>3, <1>4, <1>5 DEF ObjectInv

\* All steps together.
LEMMA StepKeeps == ObjectInv /\ [Next]_vars => ObjectInv'
<1> SUFFICES ASSUME ObjectInv, [Next]_vars PROVE ObjectInv'
  OBVIOUS
<1>1. ASSUME NEW t \in Threads, ThreadStep(t) PROVE ObjectInv'
  BY <1>1, BeginStep, EndStep, ThreadQuiet DEF ThreadStep
<1>2. ASSUME NEW c \in Clients, Start(c) PROVE ObjectInv'
  <2>1. /\ dead_threads \in Seq(Functions) /\ Len(dead_threads) >= Len(dead_threads)
        /\ Distinct(dead_threads) /\ \A t \in Alive : ~Holds(dead_threads, thread_ids[t])
    BY DEF ObjectInv, ObjectType, TypeOK, OnePlace
  <2> QED
    BY <1>2, <2>1, StartStep DEF Start
<1>3. ASSUME NEW c \in Clients, Pause(c) \/ Stop(c) \/ Wait(c) \/ Clear(c) \/ ClientWakes(c) PROVE ObjectInv'
  BY <1>3, ClientStep
<1>4. ASSUME NEW c \in Clients, NEW f \in Functions, register_thread(c, f) PROVE ObjectInv'
  BY <1>4, RegisterStep
<1>5. CASE UNCHANGED vars
  <2>1. ObjectType' /\ Spawned' = Spawned
    BY <1>5 DEF vars, flags, ObjectInv, ObjectType, TypeOK, Spawned
  <2> QED
    BY <1>5, <2>1, Quiet DEF vars
<1> QED
  BY <1>1, <1>2, <1>3, <1>4, <1>5 DEF Next

\* What every step keeps: the types, the counts, and each function in one place.
THEOREM ObjectInvariant == Spec => []ObjectInv
  BY InitHolds, StepKeeps, PTL DEF Spec

\* threads_started is exact, every thread on its way finds a function, and no
\* function is lost or in two places.
THEOREM CountsAreExact == Spec => []ThreadsCounted
  BY ObjectInvariant, InvCounts, PTL

-----------------------------------------------------------------------------
(* Wakeups *)

\* No step leaves a sleeper without a reason.
LEMMA SleepersStep ==
  ASSUME ObjectInv, NoLostWakeup, [Next]_vars
  PROVE  NoLostWakeup'
<1> USE DEF NoLostWakeup, Paused, At, Goes, Broadcast, flags
<1>0. threads_started \in Nat /\ failed \in BOOLEAN /\ is_running_ \in BOOLEAN /\ should_stop_ \in BOOLEAN
  BY DEF ObjectInv, ObjectType, TypeOK
<1>1. ASSUME NEW dead, NEW catches \in BOOLEAN, StartWith(dead, catches)
      PROVE  NoLostWakeup'
  <2>1. PICK new \in SUBSET {t \in Threads : pc[t] = "none"} :
          /\ threads_started' = threads_started + Cardinality(new)
          /\ s' = {} \/ (s' = s /\ failed')
    BY <1>1 DEF StartWith, Started
  <2>2. Cardinality(new) \in Nat
    BY FS_Subset, FS_CardinalityType
  <2> QED
    BY <1>0, <2>1, <2>2
<1>2. ASSUME NEW t \in Threads, ThreadStep(t) PROVE NoLostWakeup'
  <2>1. CASE Begin(t) \/ ShouldStop(t) \/ Returns(t)
    BY <2>1 DEF Begin, ShouldStop, Returns
  <2>2. CASE End(t)
    BY <1>0, <2>2 DEF End
  <2> QED
    BY <1>2, <2>1, <2>2 DEF ThreadStep
<1>3. ASSUME NEW c \in Clients, Pause(c) \/ Stop(c) \/ Wait(c) \/ WaitWakes(c) PROVE NoLostWakeup'
  BY <1>0, <1>3 DEF Pause, Stop, Stops, Wait, WaitWakes, WaitFrom
<1>4. ASSUME NEW c \in Clients, Clear(c) \/ ClearWakes(c) PROVE NoLostWakeup'
  BY <1>0, <1>4 DEF Clear, ClearWakes, ClearFrom, MustWait
<1>5. ASSUME NEW c \in Clients, NEW f \in Functions, register_thread(c, f) PROVE NoLostWakeup'
  <2>1. CASE StartWith(Append(dead_threads, f), TRUE)
    BY <1>1, <2>1
  <2>2. CASE UNCHANGED <<thread_ids, threads_started, flags, s, pc, failed>>
    BY <2>2
  <2> QED
    BY <1>5, <2>1, <2>2 DEF register_thread
<1>6. CASE UNCHANGED vars
  BY <1>6 DEF vars
<1> QED
  BY <1>1, <1>2, <1>3, <1>4, <1>5, <1>6 DEF Next, Start, ClientWakes

\* Nobody sleeps on the signaler who could go on, but after a start() that failed.
THEOREM ObjectWakeups == Spec => []NoLostWakeup
<1>1. Init => NoLostWakeup
  BY DEF Init, NoLostWakeup
<1>2. ObjectInv /\ NoLostWakeup /\ [Next]_vars => NoLostWakeup'
  BY SleepersStep
<1> QED
  BY <1>1, <1>2, ObjectInvariant, PTL DEF Spec
=============================================================================
