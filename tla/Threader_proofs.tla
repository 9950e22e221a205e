---------------------------- MODULE Threader_proofs ----------------------------
(***************************************************************************)
(* The safety properties of Threader, for any number of threads, callers,  *)
(* functions and end handlers.                                             *)
(*                                                                         *)
(* The inductive invariant has four parts: what a thread or a caller holds *)
(* where it is, the counters, the way of a function, and what is left when *)
(* the program ends.  The lemmas about thread_starter() are about the ends *)
(* of an iteration of its loop (Takes, Sleeps, Ends), which are reached    *)
(* from four places.                                                       *)
(***************************************************************************)
EXTENDS Threader, FiniteSetTheorems, TLAPS

Sane ==
  /\ TypeOK
  /\ \A t \in data_ready : pc[t] = "pooled"
  /\ \A t \in Threads : job[t] # NoJob <=> pc[t] \in {"running", "ending"}
  /\ \A t \in Threads : creating[t] # NoJob => pc[t] = "running"

Counted ==
  /\ total_count = Cardinality(Live)
  /\ pool_count = Cardinality(InPool)
  /\ thread_ids = {t \in Live : pc[t] # "spawned"}

\* A function is at a caller, in the place, or in the thread that has started it.
OnItsWay ==
  /\ JobsStartOnce
  /\ \A t \in Threads : job[t] # NoJob => started[job[t]] > 0
  /\ \A x \in Callers : creating[x] \notin accepted \cup refused
  /\ \A x, y \in Callers : creating[x] = creating[y] /\ creating[x] # NoJob => x = y

AtTheEnd ==
  /\ destruct <=> life # "alive"
  /\ destruct => /\ \A t \in Threads : pc[t] \in {"none", "pooled", "late"}
                 /\ \A x \in Callers : creating[x] = NoJob
  /\ life = "destroyed" => Live = {}

ThreaderInv == Sane /\ Counted /\ OnItsWay /\ AtTheEnd

USE ThreaderAssumption

-----------------------------------------------------------------------------
(* Counting *)

\* The sets that are counted are finite.
LEMMA CountsAreNat ==
  /\ IsFiniteSet(Live) /\ Cardinality(Live) \in Nat
  /\ IsFiniteSet(InPool) /\ Cardinality(InPool) \in Nat
<1>1. Live \subseteq Threads /\ InPool \subseteq Threads
  BY DEF Live, InPool
<1> QED
  BY <1>1, FS_Subset, FS_CardinalityType

\* One thread joins or leaves a set of threads.
LEMMA OneMoves ==
  ASSUME NEW S, IsFiniteSet(S), NEW t, NEW T, NEW in \in BOOLEAN,
         T = IF in THEN S \cup {t} ELSE S \ {t}
  PROVE  Cardinality(T) = Cardinality(S) + Count(in) - Count(t \in S)
<1>1. Cardinality(S) \in Nat
  BY FS_CardinalityType
<1>2. CASE in
  <2>1. Cardinality(S \cup {t}) = IF t \in S THEN Cardinality(S) ELSE Cardinality(S) + 1
    BY FS_AddElement
  <2> QED
    BY <1>1, <1>2, <2>1 DEF Count
<1>3. CASE ~in
  <2>1. Cardinality(S \ {t}) = IF t \in S THEN Cardinality(S) - 1 ELSE Cardinality(S)
    BY FS_RemoveElement
  <2> QED
    BY <1>1, <1>3, <2>1 DEF Count
<1> QED
  BY <1>2, <1>3

\* Thread t goes on to w.
LEMMA Moves ==
  ASSUME Sane, NEW t \in Threads, NEW w, pc' = [pc EXCEPT ![t] = w]
  PROVE  /\ pc'[t] = w /\ \A u \in Threads : u # t => pc'[u] = pc[u]
         /\ Live' = IF w # "none" THEN Live \cup {t} ELSE Live \ {t}
         /\ InPool' = IF w \in {"pooled", "late"} THEN InPool \cup {t} ELSE InPool \ {t}
         /\ Cardinality(Live') = Cardinality(Live) + Count(w # "none") - Count(pc[t] # "none")
         /\ Cardinality(InPool') = Cardinality(InPool) + Count(w \in {"pooled", "late"})
                                     - Count(pc[t] \in {"pooled", "late"})
<1>1. pc'[t] = w /\ \A u \in Threads : u # t => pc'[u] = pc[u]
  BY DEF Sane, TypeOK
<1>2. Live' = IF w # "none" THEN Live \cup {t} ELSE Live \ {t}
  BY <1>1 DEF Live
<1>3. InPool' = IF w \in {"pooled", "late"} THEN InPool \cup {t} ELSE InPool \ {t}
  BY <1>1 DEF InPool
<1>4. Cardinality(Live') = Cardinality(Live) + Count(w # "none") - Count(t \in Live)
  <2>1. (w # "none") \in BOOLEAN
    OBVIOUS
  <2> QED
    BY <1>2, <2>1, CountsAreNat, OneMoves
<1>5. Cardinality(InPool') =
        Cardinality(InPool) + Count(w \in {"pooled", "late"}) - Count(t \in InPool)
  <2>1. (w \in {"pooled", "late"}) \in BOOLEAN
    OBVIOUS
  <2> QED
    BY <1>3, <2>1, CountsAreNat, OneMoves
<1>6. (t \in Live <=> pc[t] # "none") /\ (t \in InPool <=> pc[t] \in {"pooled", "late"})
  BY DEF Live, InPool
<1> QED
  BY <1>1, <1>2, <1>3, <1>4, <1>5, <1>6 DEF Count

\* signal() leaves all sleepers but at most one.
LEMMA SignalSubset == ASSUME NEW S, NEW T \in Signal(S) PROVE T \subseteq S
  BY DEF Signal

-----------------------------------------------------------------------------
(* create_new_thread() *)

\* What holds for a caller x that has the mutex in create_new_thread(j).
Asks(x, j) ==
  /\ j \in Jobs \ (accepted \cup refused)
  /\ \A y \in Callers : creating[y] = j => y = x
  /\ x \notin data_empty
  /\ x \in Threads => pc[x] = "running"
  /\ life = "alive"

LEMMA CallersAsk ==
  ASSUME ThreaderInv, NEW x \in Callers, Create(x) \/ CreateWakes(x)
  PROVE  \E j : Asks(x, j) /\ create_new_thread(x, j)
<1> USE DEF ThreaderInv, Sane, TypeOK, OnItsWay, AtTheEnd, Asks, Callers
<1>1. CASE Create(x)
  BY <1>1 DEF Create, InUserCode
<1>2. CASE CreateWakes(x)
  BY <1>2 DEF CreateWakes
<1> QED
  BY <1>1, <1>2

\* Sane when x has gone on in create_new_thread() and maybe a thread was spawned.
LEMMA CreateSane ==
  ASSUME ThreaderInv, NEW x \in Callers, NEW j, Asks(x, j), create_new_thread(x, j)
  PROVE  Sane'
<1> USE DEF ThreaderInv, Sane, TypeOK, Asks, shared, sigs, handling, outcome
<1>1. data_ready' \subseteq data_ready /\ \A t \in data_ready : pc'[t] = pc[t]
  BY SignalSubset DEF create_new_thread, CreateSleeps, CreateSpawns, CreateSignals, InPool
<1>2. /\ pc' \in [Threads -> {"none", "spawned", "pooled", "late", "running", "ending", "returning"}]
      /\ \A t \in Threads : pc'[t] # pc[t] => pc[t] = "none" /\ pc'[t] = "spawned"
  BY DEF create_new_thread, CreateSleeps, CreateSpawns, CreateSignals
<1>3. /\ creating' \in [Callers -> Jobs \cup {NoJob}]
      /\ \A y \in Callers : y # x => creating'[y] = creating[y]
  BY DEF create_new_thread, CreateSleeps, CreateSpawns, CreateSignals
<1>4. data_empty' \subseteq {y \in Callers : creating'[y] # NoJob}
  <2>1. CASE CreateSleeps(x, j)
    BY <2>1 DEF CreateSleeps
  <2>2. CASE CreateSpawns(x, j) \/ CreateSignals(x, j)
    <3>1. data_empty' \subseteq data_empty
      BY <2>2, SignalSubset DEF CreateSpawns, CreateSignals
    <3> QED
      BY <1>3, <3>1
  <2> QED
    BY <2>1, <2>2 DEF create_new_thread
<1>5. /\ total_count' \in Nat /\ pool_count' \in Nat /\ function_pointer' \in Jobs \cup {NoJob}
      /\ accepted' \subseteq Jobs /\ refused' \subseteq Jobs
      /\ UNCHANGED <<thread_ids, destruct, destructed, handling, job, life, started, done>>
  BY DEF create_new_thread, CreateSleeps, CreateSpawns, CreateSignals, PlaceAfterFailure
<1>6. data_ready' \subseteq InPool'
  BY <1>1, <1>2 DEF InPool
<1>7. TypeOK'
  BY <1>2, <1>3, <1>4, <1>5, <1>6
<1>8. \A t \in Threads : creating'[t] # NoJob => pc'[t] = "running"
  BY <1>2, <1>3 DEF Callers
<1> QED
  BY <1>1, <1>2, <1>5, <1>7, <1>8 DEF InPool

LEMMA CreateCounted ==
  ASSUME ThreaderInv, NEW x \in Callers, NEW j, create_new_thread(x, j)
  PROVE  Counted'
<1> USE DEF ThreaderInv, Counted
<1>1. CASE UNCHANGED <<thread_ids, total_count, pool_count, pc>>
  <2>1. Live' = Live /\ InPool' = InPool
    BY <1>1 DEF Live, InPool
  <2> QED
    BY <1>1, <2>1
<1>2. ASSUME NEW t \in Threads, pc[t] = "none", pc' = [pc EXCEPT ![t] = "spawned"],
             total_count' = total_count + 1, UNCHANGED <<pool_count, thread_ids>>
      PROVE  Counted'
  <2>1. /\ pc'[t] = "spawned" /\ \A u \in Threads : u # t => pc'[u] = pc[u]
        /\ Live' = (IF "spawned" # "none" THEN Live \cup {t} ELSE Live \ {t})
        /\ Cardinality(Live') = Cardinality(Live) + Count("spawned" # "none") - Count(pc[t] # "none")
        /\ Cardinality(InPool') = Cardinality(InPool) + Count("spawned" \in {"pooled", "late"})
                                    - Count(pc[t] \in {"pooled", "late"})
    <3>1. Sane /\ pc' = [pc EXCEPT ![t] = "spawned"]
      BY <1>2
    <3> HIDE DEF ThreaderInv, Counted
    <3> QED
      BY <3>1, Moves
  <2>2. Cardinality(Live') = Cardinality(Live) + 1 /\ Cardinality(InPool') = Cardinality(InPool)
    BY <1>2, <2>1, CountsAreNat DEF Count
  <2>3. {u \in Live' : pc'[u] # "spawned"} = {u \in Live : pc[u] # "spawned"}
    BY <1>2, <2>1 DEF Live
  <2> QED
    BY <1>2, <2>2, <2>3
<1> QED
  BY <1>1, <1>2 DEF create_new_thread, CreateSleeps, CreateSpawns, CreateSignals, shared

LEMMA CreateOnItsWay ==
  ASSUME ThreaderInv, NEW x \in Callers, NEW j, Asks(x, j), create_new_thread(x, j)
  PROVE  OnItsWay'
<1> USE DEF ThreaderInv, OnItsWay, JobsStartOnce, Asks
<1>0. /\ creating \in [Callers -> Jobs \cup {NoJob}] /\ started \in [Jobs -> Nat]
      /\ UNCHANGED <<job, started>>
  BY DEF Sane, TypeOK, create_new_thread
<1>1. CASE CreateSleeps(x, j)
  BY <1>0, <1>1 DEF CreateSleeps, shared, outcome
<1>2. ASSUME function_pointer = NoJob, creating' = [creating EXCEPT ![x] = NoJob],
             accepted' \cup refused' = accepted \cup refused \cup {j}
      PROVE  /\ \A y \in Callers : creating'[y] \notin accepted' \cup refused'
             /\ \A y, z \in Callers : creating'[y] = creating'[z] /\ creating'[y] # NoJob => y = z
             /\ \A t \in Threads : job'[t] # NoJob => started'[job'[t]] > 0
             /\ \A s, t \in Threads : job'[s] = job'[t] /\ job'[s] # NoJob => s = t
  <2>1. \A y \in Callers : creating'[y] = IF y = x THEN NoJob ELSE creating[y]
    BY <1>0, <1>2
  <2>2. NoJob \notin accepted \cup refused \cup {j}
    BY DEF Sane, TypeOK
  <2> QED
    BY <1>0, <1>2, <2>1, <2>2
<1>3. CASE function_pointer' = NoJob /\ refused' = refused \cup {j} /\ UNCHANGED accepted
           /\ function_pointer = NoJob /\ creating' = [creating EXCEPT ![x] = NoJob]
  <2>1. \A k \in Jobs : started'[k] + Count(function_pointer' = k) = Count(k \in accepted')
    BY <1>0, <1>3
  <2>2. accepted' \cap refused' = {}
    BY <1>3
  <2> QED
    BY <1>2, <1>3, <2>1, <2>2
<1>4. CASE function_pointer' = j /\ accepted' = accepted \cup {j} /\ UNCHANGED refused
           /\ function_pointer = NoJob /\ creating' = [creating EXCEPT ![x] = NoJob]
  <2>1. ASSUME NEW k \in Jobs
        PROVE  started'[k] + Count(function_pointer' = k) = Count(k \in accepted')
    <3>1. started[k] \in Nat /\ started[k] + 0 = Count(k \in accepted)
      BY <1>0, <1>4 DEF Count
    <3> QED
      BY <1>0, <1>4, <3>1 DEF Count
  <2>2. accepted' \cap refused' = {}
    BY <1>4
  <2> QED
    BY <1>2, <1>4, <2>1, <2>2
<1> QED
  BY <1>1, <1>3, <1>4 DEF create_new_thread, CreateSpawns, CreateSignals, PlaceAfterFailure

\* All calls of create_new_thread().
LEMMA CreateStep ==
  ASSUME ThreaderInv, NEW x \in Callers, Create(x) \/ CreateWakes(x)
  PROVE  ThreaderInv'
<1>1. PICK j : Asks(x, j) /\ create_new_thread(x, j)
  BY CallersAsk
<1>2. AtTheEnd'
  BY <1>1 DEF ThreaderInv, AtTheEnd, Asks, create_new_thread, CreateSleeps, CreateSpawns,
              CreateSignals, shared
<1> QED
  BY <1>1, <1>2, CreateSane, CreateCounted, CreateOnItsWay DEF ThreaderInv

-----------------------------------------------------------------------------
(* thread_starter() *)

\* What holds for a thread t that has the mutex, n being pool_count with t in it.
Arrives(t, n) ==
  /\ pc[t] \in {"spawned", "pooled", "late", "returning"} /\ t \notin data_ready
  /\ n = pool_count + Count(t \notin InPool)
  /\ destruct => pc[t] \in {"pooled", "late"}

\* The counters when t goes on to w.
LEMMA ArriveCounted ==
  ASSUME ThreaderInv, NEW t \in Threads, NEW n, Arrives(t, n),
         NEW w \in {"none", "pooled", "running"}, pc' = [pc EXCEPT ![t] = w],
         pool_count' = IF w = "pooled" THEN n ELSE n - 1,
         total_count' = IF w = "none" THEN total_count - 1 ELSE total_count,
         thread_ids' = IF w = "none" THEN thread_ids \ {t} ELSE thread_ids \cup {t}
  PROVE  Counted' /\ total_count' \in Nat /\ pool_count' \in Nat /\ thread_ids' \subseteq Threads
<1> USE DEF ThreaderInv, Counted, Arrives
<1>1. /\ pc'[t] = w /\ \A u \in Threads : u # t => pc'[u] = pc[u]
      /\ Live' = IF w # "none" THEN Live \cup {t} ELSE Live \ {t}
      /\ Cardinality(Live') = Cardinality(Live) + Count(w # "none") - Count(pc[t] # "none")
      /\ Cardinality(InPool') = Cardinality(InPool) + Count(w \in {"pooled", "late"})
                                  - Count(pc[t] \in {"pooled", "late"})
  BY Moves
<1>2. t \in InPool <=> pc[t] \in {"pooled", "late"}
  BY DEF InPool
<1>3. total_count' = Cardinality(Live')
  BY <1>1, CountsAreNat DEF Count
<1>4. pool_count' = Cardinality(InPool')
  BY <1>1, <1>2, CountsAreNat DEF Count
<1>5. thread_ids' = {u \in Live' : pc'[u] # "spawned"}
  BY <1>1 DEF Live
<1>6. Cardinality(Live') \in Nat /\ Cardinality(InPool') \in Nat
  <2>1. Live' \subseteq Threads /\ InPool' \subseteq Threads
    BY DEF Live, InPool
  <2> QED
    BY <2>1, FS_Subset, FS_CardinalityType
<1> QED
  BY <1>3, <1>4, <1>5, <1>6 DEF Live

\* What a thread holds when t has gone on to w, with the types of what may change.
LEMMA ThreadSane ==
  ASSUME Sane, NEW t \in Threads, NEW w, pc' = [pc EXCEPT ![t] = w],
         w \in {"none", "pooled", "late", "running", "ending", "returning"},
         \/ data_ready' = data_ready /\ t \notin data_ready
         \/ data_ready' = data_ready \ {t}
         \/ data_ready' = data_ready \cup {t} /\ w = "pooled",
         data_empty' \subseteq data_empty, destructed' \subseteq destructed,
         thread_ids' \subseteq Threads, total_count' \in Nat, pool_count' \in Nat,
         function_pointer' \in Jobs \cup {NoJob},
         job' \in [Threads -> Jobs \cup {NoJob}], started' \in [Jobs -> Nat],
         \A u \in Threads : u # t => job'[u] = job[u],
         job'[t] # NoJob <=> w \in {"running", "ending"},
         creating[t] # NoJob => w = "running",
         done' \subseteq Jobs,
         UNCHANGED <<destruct, handling, creating, life, outcome>>
  PROVE  Sane'
<1> USE DEF Sane, TypeOK, handling, outcome
<1>1. pc'[t] = w /\ \A u \in Threads : u # t => pc'[u] = pc[u]
  BY Moves
<1>2. pc' \in [Threads -> {"none", "spawned", "pooled", "late", "running", "ending", "returning"}]
  OBVIOUS
<1>3. /\ \A u \in data_ready' : u \in Threads /\ pc'[u] = "pooled"
  BY <1>1 DEF InPool
<1>4. data_ready' \subseteq InPool'
  BY <1>3 DEF InPool
<1>5. \A u \in Threads : job'[u] # NoJob <=> pc'[u] \in {"running", "ending"}
  BY <1>1
<1>6. \A u \in Threads : creating'[u] # NoJob => pc'[u] = "running"
  BY <1>1
<1>7. TypeOK'
  BY <1>2, <1>4
<1> QED
  BY <1>3, <1>5, <1>6, <1>7

\* The end of the program when t goes on to w.
LEMMA ThreadAtTheEnd ==
  ASSUME Sane, AtTheEnd, NEW t \in Threads, NEW w, pc' = [pc EXCEPT ![t] = w],
         destruct => w \in {"none", "pooled", "late"}, pc[t] # "none",
         UNCHANGED <<destruct, creating, life>>
  PROVE  AtTheEnd'
<1>1. pc'[t] = w /\ \A u \in Threads : u # t => pc'[u] = pc[u]
  BY Moves
<1>2. life # "destroyed"
  BY DEF AtTheEnd, Live
<1> QED
  BY <1>1, <1>2 DEF AtTheEnd

LEMMA TakesStep ==
  ASSUME ThreaderInv, NEW t \in Threads, NEW n, Arrives(t, n), ~destruct,
         Takes(t, n), thread_ids' = thread_ids \cup {t}, UNCHANGED Others
  PROVE  ThreaderInv'
<1> USE DEF Others
<1> DEFINE j == function_pointer
<1>1. /\ j \in Jobs /\ started \in [Jobs -> Nat] /\ job \in [Threads -> Jobs \cup {NoJob}]
      /\ creating[t] = NoJob
  BY DEF Takes, ThreaderInv, Sane, TypeOK, Arrives
<1>2. /\ pc' = [pc EXCEPT ![t] = "running"] /\ data_empty' \subseteq data_empty
      /\ job' = [job EXCEPT ![t] = j] /\ started' = [started EXCEPT ![j] = @ + 1]
      /\ pool_count' = n - 1 /\ function_pointer' = NoJob
      /\ UNCHANGED <<total_count, data_ready, destructed>>
  BY SignalSubset DEF Takes
<1>3. Counted' /\ total_count' \in Nat /\ pool_count' \in Nat /\ thread_ids' \subseteq Threads
  BY <1>2, ArriveCounted
<1>4. Sane'
  <2>1. /\ job' \in [Threads -> Jobs \cup {NoJob}] /\ started' \in [Jobs -> Nat]
        /\ job'[t] = j /\ \A u \in Threads : u # t => job'[u] = job[u]
    BY <1>1, <1>2
  <2> QED
    BY <1>1, <1>2, <1>3, <2>1, ThreadSane DEF ThreaderInv, Sane, TypeOK, Arrives
<1>5. AtTheEnd'
  BY <1>2, ThreadAtTheEnd DEF ThreaderInv, Arrives
<1>6. OnItsWay'
  <2> USE DEF ThreaderInv, OnItsWay, JobsStartOnce
  <2>1. /\ \A k \in Jobs : started'[k] = IF k = j THEN started[k] + 1 ELSE started[k]
        /\ \A u \in Threads : job'[u] = IF u = t THEN j ELSE job[u]
    BY <1>1, <1>2
  <2>2. j \in accepted /\ started[j] = 0
    BY <1>1 DEF Count
  <2>3. \A u \in Threads : job[u] # NoJob => job[u] # j /\ job[u] \in Jobs
    BY <1>1, <2>2
  <2>4. ASSUME NEW k \in Jobs
        PROVE  started'[k] + Count(function_pointer' = k) = Count(k \in accepted')
    <3>1. started[k] \in Nat /\ started[k] + Count(j = k) = Count(k \in accepted)
      BY <1>1
    <3> QED
      BY <1>1, <1>2, <2>1, <2>2, <3>1 DEF Count, outcome
  <2>5. \A s, u \in Threads : job'[s] = job'[u] /\ job'[s] # NoJob => s = u
    BY <1>1, <2>1, <2>3
  <2>6. \A u \in Threads : job'[u] # NoJob => started'[job'[u]] > 0
    BY <1>1, <2>1, <2>2, <2>3
  <2> QED
    BY <2>4, <2>5, <2>6 DEF outcome
<1> QED
  BY <1>3, <1>4, <1>5, <1>6 DEF ThreaderInv

\* No function moves.
LEMMA NothingMoves ==
  ASSUME OnItsWay, UNCHANGED <<function_pointer, started, creating, outcome>>,
         \A t \in Threads : job'[t] \in {job[t], NoJob}
  PROVE  OnItsWay'
  BY DEF OnItsWay, JobsStartOnce, outcome

LEMMA SleepsStep ==
  ASSUME ThreaderInv, NEW t \in Threads, NEW n, Arrives(t, n),
         Sleeps(t, n), thread_ids' = thread_ids \cup {t}, UNCHANGED Others
  PROVE  ThreaderInv'
<1> USE DEF Others
<1>1. /\ pc' = [pc EXCEPT ![t] = "pooled"] /\ data_ready' = data_ready \cup {t}
      /\ pool_count' = n
      /\ UNCHANGED <<total_count, function_pointer, job, started, data_empty, destructed>>
  BY DEF Sleeps
<1>2. Counted' /\ total_count' \in Nat /\ pool_count' \in Nat /\ thread_ids' \subseteq Threads
  BY <1>1, ArriveCounted
<1>3. Sane'
  <2>1. job[t] = NoJob /\ creating[t] = NoJob
    BY DEF ThreaderInv, Sane, Arrives
  <2> QED
    BY <1>1, <1>2, <2>1, ThreadSane DEF ThreaderInv, Sane, TypeOK
<1>4. AtTheEnd'
  BY <1>1, ThreadAtTheEnd DEF ThreaderInv, Arrives
<1>5. OnItsWay'
  BY <1>1, NothingMoves DEF ThreaderInv
<1> QED
  BY <1>2, <1>3, <1>4, <1>5 DEF ThreaderInv

LEMMA EndsStep ==
  ASSUME ThreaderInv, NEW t \in Threads, NEW n, Arrives(t, n),
         Ends(t, n), UNCHANGED Others
  PROVE  ThreaderInv'
<1> USE DEF Others
<1>1. /\ pc' = [pc EXCEPT ![t] = "none"] /\ pool_count' = n - 1 /\ total_count' = total_count - 1
      /\ thread_ids' = thread_ids \ {t} /\ destructed' \subseteq destructed
      /\ UNCHANGED <<function_pointer, data_ready, job, started, data_empty>>
  BY SignalSubset DEF Ends, Ended
<1>2. Counted' /\ total_count' \in Nat /\ pool_count' \in Nat /\ thread_ids' \subseteq Threads
  BY <1>1, ArriveCounted
<1>3. Sane'
  <2>1. job[t] = NoJob /\ creating[t] = NoJob /\ t \notin data_ready
    BY DEF ThreaderInv, Sane, Arrives
  <2> QED
    BY <1>1, <1>2, <2>1, ThreadSane DEF ThreaderInv, Sane, TypeOK
<1>4. AtTheEnd'
  BY <1>1, ThreadAtTheEnd DEF ThreaderInv, Arrives
<1>5. OnItsWay'
  BY <1>1, NothingMoves DEF ThreaderInv
<1> QED
  BY <1>2, <1>3, <1>4, <1>5 DEF ThreaderInv

\* The four ways to the mutex.
LEMMA LoopStep ==
  ASSUME ThreaderInv, NEW t \in Threads, NEW n, Arrives(t, n), Loop(t, n), UNCHANGED Others
  PROVE  ThreaderInv'
  BY TakesStep, SleepsStep, EndsStep DEF Loop

LEMMA StarterStep ==
  ASSUME ThreaderInv, NEW t \in Threads, Starts(t) \/ Awakes(t) \/ AwakesLate(t) \/ Returns(t)
  PROVE  ThreaderInv'
<1> USE DEF ThreaderInv, Sane, AtTheEnd, Arrives, InPool, Count
<1>0. pool_count \in Nat
  BY DEF TypeOK
<1>1. CASE Starts(t)
  <2>1. Arrives(t, pool_count + 1) /\ Loop(t, pool_count + 1) /\ UNCHANGED Others
    BY <1>0, <1>1 DEF Starts
  <2> QED
    BY <2>1, LoopStep
<1>2. CASE Awakes(t)
  <2>1. Arrives(t, pool_count) /\ Loop(t, pool_count) /\ UNCHANGED Others
    BY <1>0, <1>2 DEF Awakes
  <2> QED
    BY <2>1, LoopStep
<1>3. CASE AwakesLate(t)
  <2>1. /\ Arrives(t, pool_count) /\ UNCHANGED Others
        /\ Ends(t, pool_count) \/ Loop(t, pool_count)
    BY <1>0, <1>3 DEF AwakesLate
  <2> QED
    BY <2>1, LoopStep, EndsStep
<1>4. CASE Returns(t)
  <2> DEFINE n == pool_count + 1
  <2>1. Arrives(t, n) /\ UNCHANGED Others
    BY <1>0, <1>4 DEF Returns
  <2>2. t \in thread_ids /\ ~destruct
    BY <1>4 DEF Returns, Counted, Live
  <2>3. (Takes(t, n) \/ Sleeps(t, n)) /\ (pc'[t] # "none" => UNCHANGED thread_ids)
    BY <1>4, <2>2 DEF Returns, BackInPool
  <2>4. pc'[t] # "none"
    <3>1. Sane /\ \E w \in {"running", "pooled"} : pc' = [pc EXCEPT ![t] = w]
      BY <2>3 DEF Takes, Sleeps
    <3> HIDE DEF ThreaderInv, Sane
    <3>2. pc'[t] \in {"running", "pooled"}
      BY <3>1, Moves
    <3> QED
      BY <3>2
  <2>5. thread_ids' = thread_ids \cup {t}
    BY <2>2, <2>3, <2>4
  <2> HIDE DEF n, ThreaderInv, Arrives
  <2> QED
    BY <2>1, <2>2, <2>3, <2>5, TakesStep, SleepsStep
<1> QED
  BY <1>1, <1>2, <1>3, <1>4

\* A thread outside the mutex goes on: its time is up, or its function or its
\* last end handler has returned.
LEMMA OutsideStep ==
  ASSUME ThreaderInv, NEW t \in Threads, Expires(t) \/ JobReturns(t) \/ HandlersDone(t)
  PROVE  ThreaderInv'
<1> USE DEF shared, sigs
<1>1. PICK w \in {"late", "ending", "returning"} :
        /\ pc' = [pc EXCEPT ![t] = w]
        /\ w = "late" <=> pc[t] \in {"pooled", "late"}
        /\ w = "late" => ~(pc[t] \in {"none", "spawned"})
        /\ pc[t] \notin {"none", "spawned", "late"}
        /\ destruct => w = "late"
        /\ data_ready' = data_ready \/ data_ready' = data_ready \ {t}
        /\ w # "late" => data_ready' = data_ready /\ t \notin data_ready
        /\ w = "late" => data_ready' = data_ready \ {t}
        /\ creating[t] = NoJob
        /\ IF w = "returning" THEN job' = [job EXCEPT ![t] = NoJob] ELSE job' = job
        /\ (IF w = "returning" THEN NoJob ELSE job[t]) # NoJob <=> w = "ending"
        /\ done' \subseteq Jobs
        /\ UNCHANGED <<thread_ids, total_count, pool_count, function_pointer, destruct, data_empty,
                       destructed, handling, creating, life, outcome, started>>
  <2> USE DEF ThreaderInv, Sane, AtTheEnd, TypeOK
  <2>1. CASE Expires(t)
    BY <2>1 DEF Expires
  <2>2. CASE JobReturns(t)
    BY <2>2 DEF JobReturns
  <2>3. CASE HandlersDone(t)
    BY <2>3 DEF HandlersDone
  <2> QED
    BY <2>1, <2>2, <2>3
<1>2. Sane'
  <2>1. /\ job' \in [Threads -> Jobs \cup {NoJob}]
        /\ \A u \in Threads : u # t => job'[u] = job[u]
        /\ job'[t] # NoJob <=> w = "ending"
    BY <1>1 DEF ThreaderInv, Sane, TypeOK
  <2> QED
    BY <1>1, <2>1, ThreadSane DEF ThreaderInv, Sane, TypeOK
<1>3. Counted'
  <2>1. /\ pc'[t] = w /\ \A u \in Threads : u # t => pc'[u] = pc[u]
        /\ Live' = Live \cup {t}
        /\ Cardinality(Live') = Cardinality(Live) + Count(w # "none") - Count(pc[t] # "none")
        /\ Cardinality(InPool') = Cardinality(InPool) + Count(w \in {"pooled", "late"})
                                    - Count(pc[t] \in {"pooled", "late"})
    BY <1>1, Moves DEF ThreaderInv
  <2>2. Cardinality(Live') = Cardinality(Live) /\ Cardinality(InPool') = Cardinality(InPool)
    BY <1>1, <2>1, CountsAreNat DEF Count
  <2>3. t \in Live
    BY <1>1 DEF Live
  <2>4. {u \in Live' : pc'[u] # "spawned"} = {u \in Live : pc[u] # "spawned"}
    BY <1>1, <2>1, <2>3 DEF Live
  <2> QED
    BY <1>1, <2>2, <2>4 DEF ThreaderInv, Counted
<1>4. AtTheEnd'
  BY <1>1, ThreadAtTheEnd DEF ThreaderInv
<1>5. OnItsWay'
  <2>1. \A u \in Threads : job'[u] \in {job[u], NoJob}
    BY <1>1 DEF ThreaderInv, Sane, TypeOK
  <2> QED
    BY <1>1, <2>1, NothingMoves DEF ThreaderInv
<1> QED
  BY <1>2, <1>3, <1>4, <1>5 DEF ThreaderInv

\* Steps that change only the registry of end handlers.
LEMMA RegistryStep ==
  ASSUME ThreaderInv,
         reg' \in [Threads -> SUBSET Handlers], gone' \subseteq Handlers,
         calling' \in [Threads -> Handlers \cup {NoHandler}],
         UNCHANGED <<shared, sigs, pc, job, creating, life, outcome, started, done>>
  PROVE  ThreaderInv'
<1> USE DEF shared, sigs, outcome
<1>1. Live' = Live /\ InPool' = InPool
  BY DEF Live, InPool
<1>2. Sane'
  BY <1>1 DEF ThreaderInv, Sane, TypeOK
<1>3. Counted' /\ AtTheEnd'
  BY <1>1 DEF ThreaderInv, Counted, AtTheEnd
<1>4. OnItsWay'
  BY NothingMoves DEF ThreaderInv
<1> QED
  BY <1>2, <1>3, <1>4 DEF ThreaderInv

LEMMA HandlerStep ==
  ASSUME ThreaderInv, NEW t \in Threads, RemovesHandler(t) \/ CallsHandler(t)
  PROVE  ThreaderInv'
<1>1. /\ reg' \in [Threads -> SUBSET Handlers] /\ gone' \subseteq Handlers
      /\ calling' \in [Threads -> Handlers \cup {NoHandler}]
  BY DEF RemovesHandler, CallsHandler, HandlersLeft, ThreaderInv, Sane, TypeOK
<1> QED
  BY <1>1, RegistryStep DEF RemovesHandler, CallsHandler

LEMMA RegisterStep ==
  ASSUME ThreaderInv, NEW x \in Callers, NEW h \in Handlers,
         register_thread_end_handler(x, h) \/ unregister_thread_end_handler(x, h)
  PROVE  ThreaderInv'
<1>1. /\ reg' \in [Threads -> SUBSET Handlers] /\ gone' \subseteq Handlers
      /\ UNCHANGED calling
  BY DEF register_thread_end_handler, unregister_thread_end_handler, ThreaderInv, Sane, TypeOK
<1> QED
  BY <1>1, RegistryStep
     DEF register_thread_end_handler, unregister_thread_end_handler, ThreaderInv, Sane, TypeOK

-----------------------------------------------------------------------------
(* The end of the program *)

\* When all threads are in the pool none of them is in a function.
LEMMA AllInPool ==
  ASSUME ThreaderInv, total_count = pool_count
  PROVE  \A t \in Threads : pc[t] \in {"none", "pooled", "late"}
<1>1. InPool \subseteq Live
  BY DEF InPool, Live
<1>2. Cardinality(InPool) = Cardinality(Live)
  BY DEF ThreaderInv, Counted
<1>3. InPool = Live
  BY <1>1, <1>2, CountsAreNat, FS_Subset
<1> QED
  BY <1>3 DEF InPool, Live, ThreaderInv, Sane, TypeOK

\* What the steps of the destructor have in common.
LEMMA EndStep ==
  ASSUME ThreaderInv, AtTheEnd', data_ready' \subseteq data_ready, destructed' \subseteq Clients,
         destruct' \in BOOLEAN, life' \in {"alive", "deleting", "joining", "destroyed"},
         UNCHANGED <<thread_ids, total_count, pool_count, function_pointer, data_empty, handling,
                     pc, job, creating, outcome, started, done>>
  PROVE  ThreaderInv'
<1> USE DEF outcome, handling
<1>1. Live' = Live /\ InPool' = InPool
  BY DEF Live, InPool
<1>2. Sane'
  BY <1>1 DEF ThreaderInv, Sane, TypeOK
<1>3. Counted'
  BY <1>1 DEF ThreaderInv, Counted
<1>4. OnItsWay'
  BY NothingMoves DEF ThreaderInv
<1> QED
  BY <1>2, <1>3, <1>4 DEF ThreaderInv

LEMMA DestructorStep ==
  ASSUME ThreaderInv, NEW c \in Clients, destruct_if_ready(c) \/ Destructor(c) \/ DestructorWakes(c)
  PROVE  ThreaderInv'
<1> USE DEF shared
<1>1. CASE destruct_if_ready(c)
  <2>1. \A t \in Threads : pc[t] \in {"none", "pooled", "late"}
    BY <1>1, AllInPool DEF destruct_if_ready
  <2>2. \A x \in Callers : creating[x] = NoJob
    BY <1>1, <2>1 DEF destruct_if_ready, InUserCode, Callers, ThreaderInv, Sane
  <2>3. AtTheEnd'
    BY <1>1, <2>1, <2>2 DEF destruct_if_ready, AtTheEnd
  <2> QED
    BY <1>1, <2>3, EndStep DEF destruct_if_ready, ThreaderInv, Sane, TypeOK
<1>2. CASE Destructor(c) \/ DestructorWakes(c)
  <2>1. life # "alive" /\ data_ready' \subseteq data_ready /\ WaitsForThreads(c)
    BY <1>2 DEF Destructor, DestructorWakes
  <2>2. Live' = Live
    BY <2>1 DEF WaitsForThreads, Live
  <2>3. life' = "destroyed" => Live = {}
    <3>1. life' = "destroyed" => ~(total_count > 0)
      BY <2>1 DEF WaitsForThreads, ThreadsLeft
    <3>2. ~(total_count > 0) => Cardinality(Live) = 0
      BY CountsAreNat DEF ThreaderInv, Counted
    <3> QED
      BY <3>1, <3>2, CountsAreNat, FS_EmptySet
  <2>4. life' \in {"joining", "destroyed"} /\ destructed' \subseteq Clients
    BY <2>1 DEF WaitsForThreads, ThreaderInv, Sane, TypeOK
  <2>5. AtTheEnd'
    BY <2>1, <2>2, <2>3, <2>4 DEF WaitsForThreads, ThreaderInv, AtTheEnd
  <2> QED
    BY <2>1, <2>4, <2>5, EndStep DEF WaitsForThreads, ThreaderInv, Sane, TypeOK
<1> QED
  BY <1>1, <1>2

-----------------------------------------------------------------------------
(* The theorems *)

LEMMA InitHolds == Init => ThreaderInv
<1> SUFFICES ASSUME Init PROVE ThreaderInv
  OBVIOUS
<1>1. Live = {} /\ InPool = {}
  BY DEF Init, Live, InPool
<1>2. Sane
  BY DEF Init, Sane, TypeOK, Callers
<1>3. Counted
  BY <1>1, FS_EmptySet DEF Init, Counted
<1>4. OnItsWay
  BY DEF Init, OnItsWay, JobsStartOnce, Count
<1>5. AtTheEnd
  BY DEF Init, AtTheEnd
<1> QED
  BY <1>2, <1>3, <1>4, <1>5 DEF ThreaderInv

LEMMA StepKeeps == ThreaderInv /\ [Next]_vars => ThreaderInv'
<1> SUFFICES ASSUME ThreaderInv, [Next]_vars PROVE ThreaderInv'
  OBVIOUS
<1>1. ASSUME NEW t \in Threads, ThreadStep(t) \/ JobReturns(t) PROVE ThreaderInv'
  BY <1>1, StarterStep, OutsideStep, HandlerStep DEF ThreadStep
<1>2. ASSUME NEW x \in Callers, Create(x) \/ CreateWakes(x) PROVE ThreaderInv'
  BY <1>2, CreateStep
<1>3. ASSUME NEW x \in Callers, NEW h \in Handlers,
             register_thread_end_handler(x, h) \/ unregister_thread_end_handler(x, h)
      PROVE  ThreaderInv'
  BY <1>3, RegisterStep
<1>4. CASE destruct_if_ready(TheMain) \/ Destructor(TheMain) \/ DestructorWakes(TheMain)
  <2>1. TheMain \in Clients
    BY DEF TheMain
  <2> QED
    BY <1>4, <2>1, DestructorStep
<1>5. CASE UNCHANGED vars
  <2>1. /\ UNCHANGED <<shared, sigs, pc, job, creating, life, outcome, started, done>>
        /\ UNCHANGED <<reg, calling, gone>>
    BY <1>5 DEF vars, handling
  <2> QED
    BY <2>1, RegistryStep DEF ThreaderInv, Sane, TypeOK
<1> QED
  BY <1>1, <1>2, <1>3, <1>4, <1>5 DEF Next, Finished, Callers

\* The inductive invariant.
THEOREM ThreaderInvariant == Spec => []ThreaderInv
  BY InitHolds, StepKeeps, PTL DEF Spec

LEMMA InvCounts == ThreaderInv => CountsMatch
<1> SUFFICES ASSUME ThreaderInv PROVE CountsMatch
  OBVIOUS
<1>1. life = "destroyed" => Live = {} /\ \A x \in Callers : creating[x] = NoJob
  BY DEF ThreaderInv, AtTheEnd
<1> QED
  BY <1>1 DEF ThreaderInv, Sane, Counted, CountsMatch

\* The counters and the set of ids describe the threads there are, and the
\* destructor ends when there is no thread and no caller any more.
THEOREM CountersDescribeThreads == Spec => []CountsMatch
  BY ThreaderInvariant, InvCounts, PTL

\* An accepted function waits in the place or has been started once, in one
\* thread; a refused one is never started.
THEOREM FunctionsStartOnce == Spec => []JobsStartOnce
<1>1. ThreaderInv => JobsStartOnce
  BY DEF ThreaderInv, OnItsWay
<1> QED
  BY <1>1, ThreaderInvariant, PTL

-----------------------------------------------------------------------------
(* Wakeups *)

\* Somebody is on the way to the function that waits.
Served == function_pointer # NoJob /\ ~destruct =>
            \E t \in Threads : pc[t] \in {"spawned", "late", "returning"}
                               \/ (pc[t] = "pooled" /\ t \notin data_ready)

\* Somebody is on the way to the free place that callers wait for.
Followed == function_pointer = NoJob /\ data_empty # {} =>
              \E x \in Callers \ data_empty : creating[x] # NoJob

LEMMA WakesAll == NoLostWakeup <=> Served /\ Followed
  BY DEF NoLostWakeup, Served, Followed

\* A sleeper that is signaled follows.
LEMMA SignalFollows ==
  ASSUME Sane, data_empty' \in Signal(data_empty),
         \A x \in data_empty : creating'[x] = creating[x]
  PROVE  Followed'
<1>1. CASE data_empty = {}
  BY <1>1 DEF Signal, Followed
<1>2. CASE data_empty # {}
  <2>1. PICK x \in data_empty : data_empty' = data_empty \ {x}
    BY <1>2 DEF Signal
  <2>2. x \in Callers \ data_empty' /\ creating'[x] # NoJob
    BY <2>1 DEF Sane, TypeOK
  <2> QED
    BY <2>2 DEF Followed
<1> QED
  BY <1>1, <1>2

LEMMA CreateWakeups ==
  ASSUME ThreaderInv, NoLostWakeup, NEW x \in Callers, Create(x) \/ CreateWakes(x)
  PROVE  NoLostWakeup'
<1>1. PICK j : Asks(x, j) /\ create_new_thread(x, j)
  BY CallersAsk
<1>2. j # NoJob /\ x \notin data_empty
  BY <1>1 DEF Asks
<1>3. CASE CreateSleeps(x, j)
  BY <1>3 DEF CreateSleeps, NoLostWakeup, shared
<1>4. CASE CreateSpawns(x, j)
  <2>1. CASE function_pointer' = j
    <3>1. PICK t \in Threads : pc[t] = "none" /\ pc' = [pc EXCEPT ![t] = "spawned"]
      BY <1>4, <2>1, <1>2 DEF CreateSpawns, PlaceAfterFailure
    <3>2. pc'[t] = "spawned"
      BY <3>1, Moves DEF ThreaderInv
    <3> QED
      BY <1>2, <2>1, <3>2 DEF NoLostWakeup
  <2>2. CASE function_pointer' # j
    <3>1. /\ data_empty' \in Signal(data_empty) /\ function_pointer' = NoJob
          /\ creating' = [creating EXCEPT ![x] = NoJob]
      BY <1>4, <2>2 DEF CreateSpawns, PlaceAfterFailure
    <3>2. \A y \in data_empty : creating'[y] = creating[y]
      BY <1>2, <3>1 DEF ThreaderInv, Sane, TypeOK
    <3>3. Followed'
      BY <3>1, <3>2, SignalFollows DEF ThreaderInv
    <3> QED
      BY <3>1, <3>3 DEF NoLostWakeup, Followed
  <2> QED
    BY <2>1, <2>2
<1>5. CASE CreateSignals(x, j)
  <2>1. /\ pool_count > 0 /\ function_pointer' = j /\ data_ready' \in Signal(data_ready)
        /\ UNCHANGED pc
    BY <1>5 DEF CreateSignals
  <2>2. InPool # {}
    BY <2>1, FS_EmptySet DEF ThreaderInv, Counted
  <2>3. \E t \in Threads : pc[t] = "late" \/ (pc[t] = "pooled" /\ t \notin data_ready')
    <3>1. CASE data_ready = {}
      BY <2>1, <2>2, <3>1 DEF Signal, InPool
    <3>2. CASE data_ready # {}
      <4>1. PICK t \in data_ready : data_ready' = data_ready \ {t}
        BY <2>1, <3>2 DEF Signal
      <4> QED
        BY <4>1 DEF ThreaderInv, Sane, TypeOK, InPool
    <3> QED
      BY <3>1, <3>2
  <2> QED
    BY <1>2, <2>1, <2>3 DEF NoLostWakeup
<1> QED
  BY <1>1, <1>3, <1>4, <1>5 DEF create_new_thread

\* A thread with the mutex takes the function, or there is none.
LEMMA ThreadWakeups ==
  ASSUME ThreaderInv, NoLostWakeup, NEW t \in Threads,
         Starts(t) \/ Awakes(t) \/ AwakesLate(t) \/ Returns(t)
  PROVE  NoLostWakeup'
<1>1. UNCHANGED <<destruct, creating>>
  BY DEF Starts, Awakes, AwakesLate, Returns, Others
<1>2. ASSUME NEW n, Takes(t, n) PROVE NoLostWakeup'
  <2>1. function_pointer' = NoJob /\ data_empty' \in Signal(data_empty)
    BY <1>2 DEF Takes
  <2>2. Followed'
    BY <1>1, <2>1, SignalFollows DEF ThreaderInv
  <2> QED
    BY <2>1, <2>2 DEF NoLostWakeup, Followed
<1>3. ASSUME function_pointer = NoJob \/ destruct, UNCHANGED <<function_pointer, data_empty>>
      PROVE  NoLostWakeup'
  BY <1>1, <1>3 DEF NoLostWakeup
<1>4. ASSUME NEW n, Sleeps(t, n) PROVE NoLostWakeup'
  BY <1>3, <1>4 DEF Sleeps
<1>5. ASSUME NEW n, Ends(t, n), function_pointer = NoJob \/ destruct PROVE NoLostWakeup'
  BY <1>3, <1>5 DEF Ends
<1> QED
  BY <1>2, <1>4, <1>5 DEF Starts, Awakes, AwakesLate, Returns, Loop, NothingToDo

LEMMA OutsideWakeups ==
  ASSUME ThreaderInv, NoLostWakeup, NEW t \in Threads, Expires(t) \/ JobReturns(t) \/ HandlersDone(t)
  PROVE  NoLostWakeup'
<1>1. /\ UNCHANGED <<function_pointer, destruct, data_empty, creating>>
      /\ data_ready' \subseteq data_ready
      /\ \E w \in {"late", "ending", "returning"} :
           /\ pc' = [pc EXCEPT ![t] = w]
           /\ w = "ending" => pc[t] = "running"
  BY DEF Expires, JobReturns, HandlersDone, shared, sigs
<1>2. \A u \in Threads : u # t => pc'[u] = pc[u]
  BY <1>1, Moves DEF ThreaderInv
<1>3. pc'[t] \in {"late", "returning"} \/ pc[t] = "running"
  BY <1>1, Moves DEF ThreaderInv
<1>4. Served'
  BY <1>1, <1>2, <1>3, WakesAll DEF Served
<1>5. Followed'
  BY <1>1, WakesAll DEF Followed
<1> QED
  BY <1>4, <1>5 DEF Served, Followed, NoLostWakeup

LEMMA WakeupsStep == ThreaderInv /\ NoLostWakeup /\ [Next]_vars => NoLostWakeup'
<1> SUFFICES ASSUME ThreaderInv, NoLostWakeup, [Next]_vars PROVE NoLostWakeup'
  OBVIOUS
<1> USE DEF shared, sigs
<1>1. CASE UNCHANGED <<pc, function_pointer, destruct, data_ready, data_empty, creating>>
  BY <1>1 DEF NoLostWakeup
<1>2. ASSUME NEW t \in Threads, ThreadStep(t) \/ JobReturns(t) PROVE NoLostWakeup'
  <2>1. CASE RemovesHandler(t) \/ CallsHandler(t)
    BY <1>1, <2>1 DEF RemovesHandler, CallsHandler
  <2> QED
    BY <1>2, <2>1, ThreadWakeups, OutsideWakeups DEF ThreadStep
<1>3. ASSUME NEW x \in Callers, Create(x) \/ CreateWakes(x) PROVE NoLostWakeup'
  BY <1>3, CreateWakeups
<1>4. ASSUME NEW x \in Callers, NEW h \in Handlers,
             register_thread_end_handler(x, h) \/ unregister_thread_end_handler(x, h)
      PROVE  NoLostWakeup'
  BY <1>1, <1>4 DEF register_thread_end_handler, unregister_thread_end_handler
<1>5. CASE destruct_if_ready(TheMain)
  BY <1>5 DEF destruct_if_ready, NoLostWakeup
<1>6. CASE Destructor(TheMain) \/ DestructorWakes(TheMain)
  <2>1. /\ UNCHANGED <<pc, function_pointer, destruct, data_empty, creating>>
        /\ destruct
    BY <1>6 DEF Destructor, DestructorWakes, WaitsForThreads, ThreaderInv, AtTheEnd
  <2> QED
    BY <2>1 DEF NoLostWakeup
<1>7. CASE UNCHANGED vars
  BY <1>1, <1>7 DEF vars
<1> QED
  BY <1>2, <1>3, <1>4, <1>5, <1>6, <1>7 DEF Next, Finished, Callers

\* Each waiting function has a thread on its way, and each free place that
\* callers wait for a caller.
THEOREM ThreaderWakeups == Spec => []NoLostWakeup
<1>1. Init => NoLostWakeup
  BY DEF Init, NoLostWakeup
<1> QED
  BY <1>1, WakeupsStep, ThreaderInvariant, PTL DEF Spec
=============================================================================
