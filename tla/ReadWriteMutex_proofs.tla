------------------------- MODULE ReadWriteMutex_proofs -------------------------
(***************************************************************************)
(* The safety properties of ReadWriteMutex for every number of threads and *)
(* every max_locks, for clients that call unlock_readonly() without a      *)
(* readonly lock at most while no writer is gathering.                     *)
(***************************************************************************)
EXTENDS ReadWriteMutex, FiniteSetTheorems, TLAPS

Gatherers == {t \in Threads : pc[t] = "gather"}

\* The two flags say what they are named for.
FlagsOK ==
  /\ write_lock_in_progress <=> Gatherers # {}
  /\ write_lock_active <=> Writers # {}

IInv == TypeOK /\ FlagsOK /\ WriterExclusion /\ LocksConserved /\ NoLostWakeup

-----------------------------------------------------------------------------
\* The readers are a finite set, so that they can be counted.
LEMMA ReadersFinite ==
  IsFiniteSet(Readers) /\ Cardinality(Readers) \in Nat /\ (Cardinality(Readers) = 0 <=> Readers = {})
BY ThreadsAssumption, FS_Subset, FS_CardinalityType, FS_EmptySet DEF Readers

LEMMA InitIInv == Init => IInv
<1> SUFFICES ASSUME Init PROVE IInv
  OBVIOUS
<1> USE MaxLocksAssumption
<1>1. TypeOK
  <2>1. available_locks \in 0..MaxLocks /\ 0 \in 0..(MaxLocks - 1)
    BY DEF Init
  <2>2. s = {} /\ pc \in [Threads -> {"idle", "reading", "writing"} \cup Waiting]
    BY DEF Init, Waiting
  <2> QED
    BY <2>1, <2>2 DEF Init, TypeOK
<1>2. FlagsOK /\ WriterExclusion /\ NoLostWakeup
  BY DEF Init, FlagsOK, WriterExclusion, NoLostWakeup, Gatherers, Writers, Readers
<1>3. LocksConserved
  <2>1. Readers = {}
    BY DEF Init, Readers
  <2> QED
    BY <2>1, ReadersFinite DEF Init, LocksConserved, WriterHas
<1> QED
  BY <1>1, <1>2, <1>3 DEF IInv

\* What the total of the conservation law says of the locks that are taken.
LEMMA TakenLocks ==
  ASSUME IInv
  PROVE  /\ available_locks + Cardinality(Readers) + WriterHas <= MaxLocks
         /\ write_lock_active => available_locks = 0
         /\ Gatherers = {} => available_locks + Cardinality(Readers) + WriterHas = MaxLocks
         /\ \A t \in Gatherers :
              available_locks + Cardinality(Readers) + locks_obtained[t] + WriterHas = MaxLocks
<1> USE MaxLocksAssumption, ReadersFinite
<1>1. available_locks \in 0..MaxLocks /\ locks_obtained \in [Threads -> 0..(MaxLocks - 1)]
  BY DEF IInv, TypeOK
<1>2. /\ Gatherers = {} => available_locks + Cardinality(Readers) + WriterHas = MaxLocks
      /\ \A t \in Gatherers :
           available_locks + Cardinality(Readers) + locks_obtained[t] + WriterHas = MaxLocks
  BY DEF IInv, LocksConserved, Gatherers
<1>3. WriterHas \in Nat /\ (write_lock_active => WriterHas = MaxLocks)
  BY DEF WriterHas
<1>4. \A t \in Gatherers : locks_obtained[t] \in Nat
  BY <1>1 DEF Gatherers
<1> HIDE DEF WriterHas
<1>5. available_locks + Cardinality(Readers) + WriterHas <= MaxLocks
  <2>1. CASE Gatherers = {}
    BY <2>1, <1>1, <1>2, <1>3
  <2>2. CASE Gatherers # {}
    <3>1. PICK t \in Gatherers : TRUE
      BY <2>2
    <3> QED
      BY <3>1, <1>1, <1>2, <1>3, <1>4
  <2> QED
    BY <2>1, <2>2
<1> QED
  BY <1>1, <1>2, <1>3, <1>5

-----------------------------------------------------------------------------
\* What moving one thread (MovesTo hides the shape of the update) does to the sets that are defined by pc.
MovesTo(t, where) == pc' = [pc EXCEPT ![t] = where]
LEMMA ReadersStep ==
  ASSUME TypeOK, NEW t \in Threads, NEW where, MovesTo(t, where)
  PROVE  /\ Readers' = IF where = "reading" THEN Readers \cup {t} ELSE Readers \ {t}
         /\ Writers' = IF where = "writing" THEN Writers \cup {t} ELSE Writers \ {t}
         /\ Gatherers' = IF where = "gather" THEN Gatherers \cup {t} ELSE Gatherers \ {t}
<1>1. pc' \in [Threads -> {where} \cup {pc[u] : u \in Threads}]
      /\ \A u \in Threads : pc'[u] = IF u = t THEN where ELSE pc[u]
  BY DEF TypeOK, MovesTo
<1> QED
  BY <1>1 DEF Readers, Writers, Gatherers

LEMMA GatherStep ==
  ASSUME IInv, NEW t \in Threads, NEW sofar \in Nat,
         pc[t] \in {"idle", "lock", "gather"},
         t \notin s,
         \/ Gatherers = {} /\ sofar = 0
         \/ Gatherers = {t} /\ sofar = locks_obtained[t],
         Gather(t, sofar)
  PROVE  IInv'
<1> DEFINE total == sofar + available_locks
<1> USE MaxLocksAssumption
<1>a. TypeOK /\ FlagsOK /\ WriterExclusion /\ NoLostWakeup
  BY DEF IInv
<1>b. total + Cardinality(Readers) + WriterHas = MaxLocks
  BY TakenLocks, ReadersFinite, <1>a DEF TypeOK, WriterHas
<1>c. total \in 0..MaxLocks /\ available_locks' = 0
  BY <1>a, <1>b, ReadersFinite DEF TypeOK, WriterHas, Gather
<1>d. t \notin Readers /\ t \notin Writers
  BY DEF Readers, Writers
<1>1. CASE total = MaxLocks
  <2>1. /\ write_lock_in_progress' = FALSE /\ write_lock_active' = TRUE
        /\ pc' = [pc EXCEPT ![t] = "writing"]
        /\ locks_obtained' = [locks_obtained EXCEPT ![t] = 0]
        /\ s' = s
    BY <1>1 DEF Gather
  <2>2. Readers = {} /\ ~write_lock_active
    BY <1>1, <1>b, ReadersFinite DEF WriterHas
  <2>3. Readers' = {} /\ Writers' = {t} /\ Gatherers' = {}
    <3>1. Writers = {}
      BY <2>2, <1>a DEF FlagsOK
    <3>2. Gatherers \ {t} = {}
      OBVIOUS
    <3>3. MovesTo(t, "writing")
      BY <2>1 DEF MovesTo
    <3> QED
      BY <2>2, <3>1, <3>2, <3>3, <1>a, <1>d, ReadersStep
  <2>4. TypeOK'
    <3>1. pc' \in [Threads -> {"idle", "reading", "writing"} \cup Waiting]
      BY <2>1, <1>a DEF TypeOK, Waiting
    <3>2. s' \subseteq {u \in Threads : pc'[u] \in Waiting}
      BY <2>1, <1>a DEF TypeOK, Waiting
    <3>3. locks_obtained' \in [Threads -> 0..(MaxLocks - 1)]
      BY <2>1, <1>a DEF TypeOK
    <3>4. available_locks' \in 0..MaxLocks
      BY <1>c
    <3>5. write_lock_in_progress' \in BOOLEAN /\ write_lock_active' \in BOOLEAN
      BY <2>1
    <3> QED
      BY <3>1, <3>2, <3>3, <3>4, <3>5 DEF TypeOK
  <2>5. FlagsOK' /\ WriterExclusion'
    BY <2>1, <2>3 DEF FlagsOK, WriterExclusion
  <2>6. LocksConserved'
    <3>1. Cardinality(Readers') = 0
      BY <2>3, FS_EmptySet
    <3> QED
      BY <2>1, <2>3, <3>1, <1>c DEF LocksConserved, WriterHas, Gatherers
  <2>7. NoLostWakeup'
    BY <2>1, <1>c DEF NoLostWakeup
  <2> QED
    BY <2>4, <2>5, <2>6, <2>7 DEF IInv
<1>2. CASE total # MaxLocks
  <2>1. /\ write_lock_in_progress' = TRUE /\ write_lock_active' = write_lock_active
        /\ pc' = [pc EXCEPT ![t] = "gather"]
        /\ s' = s \cup {t}
        /\ locks_obtained' = [locks_obtained EXCEPT ![t] = total]
    BY <1>2 DEF Gather, Sleep
  <2>2. Readers' = Readers /\ Writers' = Writers /\ Gatherers' = {t}
    <3>1. Writers \ {t} = Writers /\ Readers \ {t} = Readers /\ Gatherers \cup {t} = {t}
      BY <1>d
    <3>2. MovesTo(t, "gather")
      BY <2>1 DEF MovesTo
    <3> QED
      BY <3>1, <3>2, <1>a, ReadersStep
  <2>3. total \in 0..(MaxLocks - 1)
    BY <1>2, <1>c
  <2>4. TypeOK'
    <3>1. pc' \in [Threads -> {"idle", "reading", "writing"} \cup Waiting]
      BY <2>1, <1>a DEF TypeOK, Waiting
    <3>2. s' \subseteq {u \in Threads : pc'[u] \in Waiting}
      BY <2>1, <1>a DEF TypeOK, Waiting
    <3>3. locks_obtained' \in [Threads -> 0..(MaxLocks - 1)]
      BY <2>1, <2>3, <1>a DEF TypeOK
    <3>4. /\ available_locks' \in 0..MaxLocks
          /\ write_lock_in_progress' \in BOOLEAN /\ write_lock_active' \in BOOLEAN
      BY <2>1, <1>a, <1>c DEF TypeOK
    <3> QED
      BY <3>1, <3>2, <3>3, <3>4 DEF TypeOK
  <2>5. FlagsOK' /\ WriterExclusion'
    BY <2>1, <2>2, <1>a DEF FlagsOK, WriterExclusion
  <2>6. LocksConserved'
    <3>1. WriterHas' = WriterHas /\ Cardinality(Readers') = Cardinality(Readers)
      BY <2>1, <2>2 DEF WriterHas
    <3>2. \A u \in Threads : pc'[u] = "gather" <=> u = t
      BY <2>2 DEF Gatherers
    <3>3. locks_obtained'[t] = total
      BY <2>1, <1>a DEF TypeOK
    <3>4. 0 + Cardinality(Readers) + total + WriterHas = MaxLocks
      BY <1>b, <1>c, ReadersFinite DEF WriterHas
    <3> QED
      BY <3>1, <3>2, <3>3, <3>4, <1>c DEF LocksConserved
  <2>7. NoLostWakeup'
    BY <2>1, <1>c DEF NoLostWakeup
  <2> QED
    BY <2>4, <2>5, <2>6, <2>7 DEF IInv
<1> QED
  BY <1>1, <1>2

LEMMA LockStep ==
  ASSUME IInv, NEW t \in Threads, Lock(t)
  PROVE  IInv'
<1>a. TypeOK /\ FlagsOK /\ WriterExclusion /\ LocksConserved /\ NoLostWakeup
  BY DEF IInv
<1>b. pc[t] \in {"idle", "lock"} /\ t \notin s
  BY <1>a DEF Lock, Woken, TypeOK, Waiting
<1>1. CASE MustQueue
  <2>1. /\ s' = s \cup {t}
        /\ pc' = [pc EXCEPT ![t] = "lock"]
        /\ UNCHANGED <<available_locks, write_lock_in_progress, write_lock_active, locks_obtained>>
    BY <1>1 DEF Lock, Sleep
  <2>2. Readers' = Readers /\ Writers' = Writers /\ Gatherers' = Gatherers
    <3>1. Readers \ {t} = Readers /\ Writers \ {t} = Writers /\ Gatherers \ {t} = Gatherers
      BY <1>b DEF Readers, Writers, Gatherers
    <3>2. MovesTo(t, "lock")
      BY <2>1 DEF MovesTo
    <3>3. /\ Readers' = Readers \ {t} /\ Writers' = Writers \ {t}
          /\ Gatherers' = Gatherers \ {t}
      BY <3>2, <1>a, ReadersStep
    <3> QED
      BY <3>1, <3>3
  <2>3. TypeOK'
    <3>1. pc' \in [Threads -> {"idle", "reading", "writing"} \cup Waiting]
      BY <2>1, <1>a DEF TypeOK, Waiting
    <3>2. s' \subseteq {u \in Threads : pc'[u] \in Waiting}
      BY <2>1, <1>a DEF TypeOK, Waiting
    <3>3. UNCHANGED <<available_locks, write_lock_in_progress, write_lock_active, locks_obtained>>
      BY <2>1
    <3> QED
      BY <3>1, <3>2, <3>3, <1>a DEF TypeOK
  <2>4. FlagsOK' /\ WriterExclusion'
    BY <2>1, <2>2, <1>a DEF FlagsOK, WriterExclusion
  <2>5. LocksConserved'
    <3>1. WriterHas' = WriterHas
      BY <2>1 DEF WriterHas
    <3>2. \A u \in Threads : pc'[u] = "gather" <=> pc[u] = "gather"
      BY <2>2 DEF Gatherers
    <3> QED
      BY <2>1, <2>2, <3>1, <3>2, <1>a DEF LocksConserved
  <2>6. NoLostWakeup'
    BY <2>1, <1>1, <1>a DEF NoLostWakeup, MustQueue, TypeOK
  <2> QED
    BY <2>3, <2>4, <2>5, <2>6 DEF IInv
<1>2. CASE ~MustQueue
  <2>1. Gatherers = {}
    BY <1>2, <1>a DEF FlagsOK, MustQueue
  <2> QED
    BY <1>2, <1>b, <2>1, GatherStep DEF Lock
<1> QED
  BY <1>1, <1>2

LEMMA LockGatherStep ==
  ASSUME IInv, NEW t \in Threads, LockGather(t)
  PROVE  IInv'
<1>1. pc[t] = "gather" /\ t \notin s /\ Gather(t, locks_obtained[t])
  BY DEF LockGather, Woken
<1>2. Gatherers = {t}
  BY <1>1 DEF IInv, LocksConserved, Gatherers
<1>3. locks_obtained[t] \in Nat
  BY MaxLocksAssumption DEF IInv, TypeOK
<1> QED
  BY <1>1, <1>2, <1>3, GatherStep

LEMMA UnlockStep ==
  ASSUME IInv, NEW t \in Threads, Unlock(t)
  PROVE  IInv'
<1> USE MaxLocksAssumption
<1>a. TypeOK /\ FlagsOK /\ WriterExclusion /\ LocksConserved /\ NoLostWakeup
  BY DEF IInv
<1>b. /\ pc' = [pc EXCEPT ![t] = "idle"]
      /\ UNCHANGED <<write_lock_in_progress, locks_obtained>>
      /\ pc[t] \in {"idle", "writing"}
      /\ t \notin s
  BY <1>a DEF Unlock, TypeOK, Waiting
<1>c. Readers' = Readers /\ Gatherers' = Gatherers /\ Writers' = Writers \ {t}
  <2>1. Readers \ {t} = Readers /\ Gatherers \ {t} = Gatherers
    BY <1>b DEF Readers, Gatherers
  <2>2. MovesTo(t, "idle")
    BY <1>b DEF MovesTo
  <2>3. /\ Readers' = Readers \ {t} /\ Writers' = Writers \ {t}
        /\ Gatherers' = Gatherers \ {t}
    BY <2>2, <1>a, ReadersStep
  <2> QED
    BY <2>1, <2>3
<1>d. pc' \in [Threads -> {"idle", "reading", "writing"} \cup Waiting]
  BY <1>a, <1>b DEF TypeOK
<1>1. CASE write_lock_active
  <2>1. available_locks' = MaxLocks /\ write_lock_active' = FALSE /\ s' = {}
    BY <1>1 DEF Unlock
  <2>2. Writers = {t}
    BY <1>1, <1>a DEF Unlock, FlagsOK, WriterExclusion, Writers
  <2>3. TypeOK'
    <3>1. available_locks' \in 0..MaxLocks
      BY <2>1
    <3>2. s' = {} /\ write_lock_active' \in BOOLEAN
      BY <2>1
    <3>3. UNCHANGED <<write_lock_in_progress, locks_obtained>>
      BY <1>b
    <3> QED
      BY <3>1, <3>2, <3>3, <1>a, <1>d DEF TypeOK
  <2>4. FlagsOK' /\ WriterExclusion'
    BY <2>1, <2>2, <1>a, <1>b, <1>c DEF FlagsOK, WriterExclusion
  <2>5. LocksConserved'
    <3>1. Readers = {} /\ Cardinality(Readers') = 0
      BY <2>2, <1>a, <1>c, FS_EmptySet DEF WriterExclusion
    <3>2. WriterHas = MaxLocks /\ WriterHas' = 0
      BY <1>1, <2>1 DEF WriterHas
    <3>3. \A u \in Gatherers : locks_obtained[u] = 0
      <4> SUFFICES ASSUME NEW u \in Gatherers PROVE locks_obtained[u] = 0
        OBVIOUS
      <4>1. locks_obtained[u] \in Nat /\ available_locks \in Nat
        BY <1>a DEF TypeOK, Gatherers
      <4>2. available_locks + Cardinality(Readers) + locks_obtained[u] + WriterHas = MaxLocks
        BY TakenLocks
      <4> QED
        BY <3>1, <3>2, <4>1, <4>2, ReadersFinite
    <3>4. \A u \in Threads : pc'[u] = "gather" <=> pc[u] = "gather"
      BY <1>c DEF Gatherers
    <3> QED
      BY <2>1, <3>1, <3>2, <3>3, <3>4, <1>a, <1>b DEF LocksConserved, Gatherers
  <2>6. NoLostWakeup'
    BY <2>1 DEF NoLostWakeup
  <2> QED
    BY <2>3, <2>4, <2>5, <2>6 DEF IInv
<1>2. CASE ~write_lock_active
  <2>1. UNCHANGED <<available_locks, write_lock_active, s>>
    BY <1>2 DEF Unlock
  <2>2. Writers = {} /\ Writers' = {}
    BY <1>2, <1>a, <1>c DEF FlagsOK
  <2>3. pc' = pc
    BY <2>2, <1>a, <1>b DEF Writers, TypeOK
  <2> QED
    BY <2>1, <2>3, <1>b, <1>a
       DEF IInv, TypeOK, FlagsOK, WriterExclusion, LocksConserved, NoLostWakeup,
           Readers, Writers, Gatherers, WriterHas
<1> QED
  BY <1>1, <1>2

LEMMA LockReadonlyStep ==
  ASSUME IInv, NEW t \in Threads, LockReadonly(t)
  PROVE  IInv'
<1> USE MaxLocksAssumption
<1>a. TypeOK /\ FlagsOK /\ WriterExclusion /\ LocksConserved /\ NoLostWakeup
  BY DEF IInv
<1>b. /\ pc[t] \in {"idle", "lock_readonly"} /\ t \notin s
      /\ UNCHANGED <<write_lock_in_progress, write_lock_active, locks_obtained>>
  BY <1>a DEF LockReadonly, Woken, TypeOK, Waiting
<1>c. Readers \ {t} = Readers /\ Writers \ {t} = Writers /\ Gatherers \ {t} = Gatherers
  BY <1>b DEF Readers, Writers, Gatherers
<1>d. WriterHas' = WriterHas
  BY <1>b DEF WriterHas
<1>1. CASE available_locks = 0
  <2>1. /\ s' = s \cup {t} /\ pc' = [pc EXCEPT ![t] = "lock_readonly"]
        /\ available_locks' = available_locks
    BY <1>1 DEF LockReadonly, Sleep
  <2>2. Readers' = Readers /\ Writers' = Writers /\ Gatherers' = Gatherers
    <3>1. MovesTo(t, "lock_readonly")
      BY <2>1 DEF MovesTo
    <3> QED
      BY <3>1, <1>a, <1>c, ReadersStep
  <2>3. TypeOK'
    <3>1. pc' \in [Threads -> {"idle", "reading", "writing"} \cup Waiting]
      BY <2>1, <1>a DEF TypeOK, Waiting
    <3>2. s' \subseteq {u \in Threads : pc'[u] \in Waiting}
      BY <2>1, <1>a DEF TypeOK, Waiting
    <3>3. UNCHANGED <<available_locks, write_lock_in_progress, write_lock_active, locks_obtained>>
      BY <2>1, <1>b
    <3> QED
      BY <3>1, <3>2, <3>3, <1>a DEF TypeOK
  <2>4. FlagsOK' /\ WriterExclusion'
    BY <1>b, <2>2, <1>a DEF FlagsOK, WriterExclusion
  <2>5. LocksConserved'
    <3>1. \A u \in Threads : pc'[u] = "gather" <=> pc[u] = "gather"
      BY <2>2 DEF Gatherers
    <3> QED
      BY <2>1, <2>2, <3>1, <1>a, <1>b, <1>d DEF LocksConserved
  <2>6. NoLostWakeup'
    BY <2>1, <1>1, <1>a, <1>b DEF NoLostWakeup, TypeOK
  <2> QED
    BY <2>3, <2>4, <2>5, <2>6 DEF IInv
<1>2. CASE available_locks # 0
  <2>1. /\ s' = s /\ pc' = [pc EXCEPT ![t] = "reading"]
        /\ available_locks' = available_locks - 1
    BY <1>2 DEF LockReadonly
  <2>2. Readers' = Readers \cup {t} /\ Writers' = Writers /\ Gatherers' = Gatherers
    <3>1. MovesTo(t, "reading")
      BY <2>1 DEF MovesTo
    <3> QED
      BY <3>1, <1>a, <1>c, ReadersStep
  <2>3. ~write_lock_active /\ Writers = {}
    BY <1>2, <1>a, TakenLocks DEF FlagsOK
  <2>4. TypeOK'
    <3>1. pc' \in [Threads -> {"idle", "reading", "writing"} \cup Waiting]
      BY <2>1, <1>a DEF TypeOK, Waiting
    <3>2. s' \subseteq {u \in Threads : pc'[u] \in Waiting}
      BY <2>1, <1>a, <1>b DEF TypeOK, Waiting
    <3>3. available_locks' \in 0..MaxLocks
      BY <1>2, <2>1, <1>a DEF TypeOK
    <3>4. UNCHANGED <<write_lock_in_progress, write_lock_active, locks_obtained>>
      BY <1>b
    <3> QED
      BY <3>1, <3>2, <3>3, <3>4, <1>a DEF TypeOK
  <2>5. FlagsOK' /\ WriterExclusion'
    BY <1>b, <2>2, <2>3, <1>a DEF FlagsOK, WriterExclusion
  <2>6. LocksConserved'
    <3>1. \A u \in Threads : pc'[u] = "gather" <=> pc[u] = "gather"
      BY <2>2 DEF Gatherers
    <3>2. t \notin Readers
      BY <1>b DEF Readers
    <3>3. Cardinality(Readers') = Cardinality(Readers) + 1
      BY <2>2, <3>2, ReadersFinite, FS_AddElement
    <3>4. available_locks' + Cardinality(Readers') = available_locks + Cardinality(Readers)
      BY <2>1, <3>3, ReadersFinite, <1>a DEF TypeOK
    <3> QED
      BY <3>1, <3>4, <1>a, <1>b, <1>d DEF LocksConserved
  <2>7. NoLostWakeup'
    BY <2>1, <1>2, <1>a, <1>b DEF NoLostWakeup, TypeOK
  <2> QED
    BY <2>4, <2>5, <2>6, <2>7 DEF IInv
<1> QED
  BY <1>1, <1>2

LEMMA UnlockReadonlyStep ==
  ASSUME IInv, NEW t \in Threads, UnlockReadonly(t)
  PROVE  IInv'
<1> USE MaxLocksAssumption
<1>a. TypeOK /\ FlagsOK /\ WriterExclusion /\ LocksConserved /\ NoLostWakeup
  BY DEF IInv
<1>b. /\ pc[t] = "reading" /\ t \notin s /\ t \in Readers
      /\ pc' = [pc EXCEPT ![t] = "idle"]
      /\ UNCHANGED <<write_lock_in_progress, write_lock_active, locks_obtained>>
  BY <1>a DEF UnlockReadonly, ReleaseRead, TypeOK, Waiting, Readers
<1>c. Readers' = Readers \ {t} /\ Writers' = Writers /\ Gatherers' = Gatherers
  <2>1. Writers \ {t} = Writers /\ Gatherers \ {t} = Gatherers
    BY <1>b DEF Writers, Gatherers
  <2>2. MovesTo(t, "idle")
    BY <1>b DEF MovesTo
  <2> QED
    BY <2>1, <2>2, <1>a, ReadersStep
<1>d. Cardinality(Readers') = Cardinality(Readers) - 1 /\ Cardinality(Readers) > 0
  <2>1. Cardinality(Readers \ {t}) = Cardinality(Readers) - 1
    BY <1>b, ReadersFinite, FS_RemoveElement
  <2>2. Cardinality(Readers) # 0
    BY <1>b, ReadersFinite
  <2> QED
    BY <2>1, <2>2, <1>c, ReadersFinite
<1>e. ~write_lock_active /\ WriterHas = 0 /\ WriterHas' = 0
  BY <1>a, <1>b DEF FlagsOK, WriterExclusion, WriterHas
<1>f. available_locks < MaxLocks
  BY <1>d, <1>e, TakenLocks, ReadersFinite, <1>a DEF TypeOK
<1>1. /\ available_locks' = available_locks + 1
      /\ s' = IF Wakes(available_locks + 1) THEN {} ELSE s
  BY <1>e, <1>f, <1>a DEF UnlockReadonly, ReleaseRead, ReadLockIsOut, TypeOK
<1>2. TypeOK'
  <2>1. pc' \in [Threads -> {"idle", "reading", "writing"} \cup Waiting]
    BY <1>b, <1>a DEF TypeOK
  <2>2. s' \subseteq {u \in Threads : pc'[u] \in Waiting}
    BY <1>1, <1>b, <1>a DEF TypeOK
  <2>3. available_locks' \in 0..MaxLocks
    BY <1>1, <1>f, <1>a DEF TypeOK
  <2>4. UNCHANGED <<write_lock_in_progress, write_lock_active, locks_obtained>>
    BY <1>b
  <2> QED
    BY <2>1, <2>2, <2>3, <2>4, <1>a DEF TypeOK
<1>3. FlagsOK' /\ WriterExclusion'
  BY <1>a, <1>b, <1>c DEF FlagsOK, WriterExclusion
<1>4. LocksConserved'
  <2>1. \A u \in Threads : pc'[u] = "gather" <=> pc[u] = "gather"
    BY <1>c DEF Gatherers
  <2>2. available_locks' + Cardinality(Readers') = available_locks + Cardinality(Readers)
    BY <1>1, <1>d, ReadersFinite, <1>a DEF TypeOK
  <2> QED
    BY <2>1, <2>2, <1>a, <1>b, <1>e DEF LocksConserved
<1>5. NoLostWakeup'
  <2>1. CASE Wakes(available_locks + 1)
    BY <2>1, <1>1 DEF NoLostWakeup
  <2>2. CASE ~Wakes(available_locks + 1)
    <3>1. available_locks # 0 /\ s' = s
      BY <2>2, <1>1 DEF Wakes
    <3> QED
      BY <3>1, <1>a, <1>b DEF NoLostWakeup, TypeOK
  <2> QED
    BY <2>1, <2>2
<1> QED
  BY <1>2, <1>3, <1>4, <1>5 DEF IInv

\* With no writer gathering, an unmatched unlock_readonly() finds either every
\* lock free or a writer active, and so does nothing.
LEMMA StrayUnlockReadonlyStep ==
  ASSUME StrayWhileGathering = FALSE, IInv, NEW t \in Threads, StrayUnlockReadonly(t)
  PROVE  UNCHANGED vars
<1>1. Gatherers = {} /\ Readers = {}
  BY DEF StrayUnlockReadonly, Gatherers
<1>2. available_locks \in Nat /\ MaxLocks \in Nat
  BY MaxLocksAssumption DEF IInv, TypeOK
<1>3. ~ReadLockIsOut
  BY <1>1, <1>2, TakenLocks, ReadersFinite DEF ReadLockIsOut, WriterHas
<1> QED
  BY <1>3 DEF StrayUnlockReadonly, ReleaseRead, vars

LEMMA StutterStep ==
  ASSUME IInv, UNCHANGED vars
  PROVE  IInv'
BY DEF IInv, TypeOK, FlagsOK, WriterExclusion, LocksConserved, NoLostWakeup,
       Readers, Writers, Gatherers, WriterHas, vars

-----------------------------------------------------------------------------
\* The invariant holds in every reachable state.
THEOREM Invariance ==
  ASSUME StrayWhileGathering = FALSE
  PROVE  Spec => []IInv
<1>1. IInv /\ [Next]_vars => IInv'
  <2> SUFFICES ASSUME IInv, [Next]_vars PROVE IInv'
    OBVIOUS
  <2>1. ASSUME NEW t \in Threads, Lock(t) PROVE IInv'
    BY <2>1, LockStep
  <2>2. ASSUME NEW t \in Threads, LockGather(t) PROVE IInv'
    BY <2>2, LockGatherStep
  <2>3. ASSUME NEW t \in Threads, Unlock(t) PROVE IInv'
    BY <2>3, UnlockStep
  <2>4. ASSUME NEW t \in Threads, LockReadonly(t) PROVE IInv'
    BY <2>4, LockReadonlyStep
  <2>5. ASSUME NEW t \in Threads, UnlockReadonly(t) PROVE IInv'
    BY <2>5, UnlockReadonlyStep
  <2>6. ASSUME NEW t \in Threads, StrayUnlockReadonly(t) PROVE IInv'
    BY <2>6, StrayUnlockReadonlyStep, StutterStep
  <2>7. CASE UNCHANGED vars
    BY <2>7, StutterStep
  <2> QED
    BY <2>1, <2>2, <2>3, <2>4, <2>5, <2>6, <2>7 DEF Next
<1> QED
  BY <1>1, InitIInv, PTL DEF Spec

\* The variables keep to their ranges; in particular available_locks never
\* runs past max_locks or wraps below zero.
THEOREM TypeCorrect ==
  ASSUME StrayWhileGathering = FALSE
  PROVE  Spec => []TypeOK
BY Invariance, PTL DEF IInv

\* A write lock excludes every other lock, for any number of threads and any
\* max_locks.
THEOREM WritersExclude ==
  ASSUME StrayWhileGathering = FALSE
  PROVE  Spec => []WriterExclusion
BY Invariance, PTL DEF IInv

\* The locks are conserved, which is what a gathering writer waits for.
THEOREM LocksAreConserved ==
  ASSUME StrayWhileGathering = FALSE
  PROVE  Spec => []LocksConserved
BY Invariance, PTL DEF IInv

\* The conditional broadcast of unlock_readonly() and the missing one of lock()
\* leave no thread asleep that could go on.
THEOREM WakeupsSuffice ==
  ASSUME StrayWhileGathering = FALSE
  PROVE  Spec => []NoLostWakeup
BY Invariance, PTL DEF IInv
=============================================================================
