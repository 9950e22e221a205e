---------------------------- MODULE ReadWriteMutex ----------------------------
(***************************************************************************)
(* dlib::read_write_mutex (threads/read_write_mutex_extension.h).          *)
(*                                                                         *)
(* Every member function runs under the internal mutex m, so each stretch  *)
(* between acquiring m and releasing it (by returning or by s.wait()) is   *)
(* one action.  The signaler s is a wait set: s.wait() adds the caller,    *)
(* s.broadcast() empties the set, and a thread that is outside the set     *)
(* with a waiting pc has been woken and competes for m again.              *)
(***************************************************************************)
EXTENDS Integers, FiniteSets

CONSTANTS
  Threads,       \* the client threads
  MaxLocks,      \* max_locks, the constructor's argument
  StrayWhileGathering  \* may clients call unlock_readonly() without any readonly
                       \* lock being held while a writer gathers its locks?

ASSUME ThreadsAssumption == IsFiniteSet(Threads)
ASSUME MaxLocksAssumption == MaxLocks \in Nat \ {0}  \* DLIB_ASSERT in the constructor
ASSUME StrayAssumption == StrayWhileGathering \in BOOLEAN

VARIABLES
  available_locks, write_lock_in_progress, write_lock_active,
  s,               \* threads asleep in s.wait()
  pc,              \* where each thread is
  locks_obtained   \* the local variable of lock(), 0 outside the gathering loop

vars == <<available_locks, write_lock_in_progress, write_lock_active, s, pc, locks_obtained>>

Waiting == {"lock", "gather", "lock_readonly"}
Readers == {t \in Threads : pc[t] = "reading"}
Writers == {t \in Threads : pc[t] = "writing"}

Init ==
  /\ available_locks = MaxLocks
  /\ write_lock_in_progress = FALSE
  /\ write_lock_active = FALSE
  /\ s = {}
  /\ pc = [t \in Threads |-> "idle"]
  /\ locks_obtained = [t \in Threads |-> 0]

\* A thread runs the code after an s.wait() once it has been woken.
Woken(t, where) == pc[t] = where /\ t \notin s

Sleep(t, where) ==
  /\ s' = s \cup {t}
  /\ pc' = [pc EXCEPT ![t] = where]

\* Take every lock that is free; keep waiting until that makes all of them.
Gather(t, sofar) ==
  LET total == sofar + available_locks IN
  /\ available_locks' = 0
  /\ \/ /\ total = MaxLocks
        /\ write_lock_in_progress' = FALSE
        /\ write_lock_active' = TRUE
        /\ pc' = [pc EXCEPT ![t] = "writing"]
        /\ locks_obtained' = [locks_obtained EXCEPT ![t] = 0]
        /\ UNCHANGED s
     \/ /\ total # MaxLocks
        /\ write_lock_in_progress' = TRUE
        /\ Sleep(t, "gather")
        /\ locks_obtained' = [locks_obtained EXCEPT ![t] = total]
        /\ UNCHANGED write_lock_active

\* Whether lock() waits for another writer before it starts to gather.
MustQueueMutant == FALSE   \* mutant: writers gather at the same time
MustQueue == write_lock_in_progress

\* lock(), entered or woken in its first loop.
Lock(t) ==
  /\ pc[t] = "idle" \/ Woken(t, "lock")
  /\ \/ /\ MustQueue
        /\ Sleep(t, "lock")
        /\ UNCHANGED <<available_locks, write_lock_in_progress, write_lock_active, locks_obtained>>
     \/ /\ ~MustQueue
        /\ Gather(t, 0)

\* lock(), woken in its second loop.
LockGather(t) ==
  /\ Woken(t, "gather")
  /\ Gather(t, locks_obtained[t])

\* unlock(), by the writer or, which the header allows, with no write lock held.
Unlock(t) ==
  /\ pc[t] = "writing" \/ (pc[t] = "idle" /\ Writers = {})
  /\ pc' = [pc EXCEPT ![t] = "idle"]
  /\ \/ /\ write_lock_active
        /\ available_locks' = MaxLocks
        /\ write_lock_active' = FALSE
        /\ s' = {}
     \/ /\ ~write_lock_active
        /\ UNCHANGED <<available_locks, write_lock_active, s>>
  /\ UNCHANGED <<write_lock_in_progress, locks_obtained>>

LockReadonly(t) ==
  /\ pc[t] = "idle" \/ Woken(t, "lock_readonly")
  /\ \/ /\ available_locks = 0
        /\ Sleep(t, "lock_readonly")
        /\ UNCHANGED available_locks
     \/ /\ available_locks # 0
        /\ available_locks' = available_locks - 1
        /\ pc' = [pc EXCEPT ![t] = "reading"]
        /\ UNCHANGED s
  /\ UNCHANGED <<write_lock_in_progress, write_lock_active, locks_obtained>>

\* Is there a readonly lock to give back?
ReadLockIsOutMutant == available_locks # MaxLocks   \* mutant: writer not checked
ReadLockIsOut == available_locks # MaxLocks /\ ~write_lock_active

\* Does giving back a readonly lock, with free locks left, wake the sleepers?
WakesMutant(free) == write_lock_in_progress          \* mutant: readers forgotten
Wakes(free) == free = 1 \/ write_lock_in_progress

\* The body of unlock_readonly().
ReleaseRead ==
  /\ \/ /\ ReadLockIsOut
        /\ available_locks' = available_locks + 1
        /\ s' = IF Wakes(available_locks + 1) THEN {} ELSE s
     \/ /\ ~ReadLockIsOut
        /\ UNCHANGED <<available_locks, s>>
  /\ UNCHANGED <<write_lock_in_progress, write_lock_active, locks_obtained>>

UnlockReadonly(t) ==
  /\ pc[t] = "reading"
  /\ pc' = [pc EXCEPT ![t] = "idle"]
  /\ ReleaseRead

\* unlock_readonly() called while no thread has a readonly lock, which the
\* header allows.
StrayUnlockReadonly(t) ==
  /\ pc[t] = "idle"
  /\ Readers = {}
  /\ (\E u \in Threads : pc[u] = "gather") => StrayWhileGathering
  /\ ReleaseRead
  /\ UNCHANGED pc

Next ==
  \E t \in Threads :
    \/ Lock(t) \/ LockGather(t) \/ Unlock(t)
    \/ LockReadonly(t) \/ UnlockReadonly(t)
    \/ StrayUnlockReadonly(t)

\* Woken threads are scheduled and holders release; nobody has to call lock.
Fairness ==
  \A t \in Threads :
    /\ WF_vars(pc[t] = "lock" /\ Lock(t))
    /\ WF_vars(LockGather(t))
    /\ WF_vars(pc[t] = "lock_readonly" /\ LockReadonly(t))
    /\ WF_vars(pc[t] = "writing" /\ Unlock(t))
    /\ WF_vars(UnlockReadonly(t))

Spec == Init /\ [][Next]_vars
FairSpec == Spec /\ Fairness

-----------------------------------------------------------------------------
\* The values the variables take.
TypeOK ==
  /\ available_locks \in 0..MaxLocks
  /\ write_lock_in_progress \in BOOLEAN
  /\ write_lock_active \in BOOLEAN
  /\ s \subseteq {t \in Threads : pc[t] \in Waiting}
  /\ pc \in [Threads -> {"idle", "reading", "writing"} \cup Waiting]
  /\ locks_obtained \in [Threads -> 0..(MaxLocks - 1)]

\* A write lock excludes every other lock, while several readers may share
\* the object (WHAT THIS OBJECT REPRESENTS in the abstract header).
WriterExclusion ==
  /\ \A t, u \in Writers : t = u
  /\ Writers # {} => Readers = {}

\* No lock is ever made or lost: the free ones, the ones readers hold and the
\* ones one gathering or one active writer holds add up to max_locks.
\* Gathering writers depend on it: they wait for the exact total.
HeldBy(u) == IF pc[u] = "gather" THEN locks_obtained[u] ELSE 0
WriterHas == IF write_lock_active THEN MaxLocks ELSE 0
LocksConserved ==
  /\ \A t, u \in Threads : pc[t] = "gather" /\ pc[u] = "gather" => t = u
  /\ \A t \in Threads : pc[t] = "gather" =>
       available_locks + Cardinality(Readers) + locks_obtained[t] + WriterHas = MaxLocks
  /\ (\A t \in Threads : pc[t] # "gather") =>
       available_locks + Cardinality(Readers) + WriterHas = MaxLocks

\* No wakeup is lost although unlock_readonly() broadcasts only when the count
\* becomes 1 or a writer gathers, and lock() clears write_lock_in_progress
\* without any broadcast: a sleeping thread has a reason to sleep.
NoLostWakeup ==
  \A t \in s :
    /\ pc[t] \in {"lock_readonly", "gather"} => available_locks = 0
    /\ pc[t] = "lock" => write_lock_in_progress \/ write_lock_active

\* Blocked threads never wait on each other: some thread gets a lock.
SomeoneGetsIn ==
  (\E t \in Threads : pc[t] \in Waiting) ~> (Readers \cup Writers # {})
=============================================================================
