------------------------------ MODULE Pipe_proofs ------------------------------
(***************************************************************************)
(* The safety properties of Pipe and its refinement of Channel, for any    *)
(* number of threads, any items, every capacity and every choice of calls. *)
(*                                                                         *)
(* The inductive invariant says what the ring buffer holds, what a caller  *)
(* holds where it is, who sleeps on which signaler, whose the slot of a    *)
(* pipe without capacity is, and what the three counters count.  From it   *)
(* NoLostWakeup is proved as an invariant relative to it, and each step    *)
(* as a step of Channel or a stuttering step.                              *)
(***************************************************************************)
EXTENDS Pipe, FiniteSetTheorems, SequenceTheorems, TLAPS

Enqueuers == InEnqueue \cup InHandoff \cup {"wait_until_empty"}
Waiters == {"wait_for_num", "destructor"}

\* What the variables hold.
TypesOK ==
  /\ pipe_max_size \in Capacities
  /\ data \in [Slots -> Items \cup {None}]
  /\ enabled \in BOOLEAN /\ enqueue_enabled \in BOOLEAN /\ dequeue_enabled \in BOOLEAN
  /\ pc \in [Threads -> {"idle"} \cup Enqueuers \cup InDequeue \cup Waiters]
  /\ items \in [Threads -> Items \cup {None}]
  /\ ok \in [Threads -> BOOLEAN]
  /\ life \in {"alive", "destroying", "destroyed"}

\* first and last delimit the items; without capacity they are the state of the
\* hand-over: free, offered or taken.
RingOK ==
  /\ pipe_size \in 0..pipe_max_size
  /\ pipe_size > 0 => first \in Slots /\ last = (first + pipe_size - 1) % pipe_max_size
  /\ pipe_max_size = 0 => /\ first \in {0, 1} /\ last \in {first, 1}
                          /\ last = 1 => data[0] = None

\* What a caller holds: the item it wants to pass, or nothing.
CallersOK ==
  /\ \A t \in Inside(InEnqueue) : items[t] \in Items /\ ok[t] = TRUE
  /\ \A t \in Inside(InHandoff \cup InDequeue) : items[t] = None /\ ok[t] = TRUE

\* Only a thread inside a call that uses a signaler sleeps on it.
SleepersOK ==
  /\ dequeue_sig \subseteq Inside({"dequeue", "dequeue_or_timeout"})
  /\ enqueue_sig \subseteq Inside(Enqueuers \ {"enqueue_late"})
  /\ unblock_sig \subseteq Inside(Waiters)

\* The slot of a pipe without capacity belongs to one caller at a time.
SlotOwned ==
  /\ \A t, u \in Inside(InHandoff) : t = u
  /\ Inside(InHandoff) # {} <=> pipe_max_size = 0 /\ first = 0

DestroyedLast == life = "destroyed" => Inside({"idle"}) = Threads

PipeInv ==
  /\ TypesOK /\ RingOK /\ CallersOK /\ SleepersOK
  /\ SlotOwned /\ WaitersCounted /\ DestroyedLast

Places == {"idle"} \cup Enqueuers \cup InDequeue \cup Waiters

One(b) == IF b THEN 1 ELSE 0

-----------------------------------------------------------------------------
(* The ring buffer *)

\* The n items from slot f on of a ring of m slots.
Ring(m, f, n, d) == [i \in 1..n |-> d[(f + i - 1) % m]]

LEMMA Wraps ==
  ASSUME NEW m \in Nat \ {0}, NEW f \in 0..(m - 1), NEW n \in 0..m
  PROVE  (f + n) % m = IF f + n < m THEN f + n ELSE f + n - m
<1>1. CASE f + n < m
  BY <1>1
<1>2. CASE f + n >= m
  BY <1>2
<1> QED
  BY <1>1, <1>2

\* What each of its items is.
LEMMA RingItem ==
  ASSUME NEW m \in Nat \ {0}, NEW f \in 0..(m - 1), NEW n \in 0..m, NEW d, NEW i \in 1..n
  PROVE  Ring(m, f, n, d)[i] = IF f + i - 1 < m THEN d[f + i - 1] ELSE d[f + i - 1 - m]
<1>1. CASE f + i - 1 < m
  <2>1. (f + i - 1) % m = f + i - 1
    BY <1>1
  <2> QED
    BY <1>1, <2>1 DEF Ring
<1>2. CASE f + i - 1 >= m
  <2>1. (f + i - 1) % m = f + i - 1 - m
    BY <1>2
  <2> QED
    BY <1>2, <2>1 DEF Ring
<1> QED
  BY <1>1, <1>2

\* It is a sequence.
LEMMA RingIsSeq ==
  ASSUME NEW S, NEW m \in Nat \ {0}, NEW f \in 0..(m - 1), NEW n \in 0..m,
         NEW d, \A i \in 0..(m - 1) : d[i] \in S
  PROVE  Ring(m, f, n, d) \in Seq(S) /\ Len(Ring(m, f, n, d)) = n
<1>1. ASSUME NEW i \in 1..n
      PROVE  (f + i - 1) % m \in 0..(m - 1)
  OBVIOUS
<1>2. \A i \in 1..n : d[(f + i - 1) % m] \in S
  BY <1>1
<1> QED
  BY <1>2 DEF Ring

\* e is d, a ring of elements of S, with v in the slot behind the n items from f on.
StoresBehind(S, m, f, n, d, slot, v, k, e) ==
  /\ m \in Nat \ {0} /\ f \in 0..(m - 1) /\ n \in 0..(m - 1) /\ v \in S /\ k = n + 1
  /\ slot = IF f + n < m THEN f + n ELSE f + n - m
  /\ \A i \in 0..(m - 1) : d[i] \in S
  /\ \A i \in 0..(m - 1) : e[i] = IF i = slot THEN v ELSE d[i]

\* An item stored there is the last one of the sequence.
LEMMA RingAppend ==
  ASSUME NEW S, NEW m, NEW f, NEW n, NEW d, NEW slot, NEW v, NEW k, NEW e,
         StoresBehind(S, m, f, n, d, slot, v, k, e)
  PROVE  Ring(m, f, k, e) = Append(Ring(m, f, n, d), v)
<1>1. /\ m \in Nat \ {0} /\ f \in 0..(m - 1) /\ n \in 0..(m - 1) /\ v \in S /\ k = n + 1
      /\ slot = (IF f + n < m THEN f + n ELSE f + n - m) /\ slot \in 0..(m - 1)
  BY DEF StoresBehind
<1>2. \A i \in 0..(m - 1) : e[i] = IF i = slot THEN v ELSE d[i]
  BY DEF StoresBehind
<1>3. /\ Ring(m, f, n + 1, e) \in Seq(S) /\ Len(Ring(m, f, n + 1, e)) = n + 1
      /\ \A i \in 1..(n + 1) : Ring(m, f, n + 1, e)[i] =
                                 IF f + i - 1 < m THEN e[f + i - 1] ELSE e[f + i - 1 - m]
  <2>1. \A i \in 0..(m - 1) : e[i] \in S
    BY <1>1, <1>2 DEF StoresBehind
  <2>2. \A c \in 0..m : Ring(m, f, c, e) \in Seq(S) /\ Len(Ring(m, f, c, e)) = c
    BY <1>1, <2>1, RingIsSeq
  <2>3. \A c \in 0..m : \A i \in 1..c : Ring(m, f, c, e)[i] =
          IF f + i - 1 < m THEN e[f + i - 1] ELSE e[f + i - 1 - m]
    BY <1>1, RingItem
  <2>4. n + 1 \in 0..m
    BY <1>1
  <2> QED
    BY <2>2, <2>3, <2>4
<1>4. /\ Ring(m, f, n, d) \in Seq(S) /\ Len(Ring(m, f, n, d)) = n
      /\ \A i \in 1..n : Ring(m, f, n, d)[i] =
                           IF f + i - 1 < m THEN d[f + i - 1] ELSE d[f + i - 1 - m]
  <2>1. n \in 0..m /\ \A i \in 0..(m - 1) : d[i] \in S
    BY <1>1 DEF StoresBehind
  <2>2. Ring(m, f, n, d) \in Seq(S) /\ Len(Ring(m, f, n, d)) = n
    BY <1>1, <2>1, RingIsSeq
  <2>3. \A i \in 1..n : Ring(m, f, n, d)[i] =
          IF f + i - 1 < m THEN d[f + i - 1] ELSE d[f + i - 1 - m]
    BY <1>1, <2>1, RingItem
  <2> QED
    BY <2>2, <2>3
<1>5. /\ Append(Ring(m, f, n, d), v) \in Seq(S)
      /\ Len(Append(Ring(m, f, n, d), v)) = n + 1
      /\ \A i \in 1..(n + 1) : Append(Ring(m, f, n, d), v)[i] =
                                 IF i = n + 1 THEN v ELSE Ring(m, f, n, d)[i]
  BY <1>1, <1>4
<1>6. ASSUME NEW i \in 1..(n + 1)
      PROVE  Ring(m, f, n + 1, e)[i] = Append(Ring(m, f, n, d), v)[i]
  <2>1. CASE i = n + 1
    BY <1>1, <1>2, <1>3, <1>5, <2>1
  <2>2. CASE i # n + 1
    <3>1. i \in 1..n
      BY <1>1, <2>2
    <3>2. CASE f + i - 1 < m
      <4>1. f + i - 1 \in 0..(m - 1) /\ f + i - 1 # slot
        BY <1>1, <3>1, <3>2
      <4> QED
        BY <1>2, <1>3, <1>4, <1>5, <2>2, <3>1, <3>2, <4>1
    <3>3. CASE ~(f + i - 1 < m)
      <4>1. f + i - 1 - m \in 0..(m - 1) /\ f + i - 1 - m # slot
        BY <1>1, <3>1, <3>3
      <4> QED
        BY <1>2, <1>3, <1>4, <1>5, <2>2, <3>1, <3>3, <4>1
    <3> QED
      BY <3>2, <3>3
  <2> QED
    BY <2>1, <2>2
<1> QED
  BY <1>1, <1>3, <1>5, <1>6, SeqEqual

\* e is d, a ring of elements of S, with x in the first slot of the n items from f on.
TakesFirst(S, m, f, n, d, next, x, k, e) ==
  /\ m \in Nat \ {0} /\ f \in 0..(m - 1) /\ n \in 1..m /\ x \in S /\ k = n - 1
  /\ next = IF f + 1 < m THEN f + 1 ELSE f + 1 - m
  /\ \A i \in 0..(m - 1) : d[i] \in S
  /\ \A i \in 0..(m - 1) : e[i] = IF i = f THEN x ELSE d[i]

\* The item there is the first one of the sequence; without it the sequence is
\* what begins at the next slot.
LEMMA RingTail ==
  ASSUME NEW S, NEW m, NEW f, NEW n, NEW d, NEW next, NEW x, NEW k, NEW e,
         TakesFirst(S, m, f, n, d, next, x, k, e)
  PROVE  /\ Ring(m, f, n, d) # <<>>
         /\ Head(Ring(m, f, n, d)) = d[f]
         /\ Ring(m, next, k, e) = Tail(Ring(m, f, n, d))
<1> DEFINE s == Ring(m, f, n, d)
           r == Ring(m, next, n - 1, e)
<1>1. /\ m \in Nat \ {0} /\ f \in 0..(m - 1) /\ n \in 1..m /\ x \in S /\ k = n - 1
      /\ next = (IF f + 1 < m THEN f + 1 ELSE f + 1 - m) /\ next \in 0..(m - 1)
  BY DEF TakesFirst
<1>2. \A i \in 0..(m - 1) : e[i] = IF i = f THEN x ELSE d[i]
  BY DEF TakesFirst
<1>3. /\ s \in Seq(S) /\ Len(s) = n
      /\ \A i \in 1..n : s[i] = IF f + i - 1 < m THEN d[f + i - 1] ELSE d[f + i - 1 - m]
  <2>1. n \in 0..m /\ \A i \in 0..(m - 1) : d[i] \in S
    BY <1>1 DEF TakesFirst
  <2>2. Ring(m, f, n, d) \in Seq(S) /\ Len(Ring(m, f, n, d)) = n
    BY <1>1, <2>1, RingIsSeq
  <2>3. \A i \in 1..n : Ring(m, f, n, d)[i] =
          IF f + i - 1 < m THEN d[f + i - 1] ELSE d[f + i - 1 - m]
    BY <1>1, <2>1, RingItem
  <2> QED
    BY <2>2, <2>3
<1>4. /\ r \in Seq(S) /\ Len(r) = n - 1
      /\ \A i \in 1..(n - 1) : r[i] =
                      IF next + i - 1 < m THEN e[next + i - 1] ELSE e[next + i - 1 - m]
  <2>1. \A i \in 0..(m - 1) : e[i] \in S
    BY <1>1, <1>2 DEF TakesFirst
  <2>2. \A c \in 0..m : Ring(m, next, c, e) \in Seq(S) /\ Len(Ring(m, next, c, e)) = c
    BY <1>1, <2>1, RingIsSeq
  <2>3. \A c \in 0..m : \A i \in 1..c : Ring(m, next, c, e)[i] =
          IF next + i - 1 < m THEN e[next + i - 1] ELSE e[next + i - 1 - m]
    BY <1>1, RingItem
  <2>4. n - 1 \in 0..m
    BY <1>1
  <2> QED
    BY <2>2, <2>3, <2>4
<1> HIDE DEF s, r
<1>5. s # <<>> /\ Head(s) = d[f]
  <2>1. Len(s) # 0 /\ s[1] = d[f]
    BY <1>1, <1>3
  <2> QED
    BY <1>3, <2>1
<1>6. /\ Tail(s) \in Seq(S) /\ Len(Tail(s)) = n - 1
      /\ \A i \in 1..(n - 1) : Tail(s)[i] = s[i + 1]
  BY <1>1, <1>3, <1>5, HeadTailProperties
<1>7. ASSUME NEW i \in 1..(n - 1)
      PROVE  r[i] = Tail(s)[i]
  <2>1. s[i + 1] = IF f + i < m THEN d[f + i] ELSE d[f + i - m]
    <3> DEFINE at == i + 1
    <3>1. at \in 1..n /\ f + at - 1 = f + i /\ f + at - 1 - m = f + i - m
      BY <1>1
    <3>2. s[at] = IF f + at - 1 < m THEN d[f + at - 1] ELSE d[f + at - 1 - m]
      <4> HIDE DEF at
      <4> QED
        BY <1>3, <3>1
    <3> QED
      BY <3>1, <3>2
  <2>2. CASE f + i < m
    <3>1. next + i - 1 = f + i /\ f + i \in 0..(m - 1) /\ f + i # f
      BY <1>1, <2>2
    <3> QED
      BY <1>2, <1>4, <1>6, <2>1, <2>2, <3>1
  <2>3. CASE ~(f + i < m)
    <3>1. f + i - m \in 0..(m - 1) /\ f + i - m # f
      BY <1>1, <2>3
    <3>2. r[i] = e[f + i - m]
      <4>1. CASE next = f + 1
        BY <1>1, <1>4, <2>3, <4>1
      <4>2. CASE next = f + 1 - m
        BY <1>1, <1>4, <2>3, <4>2
      <4> QED
        BY <1>1, <4>1, <4>2
    <3> QED
      BY <1>2, <1>6, <2>1, <2>3, <3>1, <3>2
  <2> QED
    BY <2>2, <2>3
<1>8. r = Tail(s)
  BY <1>1, <1>4, <1>6, <1>7, SeqEqual
<1> QED
  BY <1>1, <1>5, <1>8 DEF s, r

USE PipeAssumption

-----------------------------------------------------------------------------
(* Counting *)

\* Every set of threads is finite.
LEMMA InsideFinite ==
  ASSUME NEW W
  PROVE  IsFiniteSet(Inside(W)) /\ Cardinality(Inside(W)) \in Nat
<1>1. Inside(W) \subseteq Threads
  BY DEF Inside
<1> QED
  BY <1>1, FS_Subset, FS_CardinalityType

\* The counters are natural numbers, and zero when nobody is inside.
LEMMA CountersAreNat ==
  ASSUME WaitersCounted
  PROVE  /\ dequeue_waiters \in Nat /\ enqueue_waiters \in Nat /\ unblock_sig_waiters \in Nat
         /\ dequeue_waiters = 0 => Inside(InDequeue) = {}
         /\ enqueue_waiters = 0 => Inside(Enqueuers) = {}
         /\ unblock_sig_waiters = 0 => Inside(Waiters) = {}
BY InsideFinite, FS_EmptySet DEF WaitersCounted, Enqueuers, Waiters

\* A step of t changes the size of a set of threads by t's part in it.
LEMMA CountStep ==
  ASSUME TypesOK, NEW t \in Threads, NEW where, NEW W,
         pc' = [pc EXCEPT ![t] = where]
  PROVE  Cardinality(Inside(W)') = Cardinality(Inside(W)) + One(where \in W) - One(pc[t] \in W)
<1>1. IsFiniteSet(Inside(W)) /\ Cardinality(Inside(W)) \in Nat
  BY InsideFinite
<1>2. Inside(W)' = IF where \in W THEN Inside(W) \cup {t} ELSE Inside(W) \ {t}
  BY DEF Inside, TypesOK
<1>3. t \in Inside(W) <=> pc[t] \in W
  BY DEF Inside
<1>4. CASE where \in W
  <2>1. Cardinality(Inside(W) \cup {t}) =
          IF t \in Inside(W) THEN Cardinality(Inside(W)) ELSE Cardinality(Inside(W)) + 1
    BY <1>1, FS_AddElement
  <2> QED
    BY <1>1, <1>2, <1>3, <1>4, <2>1 DEF One
<1>5. CASE where \notin W
  <2>1. Cardinality(Inside(W) \ {t}) =
          IF t \in Inside(W) THEN Cardinality(Inside(W)) - 1 ELSE Cardinality(Inside(W))
    BY <1>1, FS_RemoveElement
  <2> QED
    BY <1>1, <1>2, <1>3, <1>5, <2>1 DEF One
<1> QED
  BY <1>4, <1>5

\* The counters stay right when each changes by t's part in what it counts.
LEMMA Counting ==
  ASSUME TypesOK, WaitersCounted, NEW t \in Threads, NEW where,
         pc' = [pc EXCEPT ![t] = where],
         dequeue_waiters' = dequeue_waiters + One(where \in InDequeue) - One(pc[t] \in InDequeue),
         enqueue_waiters' = enqueue_waiters + One(where \in Enqueuers) - One(pc[t] \in Enqueuers),
         unblock_sig_waiters' =
           unblock_sig_waiters + One(where \in Waiters) - One(pc[t] \in Waiters)
  PROVE  WaitersCounted'
<1>1. Cardinality(Inside(InDequeue)') =
        Cardinality(Inside(InDequeue)) + One(where \in InDequeue) - One(pc[t] \in InDequeue)
  BY CountStep
<1>2. Cardinality(Inside(Enqueuers)') =
        Cardinality(Inside(Enqueuers)) + One(where \in Enqueuers) - One(pc[t] \in Enqueuers)
  BY CountStep
<1>3. Cardinality(Inside(Waiters)') =
        Cardinality(Inside(Waiters)) + One(where \in Waiters) - One(pc[t] \in Waiters)
  BY CountStep
<1> QED
  BY <1>1, <1>2, <1>3 DEF WaitersCounted, Enqueuers, Waiters

\* Nobody's place changes.
LEMMA CountingSame ==
  ASSUME WaitersCounted, UNCHANGED <<pc, counts>>
  PROVE  WaitersCounted'
<1>1. \A W : Inside(W)' = Inside(W)
  BY DEF Inside
<1> QED
  BY <1>1 DEF WaitersCounted, counts, Inside, InEnqueue, InHandoff, InDequeue


-----------------------------------------------------------------------------
(* What a call is before its step *)

\* t is in a call to enqueue() or enqueue_or_timeout() with item v, awake, or begins one.
MayEnqueue(t, v, ew) ==
  \/ Free(t) /\ ew = enqueue_waiters + 1
  \/ pc[t] \in InEnqueue /\ t \notin enqueue_sig /\ v = items[t] /\ ew = enqueue_waiters

EnqueueStep(t, v, timed, ew) ==
  /\ MayEnqueue(t, v, ew)
  /\ \/ EnqueueSleeps(t, v, timed, ew)
     \/ EnqueueReturnsFalse(t, v, ew)
     \/ CanEnqueue /\ EnqueueStores(t, v, timed, ew)
  /\ UNCHANGED <<pipe_max_size, flags, dequeue_waiters, unblock_sig_waiters, life>>

\* t is in a call to dequeue() or dequeue_or_timeout(), awake, or begins one.
MayDequeue(t, dw, es, us) ==
  \/ /\ Free(t) /\ dw = dequeue_waiters + 1
     /\ es = BroadcastIf(pipe_size = 0 /\ enqueue_waiters > 0, enqueue_sig)
     /\ us = BroadcastIf(pipe_size = 0 /\ unblock_sig_waiters > 0, unblock_sig)
  \/ /\ pc[t] \in InDequeue /\ t \notin dequeue_sig /\ dw = dequeue_waiters
     /\ es = enqueue_sig /\ us = unblock_sig

DequeueStep(t, timed, dw, es, us) ==
  /\ MayDequeue(t, dw, es, us)
  /\ \/ DequeueSleeps(t, timed, dw, es, us)
     \/ /\ pc[t] \in {"dequeue", "dequeue_or_timeout"} => ~CanDequeue
        /\ DequeueReturnsFalse(t, dw, es)
     \/ CanDequeue /\ DequeueTakes(t, dw, es, us)
  /\ UNCHANGED <<pipe_max_size, flags, enqueue_waiters, unblock_sig_waiters, life>>

\* Every step of the two functions is one of these.
LEMMA EnqueueSteps ==
  ASSUME PipeInv, NEW t \in Threads, Enqueue(t) \/ EnqueueOrTimeout(t), UNCHANGED pipe_max_size
  PROVE  \E v \in Items, timed \in BOOLEAN, ew \in Nat : EnqueueStep(t, v, timed, ew)
<1>1. enqueue_waiters \in Nat /\ enqueue_waiters + 1 \in Nat
  BY CountersAreNat DEF PipeInv
<1>2. Fresh \subseteq Items
  BY DEF Fresh, Items, PipeInv, TypesOK
<1>3. pc[t] \in InEnqueue => items[t] \in Items
  BY DEF PipeInv, CallersOK, Inside
<1>4. ASSUME NEW v, NEW timed \in BOOLEAN, NEW expired \in BOOLEAN, NEW ew,
             EnqueueFrom(t, v, timed, expired, ew)
      PROVE  \/ EnqueueSleeps(t, v, timed, ew)
             \/ EnqueueReturnsFalse(t, v, ew)
             \/ CanEnqueue /\ EnqueueStores(t, v, timed, ew)
  BY <1>4 DEF EnqueueFrom
<1>5. CASE Enqueue(t)
  <2>1. UNCHANGED <<pipe_max_size, flags, dequeue_waiters, unblock_sig_waiters, life>>
    BY <1>5 DEF Enqueue
  <2>2. CASE \E v \in Fresh : Free(t) /\ EnqueueFrom(t, v, FALSE, FALSE, enqueue_waiters + 1)
    <3>1. PICK v \in Fresh : Free(t) /\ EnqueueFrom(t, v, FALSE, FALSE, enqueue_waiters + 1)
      BY <2>2
    <3>2. EnqueueStep(t, v, FALSE, enqueue_waiters + 1)
      BY <1>4, <2>1, <3>1 DEF EnqueueStep, MayEnqueue
    <3> QED
      BY <1>1, <1>2, <3>2
  <2>3. CASE /\ Woken(t, "enqueue", enqueue_sig)
             /\ EnqueueFrom(t, items[t], FALSE, FALSE, enqueue_waiters)
    <3>1. EnqueueStep(t, items[t], FALSE, enqueue_waiters)
      BY <1>4, <2>1, <2>3 DEF EnqueueStep, MayEnqueue, Woken, InEnqueue
    <3>2. items[t] \in Items
      BY <1>3, <2>3 DEF Woken, InEnqueue
    <3> QED
      BY <1>1, <3>1, <3>2
  <2> QED
    BY <1>5, <2>2, <2>3 DEF Enqueue
<1>6. CASE EnqueueOrTimeout(t)
  <2>1. UNCHANGED <<pipe_max_size, flags, dequeue_waiters, unblock_sig_waiters, life>>
    BY <1>6 DEF EnqueueOrTimeout
  <2>2. ASSUME NEW v \in Fresh, NEW expired \in BOOLEAN, Free(t),
               EnqueueFrom(t, v, TRUE, expired, enqueue_waiters + 1)
        PROVE  \E w \in Items, timed \in BOOLEAN, ew \in Nat : EnqueueStep(t, w, timed, ew)
    <3>1. EnqueueStep(t, v, TRUE, enqueue_waiters + 1)
      BY <1>4, <2>1, <2>2 DEF EnqueueStep, MayEnqueue
    <3> QED
      BY <1>1, <1>2, <3>1
  <2>3. ASSUME NEW expired \in BOOLEAN, pc[t] \in InEnqueue, t \notin enqueue_sig,
               EnqueueFrom(t, items[t], TRUE, expired, enqueue_waiters)
        PROVE  \E w \in Items, timed \in BOOLEAN, ew \in Nat : EnqueueStep(t, w, timed, ew)
    <3>1. EnqueueStep(t, items[t], TRUE, enqueue_waiters)
      BY <1>4, <2>1, <2>3 DEF EnqueueStep, MayEnqueue
    <3> QED
      BY <1>1, <1>3, <2>3, <3>1
  <2>4. pc[t] = "enqueue_late" => t \notin enqueue_sig
    BY DEF PipeInv, SleepersOK, Inside
  <2>5. CASE \E v \in Fresh :
               /\ Free(t)
               /\ \/ EnqueueFrom(t, v, TRUE, FALSE, enqueue_waiters + 1)
                  \/ EnqueueFrom(t, v, TRUE, TRUE, enqueue_waiters + 1)
    BY <2>2, <2>5
  <2>6. CASE /\ Woken(t, "enqueue_or_timeout", enqueue_sig)
             /\ EnqueueFrom(t, items[t], TRUE, FALSE, enqueue_waiters)
    BY <2>3, <2>6 DEF Woken, InEnqueue
  <2>7. CASE pc[t] = "enqueue_late" /\ EnqueueFrom(t, items[t], TRUE, TRUE, enqueue_waiters)
    BY <2>3, <2>4, <2>7 DEF InEnqueue
  <2> QED
    BY <1>6, <2>5, <2>6, <2>7 DEF EnqueueOrTimeout
<1> QED
  BY <1>5, <1>6

LEMMA DequeueSteps ==
  ASSUME PipeInv, NEW t \in Threads, Dequeue(t) \/ DequeueOrTimeout(t), UNCHANGED pipe_max_size
  PROVE  \E timed \in BOOLEAN : \E dw, es, us : DequeueStep(t, timed, dw, es, us)
<1>1. ASSUME NEW timed \in BOOLEAN, NEW expired \in BOOLEAN, NEW dw, NEW es, NEW us,
             DequeueFrom(t, timed, expired, dw, es, us),
             expired => pc[t] \notin {"dequeue", "dequeue_or_timeout"}
      PROVE  \/ DequeueSleeps(t, timed, dw, es, us)
             \/ /\ pc[t] \in {"dequeue", "dequeue_or_timeout"} => ~CanDequeue
                /\ DequeueReturnsFalse(t, dw, es)
             \/ CanDequeue /\ DequeueTakes(t, dw, es, us)
  BY <1>1 DEF DequeueFrom
<1>2. UNCHANGED <<pipe_max_size, flags, enqueue_waiters, unblock_sig_waiters, life>>
  BY DEF Dequeue, DequeueOrTimeout
<1>3. ASSUME NEW timed \in BOOLEAN, NEW expired \in BOOLEAN, Free(t),
             DequeueCall(t, timed, expired)
      PROVE  \E dw, es, us : DequeueStep(t, timed, dw, es, us)
  <2> DEFINE es == BroadcastIf(pipe_size = 0 /\ enqueue_waiters > 0, enqueue_sig)
             us == BroadcastIf(pipe_size = 0 /\ unblock_sig_waiters > 0, unblock_sig)
  <2>1. pc[t] \notin {"dequeue", "dequeue_or_timeout"}
    BY <1>3 DEF Free
  <2>2. DequeueFrom(t, timed, expired, dequeue_waiters + 1, es, us)
    BY <1>3 DEF DequeueCall
  <2>3. MayDequeue(t, dequeue_waiters + 1, es, us)
    BY <1>3 DEF MayDequeue
  <2> HIDE DEF es, us
  <2>4. DequeueStep(t, timed, dequeue_waiters + 1, es, us)
    BY <1>1, <1>2, <2>1, <2>2, <2>3 DEF DequeueStep
  <2> QED
    BY <2>4
<1>4. ASSUME NEW timed \in BOOLEAN, NEW expired \in BOOLEAN,
             pc[t] \in InDequeue, t \notin dequeue_sig,
             expired => pc[t] = "dequeue_late",
             DequeueFrom(t, timed, expired, dequeue_waiters, enqueue_sig, unblock_sig)
      PROVE  \E dw, es, us : DequeueStep(t, timed, dw, es, us)
  <2>1. MayDequeue(t, dequeue_waiters, enqueue_sig, unblock_sig)
    BY <1>4 DEF MayDequeue
  <2>2. DequeueStep(t, timed, dequeue_waiters, enqueue_sig, unblock_sig)
    BY <1>1, <1>2, <1>4, <2>1 DEF DequeueStep
  <2> QED
    BY <2>2
<1>5. CASE Dequeue(t)
  BY <1>3, <1>4, <1>5 DEF Dequeue, Woken, InDequeue
<1>6. CASE DequeueOrTimeout(t)
  <2>1. pc[t] = "dequeue_late" => t \notin dequeue_sig
    BY DEF PipeInv, SleepersOK, Inside
  <2>2. CASE Free(t) /\ (DequeueCall(t, TRUE, FALSE) \/ DequeueCall(t, TRUE, TRUE))
    BY <1>3, <2>2
  <2>3. CASE /\ Woken(t, "dequeue_or_timeout", dequeue_sig)
             /\ DequeueFrom(t, TRUE, FALSE, dequeue_waiters, enqueue_sig, unblock_sig)
    BY <1>4, <2>3 DEF Woken, InDequeue
  <2>4. CASE /\ pc[t] = "dequeue_late"
             /\ DequeueFrom(t, TRUE, TRUE, dequeue_waiters, enqueue_sig, unblock_sig)
    BY <1>4, <2>1, <2>4 DEF InDequeue
  <2> QED
    BY <1>6, <2>2, <2>3, <2>4 DEF DequeueOrTimeout
<1> QED
  BY <1>5, <1>6

-----------------------------------------------------------------------------
(* The invariant *)

LEMMA InitInv == Init => PipeInv
<1> SUFFICES ASSUME Init PROVE PipeInv
  OBVIOUS
<1>1. \A W : "idle" \notin W => Inside(W) = {}
  BY DEF Init, Inside
<1>2. pipe_max_size \in Nat
  BY DEF Init
<1>3. TypesOK
  BY DEF Init, TypesOK
<1>4. RingOK
  BY <1>2 DEF Init, RingOK, Slots
<1>5. CallersOK /\ SleepersOK /\ SlotOwned
  BY <1>1 DEF Init, CallersOK, SleepersOK, SlotOwned, InEnqueue, InHandoff, InDequeue
<1>6. WaitersCounted
  BY <1>1, FS_EmptySet DEF Init, WaitersCounted, InEnqueue, InHandoff, InDequeue
<1>7. DestroyedLast
  BY DEF Init, DestroyedLast
<1> QED
  BY <1>3, <1>4, <1>5, <1>6, <1>7 DEF PipeInv

\* Thread t goes to a place with an item, and what that leaves alone.
LEMMA Moves ==
  ASSUME TypesOK, NEW t \in Threads, NEW where \in Places, pc' = [pc EXCEPT ![t] = where]
  PROVE  /\ pc' \in [Threads -> Places]
         /\ pc'[t] = where /\ \A u \in Threads : u # t => pc'[u] = pc[u]
         /\ \A W : Inside(W)' = IF where \in W THEN Inside(W) \cup {t} ELSE Inside(W) \ {t}
BY DEF TypesOK, Places, Inside

\* The parts of the invariant that look at one thread at a time.
LEMMA CallersMove ==
  ASSUME TypesOK, CallersOK, NEW t \in Threads, NEW where \in Places,
         NEW v \in Items \cup {None}, NEW r \in BOOLEAN,
         At(t, where, v), ok' = [ok EXCEPT ![t] = r],
         where \in InEnqueue => v \in Items /\ r = TRUE,
         where \in InHandoff \cup InDequeue => v = None /\ r = TRUE
  PROVE  /\ CallersOK'
         /\ pc' \in [Threads -> {"idle"} \cup Enqueuers \cup InDequeue \cup Waiters]
         /\ items' \in [Threads -> Items \cup {None}]
         /\ ok' \in [Threads -> BOOLEAN]
<1>1. /\ pc' \in [Threads -> Places]
      /\ pc'[t] = where /\ \A u \in Threads : u # t => pc'[u] = pc[u]
  BY Moves DEF At
<1>2. /\ items' \in [Threads -> Items \cup {None}] /\ ok' \in [Threads -> BOOLEAN]
      /\ items'[t] = v /\ \A u \in Threads : u # t => items'[u] = items[u]
      /\ ok'[t] = r /\ \A u \in Threads : u # t => ok'[u] = ok[u]
  BY DEF At, TypesOK
<1>3. CallersOK'
  BY <1>1, <1>2 DEF CallersOK, Inside, InEnqueue, InHandoff, InDequeue
<1> QED
  BY <1>1, <1>2, <1>3 DEF Places

\* A thread that is not idle, or begins a call, is in a pipe that exists.
LEMMA NotDestroyed ==
  ASSUME PipeInv, NEW t \in Threads, Free(t) \/ pc[t] # "idle"
  PROVE  life # "destroyed"
BY DEF PipeInv, DestroyedLast, Inside, Free

\* What holds of a thread that may go on in enqueue(), and the same for dequeue().
LEMMA EnqueuerKnows ==
  ASSUME PipeInv, NEW t \in Threads, NEW v, NEW ew, MayEnqueue(t, v, ew)
  PROVE  /\ pc[t] \in {"idle"} \cup InEnqueue
         /\ One(pc[t] \in Enqueuers) \in {0, 1}
         /\ ew = enqueue_waiters + 1 - One(pc[t] \in Enqueuers)
         /\ Leaves(ew) = enqueue_waiters - One(pc[t] \in Enqueuers)
         /\ One(pc[t] \in InDequeue) = 0 /\ One(pc[t] \in Waiters) = 0
         /\ t \notin dequeue_sig /\ t \notin enqueue_sig /\ t \notin unblock_sig
         /\ t \notin Inside(InHandoff)
         /\ life # "destroyed"
<1>1. enqueue_waiters \in Nat
  BY CountersAreNat DEF PipeInv
<1>2. life # "destroyed"
  BY NotDestroyed DEF MayEnqueue, InEnqueue
<1>3. CASE Free(t) /\ ew = enqueue_waiters + 1
  BY <1>1, <1>2, <1>3 DEF Free, One, Enqueuers, InEnqueue, InHandoff, InDequeue, Waiters, Leaves,
                          PipeInv, SleepersOK, Inside
<1>4. CASE pc[t] \in InEnqueue /\ t \notin enqueue_sig /\ v = items[t] /\ ew = enqueue_waiters
  BY <1>1, <1>2, <1>4 DEF One, Enqueuers, InEnqueue, InHandoff, InDequeue, Waiters, Leaves,
                          PipeInv, SleepersOK, Inside
<1> QED
  BY <1>3, <1>4 DEF MayEnqueue

LEMMA DequeuerKnows ==
  ASSUME PipeInv, NEW t \in Threads, NEW dw, NEW es, NEW us, MayDequeue(t, dw, es, us)
  PROVE  /\ pc[t] \in {"idle"} \cup InDequeue
         /\ One(pc[t] \in InDequeue) \in {0, 1}
         /\ dw = dequeue_waiters + 1 - One(pc[t] \in InDequeue)
         /\ Leaves(dw) = dequeue_waiters - One(pc[t] \in InDequeue)
         /\ One(pc[t] \in Enqueuers) = 0 /\ One(pc[t] \in Waiters) = 0
         /\ t \notin dequeue_sig /\ t \notin enqueue_sig /\ t \notin unblock_sig
         /\ t \notin Inside(InHandoff)
         /\ es \in {enqueue_sig, {}} /\ us \in {unblock_sig, {}}
         /\ life # "destroyed"
<1>1. dequeue_waiters \in Nat
  BY CountersAreNat DEF PipeInv
<1>2. life # "destroyed"
  BY NotDestroyed DEF MayDequeue, InDequeue
<1>3. es \in {enqueue_sig, {}} /\ us \in {unblock_sig, {}}
  BY DEF MayDequeue, BroadcastIf
<1>4. CASE Free(t) /\ dw = dequeue_waiters + 1
  BY <1>1, <1>2, <1>3, <1>4 DEF Free, One, Enqueuers, InEnqueue, InHandoff, InDequeue, Waiters,
                          Leaves, PipeInv, SleepersOK, Inside
<1>5. CASE pc[t] \in InDequeue /\ t \notin dequeue_sig /\ dw = dequeue_waiters
  BY <1>1, <1>2, <1>3, <1>5 DEF One, Enqueuers, InEnqueue, InHandoff, InDequeue, Waiters, Leaves,
                          PipeInv, SleepersOK, Inside
<1> QED
  BY <1>4, <1>5 DEF MayDequeue

\* signal() leaves all sleepers but at most one.
LEMMA SignalSubset ==
  ASSUME NEW S, NEW T \in Signal(S)
  PROVE  T \subseteq S
BY DEF Signal

\* The slots of a pipe with capacity and of one without.
LEMMA SlotsAre ==
  ASSUME TypesOK
  PROVE  /\ pipe_max_size \in Nat
         /\ pipe_max_size > 0 => Slots = 0..(pipe_max_size - 1)
         /\ pipe_max_size = 0 => Slots = {0}
BY DEF TypesOK, Slots

\* A step of t from its place to another one, with what it holds there, as far as
\* the invariant looks at single threads, at the sleepers and at the counters.
Goes(t, where, v, r) ==
  /\ At(t, where, v) /\ ok' = [ok EXCEPT ![t] = r]
  /\ where \in InEnqueue => v \in Items /\ r = TRUE
  /\ where \in InHandoff \cup InDequeue => v = None /\ r = TRUE
  /\ dequeue_waiters' = dequeue_waiters + One(where \in InDequeue) - One(pc[t] \in InDequeue)
  /\ enqueue_waiters' = enqueue_waiters + One(where \in Enqueuers) - One(pc[t] \in Enqueuers)
  /\ unblock_sig_waiters' =
       unblock_sig_waiters + One(where \in Waiters) - One(pc[t] \in Waiters)
  /\ dequeue_sig' \subseteq
       IF where \in InDequeue \ {"dequeue_late"} THEN dequeue_sig \cup {t} ELSE dequeue_sig \ {t}
  /\ enqueue_sig' \subseteq
       IF where \in Enqueuers \ {"enqueue_late"} THEN enqueue_sig \cup {t} ELSE enqueue_sig \ {t}
  /\ unblock_sig' \subseteq
       IF where \in Waiters THEN unblock_sig \cup {t} ELSE unblock_sig \ {t}

LEMMA LocalStep ==
  ASSUME PipeInv, NEW t \in Threads, NEW where \in Places,
         NEW v \in Items \cup {None}, NEW r \in BOOLEAN, Goes(t, where, v, r)
  PROVE  /\ CallersOK' /\ SleepersOK' /\ WaitersCounted'
         /\ pc' \in [Threads -> {"idle"} \cup Enqueuers \cup InDequeue \cup Waiters]
         /\ items' \in [Threads -> Items \cup {None}]
         /\ ok' \in [Threads -> BOOLEAN]
         /\ Inside(InHandoff)' = IF where \in InHandoff THEN Inside(InHandoff) \cup {t}
                                 ELSE Inside(InHandoff) \ {t}
<1>1. TypesOK /\ CallersOK /\ SleepersOK /\ WaitersCounted
  BY DEF PipeInv
<1>2. /\ CallersOK'
      /\ pc' \in [Threads -> {"idle"} \cup Enqueuers \cup InDequeue \cup Waiters]
      /\ items' \in [Threads -> Items \cup {None}]
      /\ ok' \in [Threads -> BOOLEAN]
  BY <1>1, CallersMove DEF Goes
<1>3. WaitersCounted'
  BY <1>1, Counting DEF At, Goes
<1>4. \A W : Inside(W)' = IF where \in W THEN Inside(W) \cup {t} ELSE Inside(W) \ {t}
  BY <1>1, Moves DEF At, Goes
<1>5. dequeue_sig' \subseteq Inside({"dequeue", "dequeue_or_timeout"})'
  BY <1>1, <1>4 DEF SleepersOK, Goes, InDequeue
<1>6. enqueue_sig' \subseteq Inside(Enqueuers \ {"enqueue_late"})'
  BY <1>1, <1>4 DEF SleepersOK, Goes
<1>7. unblock_sig' \subseteq Inside(Waiters)'
  BY <1>1, <1>4 DEF SleepersOK, Goes
<1> QED
  BY <1>2, <1>3, <1>4, <1>5, <1>6, <1>7 DEF SleepersOK, Enqueuers, Waiters, InEnqueue, InHandoff

LEMMA EnqueueKeepsInv ==
  ASSUME PipeInv, NEW t \in Threads, NEW v \in Items, NEW timed \in BOOLEAN, NEW ew \in Nat,
         EnqueueStep(t, v, timed, ew)
  PROVE  PipeInv'
<1>1. /\ pc[t] \in {"idle"} \cup InEnqueue
      /\ One(pc[t] \in Enqueuers) \in {0, 1}
      /\ ew = enqueue_waiters + 1 - One(pc[t] \in Enqueuers)
      /\ Leaves(ew) = enqueue_waiters - One(pc[t] \in Enqueuers)
      /\ One(pc[t] \in InDequeue) = 0 /\ One(pc[t] \in Waiters) = 0
      /\ t \notin dequeue_sig /\ t \notin enqueue_sig /\ t \notin unblock_sig
      /\ t \notin Inside(InHandoff)
      /\ life # "destroyed"
  BY EnqueuerKnows DEF EnqueueStep
<1>2. /\ UNCHANGED <<pipe_max_size, enabled, enqueue_enabled, dequeue_enabled>>
      /\ UNCHANGED <<dequeue_waiters, unblock_sig_waiters, life>>
  BY DEF EnqueueStep, flags
<1>3. TypesOK /\ RingOK /\ CallersOK /\ SleepersOK /\ SlotOwned /\ WaitersCounted
  BY DEF PipeInv
<1>4. /\ pipe_max_size \in Nat
      /\ pipe_max_size > 0 => Slots = 0..(pipe_max_size - 1)
      /\ pipe_max_size = 0 => Slots = {0}
      /\ Slots' = Slots
  BY <1>2, <1>3, SlotsAre DEF Slots
<1>5. dequeue_waiters \in Nat /\ enqueue_waiters \in Nat /\ unblock_sig_waiters \in Nat
  BY <1>3, CountersAreNat
<1>6. DestroyedLast'
  BY <1>1, <1>2 DEF DestroyedLast
<1>7. CASE EnqueueSleeps(t, v, timed, ew)
  <2> DEFINE where == IF timed THEN "enqueue_or_timeout" ELSE "enqueue"
  <2>1. /\ At(t, where, v) /\ ok' = [ok EXCEPT ![t] = TRUE]
        /\ enqueue_sig' = enqueue_sig \cup {t} /\ enqueue_waiters' = ew
        /\ UNCHANGED <<pipe_size, first, last, data, dequeue_sig, unblock_sig>>
    BY <1>7 DEF EnqueueSleeps, Stay, ring
  <2>2. /\ where \in InEnqueue \ {"enqueue_late"} /\ where \in Places
        /\ where \in Enqueuers \ {"enqueue_late"}
        /\ where \notin InHandoff /\ where \notin InDequeue /\ where \notin Waiters
    BY DEF InEnqueue, InHandoff, InDequeue, Waiters, Places, Enqueuers
  <2> HIDE DEF where
  <2>3. /\ One(where \in InDequeue) = 0 /\ One(where \in Enqueuers) = 1
        /\ One(where \in Waiters) = 0
    BY <2>2 DEF One
  <2>4. /\ CallersOK' /\ SleepersOK' /\ WaitersCounted'
        /\ pc' \in [Threads -> {"idle"} \cup Enqueuers \cup InDequeue \cup Waiters]
        /\ items' \in [Threads -> Items \cup {None}] /\ ok' \in [Threads -> BOOLEAN]
        /\ Inside(InHandoff)' = Inside(InHandoff) \ {t}
    <3>1. Goes(t, where, v, TRUE)
      BY <1>1, <1>2, <1>5, <2>1, <2>2, <2>3 DEF Goes
    <3> QED
      BY <2>2, <3>1, LocalStep
  <2>5. TypesOK' /\ RingOK'
    BY <1>2, <1>3, <1>4, <2>1, <2>4 DEF TypesOK, RingOK
  <2>6. SlotOwned'
    BY <1>1, <1>2, <1>3, <2>1, <2>4 DEF SlotOwned
  <2> QED
    BY <1>6, <2>4, <2>5, <2>6 DEF PipeInv
<1>8. CASE EnqueueReturnsFalse(t, v, ew)
  <2> DEFINE where == "idle"
  <2>1. /\ At(t, where, v) /\ ok' = [ok EXCEPT ![t] = FALSE]
        /\ enqueue_waiters' = Leaves(ew) /\ unblock_sig' = {}
        /\ UNCHANGED <<pipe_size, first, last, data, dequeue_sig, enqueue_sig>>
    BY <1>8 DEF EnqueueReturnsFalse, Return, ring
  <2>2. /\ where \in Places /\ where \notin InEnqueue /\ where \notin InHandoff
        /\ where \notin InDequeue /\ where \notin Waiters /\ where \notin Enqueuers
    BY DEF InEnqueue, InHandoff, InDequeue, Waiters, Places, Enqueuers
  <2> HIDE DEF where
  <2>3. /\ One(where \in InDequeue) = 0 /\ One(where \in Enqueuers) = 0
        /\ One(where \in Waiters) = 0
    BY <2>2 DEF One
  <2>4. /\ CallersOK' /\ SleepersOK' /\ WaitersCounted'
        /\ pc' \in [Threads -> {"idle"} \cup Enqueuers \cup InDequeue \cup Waiters]
        /\ items' \in [Threads -> Items \cup {None}] /\ ok' \in [Threads -> BOOLEAN]
        /\ Inside(InHandoff)' = Inside(InHandoff) \ {t}
    <3>1. Goes(t, where, v, FALSE)
      BY <1>1, <1>2, <1>5, <2>1, <2>2, <2>3 DEF Goes
    <3> QED
      BY <2>2, <3>1, LocalStep
  <2>5. TypesOK' /\ RingOK'
    BY <1>2, <1>3, <1>4, <2>1, <2>4 DEF TypesOK, RingOK
  <2>6. SlotOwned'
    BY <1>1, <1>2, <1>3, <2>1, <2>4 DEF SlotOwned
  <2> QED
    BY <1>6, <2>4, <2>5, <2>6 DEF PipeInv
<1>9. CASE CanEnqueue /\ EnqueueStores(t, v, timed, ew)
  <2> DEFINE slot == IF pipe_size = 0 THEN 0 ELSE NextSlot(last)
             where == IF pipe_max_size > 0 THEN "idle"
                      ELSE IF timed THEN "handoff_timed" ELSE "handoff"
  <2>1. /\ first' = IF pipe_size = 0 THEN 0 ELSE first
        /\ last' = slot
        /\ data' = [data EXCEPT ![slot] = v]
        /\ dequeue_sig' \subseteq dequeue_sig
        /\ unblock_sig' = unblock_sig
    BY <1>9, SignalSubset DEF EnqueueStores
  <2>2. /\ pipe_size # pipe_max_size \/ (pipe_max_size = 0 /\ first = 1)
    BY <1>9 DEF EnqueueStores, EnqueueBlocks
  <2>3. /\ slot \in Slots /\ pipe_size \in Nat
        /\ pipe_max_size > 0 => pipe_size < pipe_max_size
        /\ pipe_max_size = 0 => slot = 0 /\ pipe_size = 0 /\ first = 1 /\ data[0] = None
    BY <1>3, <1>4, <2>2 DEF RingOK, NextSlot
  <2>4. data' \in [Slots -> Items \cup {None}]
    BY <1>3, <2>1 DEF TypesOK
  <2>5. /\ At(t, where, None) /\ ok' = [ok EXCEPT ![t] = TRUE]
        /\ pipe_max_size > 0 => /\ pipe_size' = pipe_size + 1 /\ enqueue_waiters' = Leaves(ew)
                                /\ enqueue_sig' = enqueue_sig
        /\ pipe_max_size = 0 => /\ pipe_size' = pipe_size /\ enqueue_waiters' = ew
                                /\ enqueue_sig' = enqueue_sig \cup {t}
    BY <1>4, <1>9, <2>3 DEF EnqueueStores, Stay, Return
  <2>6. /\ where \in Places
        /\ where \notin InEnqueue /\ where \notin InDequeue /\ where \notin Waiters
        /\ pipe_max_size > 0 => where \notin Enqueuers /\ where \notin InHandoff
        /\ pipe_max_size = 0 => where \in Enqueuers \ {"enqueue_late"} /\ where \in InHandoff
    BY <1>4 DEF InEnqueue, InHandoff, InDequeue, Waiters, Places, Enqueuers
  <2>7. pipe_max_size > 0 => /\ first' \in Slots
                             /\ slot = (first' + pipe_size) % pipe_max_size
    <3>1. CASE pipe_max_size > 0 /\ pipe_size = 0
      BY <1>4, <2>1, <3>1
    <3>2. CASE pipe_max_size > 0 /\ pipe_size > 0
      <4>1. /\ first \in 0..(pipe_max_size - 1) /\ first' = first
            /\ last = (first + pipe_size - 1) % pipe_max_size
            /\ slot = (last + 1) % pipe_max_size
        BY <1>3, <1>4, <2>1, <3>2 DEF RingOK, NextSlot
      <4>2. CASE first + pipe_size - 1 < pipe_max_size
        <5>1. last = first + pipe_size - 1
          BY <1>4, <2>3, <3>2, <4>1, <4>2
        <5> QED
          BY <1>4, <2>3, <3>2, <4>1, <5>1
      <4>3. CASE first + pipe_size - 1 >= pipe_max_size
        <5>1. last = first + pipe_size - 1 - pipe_max_size
          BY <1>4, <2>3, <3>2, <4>1, <4>3
        <5>2. last + 1 \in 0..(pipe_max_size - 1)
          BY <1>4, <2>3, <3>2, <4>1, <5>1
        <5>3. slot = first + pipe_size - pipe_max_size
          BY <1>4, <2>3, <4>1, <5>1, <5>2
        <5>4. (first + pipe_size) % pipe_max_size = first + pipe_size - pipe_max_size
          BY <1>4, <2>3, <3>2, <4>1, <4>3
        <5> QED
          BY <1>4, <4>1, <5>3, <5>4
      <4> QED
        BY <1>4, <2>3, <3>2, <4>1, <4>2, <4>3
    <3> QED
      BY <2>3, <3>1, <3>2
  <2> HIDE DEF slot, where
  <2>8. /\ One(where \in InDequeue) = 0 /\ One(where \in Waiters) = 0
        /\ One(where \in Enqueuers) = IF pipe_max_size > 0 THEN 0 ELSE 1
    BY <1>4, <2>6 DEF One
  <2>9. enqueue_waiters' = enqueue_waiters + One(where \in Enqueuers) - One(pc[t] \in Enqueuers)
    BY <1>1, <1>4, <1>5, <2>5, <2>8
  <2>10. /\ dequeue_sig' \subseteq dequeue_sig \ {t}
         /\ enqueue_sig' \subseteq IF where \in Enqueuers \ {"enqueue_late"}
                                 THEN enqueue_sig \cup {t} ELSE enqueue_sig \ {t}
         /\ unblock_sig' \subseteq unblock_sig \ {t}
    BY <1>1, <1>4, <2>1, <2>5, <2>6
  <2>11. /\ CallersOK' /\ SleepersOK' /\ WaitersCounted'
         /\ pc' \in [Threads -> {"idle"} \cup Enqueuers \cup InDequeue \cup Waiters]
         /\ items' \in [Threads -> Items \cup {None}] /\ ok' \in [Threads -> BOOLEAN]
        /\ Inside(InHandoff)' = IF where \in InHandoff THEN Inside(InHandoff) \cup {t}
                                ELSE Inside(InHandoff) \ {t}
    <3>1. Goes(t, where, None, TRUE)
      BY <1>1, <1>2, <1>4, <1>5, <2>5, <2>6, <2>8, <2>9, <2>10 DEF Goes
    <3> QED
      BY <2>6, <3>1, LocalStep
  <2>12. TypesOK'
    BY <1>2, <1>3, <1>4, <2>4, <2>11 DEF TypesOK
  <2>13. RingOK'
    BY <1>2, <1>4, <2>1, <2>3, <2>5, <2>7 DEF RingOK
  <2>14. SlotOwned'
    <3>1. CASE pipe_max_size = 0
      <4>1. Inside(InHandoff)' = {t}
        BY <1>3, <2>3, <2>6, <2>11, <3>1 DEF SlotOwned
      <4> QED
        BY <1>2, <2>1, <2>3, <3>1, <4>1 DEF SlotOwned
    <3>2. CASE pipe_max_size > 0
      BY <1>1, <1>2, <1>3, <1>4, <2>6, <2>11, <3>2 DEF SlotOwned
    <3> QED
      BY <1>4, <3>1, <3>2
  <2> QED
    BY <1>6, <2>11, <2>12, <2>13, <2>14 DEF PipeInv
<1> QED
  BY <1>7, <1>8, <1>9 DEF EnqueueStep

LEMMA IdleIsOutside ==
  /\ "idle" \in Places
  /\ "idle" \notin InEnqueue /\ "idle" \notin InHandoff /\ "idle" \notin InDequeue
  /\ "idle" \notin Enqueuers /\ "idle" \notin Waiters
  /\ One("idle" \in InDequeue) = 0 /\ One("idle" \in Enqueuers) = 0
  /\ One("idle" \in Waiters) = 0
BY DEF InEnqueue, InHandoff, InDequeue, Waiters, Places, Enqueuers, One

LEMMA HandoffKeepsInv ==
  ASSUME PipeInv, NEW t \in Threads, Handoff(t), UNCHANGED pipe_max_size
  PROVE  PipeInv'
<1>1. /\ pc[t] \in InHandoff /\ t \notin enqueue_sig
      /\ HandoffSleeps(t) \/ HandoffWithdraws(t) \/ HandoffEnds(t)
      /\ UNCHANGED <<enabled, enqueue_enabled, dequeue_enabled, dequeue_waiters>>
      /\ UNCHANGED <<unblock_sig_waiters, dequeue_sig, life, pipe_max_size>>
  BY DEF Handoff, Woken, InHandoff, flags
<1>2. TypesOK /\ RingOK /\ CallersOK /\ SleepersOK /\ SlotOwned /\ WaitersCounted
  BY DEF PipeInv
<1>3. /\ Inside(InHandoff) = {t} /\ pipe_max_size = 0 /\ first = 0 /\ pipe_size = 0
      /\ last \in {0, 1}
  <2>1. t \in Inside(InHandoff)
    BY <1>1 DEF Inside
  <2>2. pipe_max_size = 0 /\ first = 0 /\ Inside(InHandoff) = {t}
    BY <1>2, <2>1 DEF SlotOwned
  <2> QED
    BY <1>2, <2>2 DEF RingOK
<1>4. Slots = {0} /\ Slots' = Slots
  BY <1>1, <1>2, <1>3, SlotsAre DEF Slots
<1>5. dequeue_waiters \in Nat /\ enqueue_waiters \in Nat /\ unblock_sig_waiters \in Nat
  BY <1>2, CountersAreNat
<1>6. DestroyedLast'
  <2>1. pc[t] # "idle"
    BY <1>1 DEF InHandoff
  <2> QED
    BY <1>1, <2>1, NotDestroyed DEF DestroyedLast
<1>7. /\ One(pc[t] \in Enqueuers) = 1 /\ One(pc[t] \in InDequeue) = 0
      /\ One(pc[t] \in Waiters) = 0
      /\ t \notin dequeue_sig /\ t \notin unblock_sig
      /\ items[t] = None
  BY <1>1, <1>2 DEF One, Enqueuers, InHandoff, InDequeue, Waiters, SleepersOK, CallersOK, Inside
<1>8. CASE HandoffSleeps(t)
  <2>1. /\ enqueue_sig' = enqueue_sig \cup {t}
        /\ UNCHANGED <<pipe_size, first, last, data, pc, items, ok, enqueue_waiters, unblock_sig>>
    BY <1>8 DEF HandoffSleeps, ring, locals
  <2>2. \A W : Inside(W)' = Inside(W)
    BY <2>1 DEF Inside
  <2>3. t \in Inside(Enqueuers \ {"enqueue_late"})
    BY <1>1 DEF Inside, Enqueuers, InHandoff
  <2>4. TypesOK' /\ RingOK' /\ SlotOwned'
    BY <1>1, <1>2, <1>4, <2>1, <2>2 DEF TypesOK, RingOK, SlotOwned
  <2>5. CallersOK' /\ SleepersOK'
    BY <1>1, <1>2, <2>1, <2>2, <2>3 DEF CallersOK, SleepersOK, Enqueuers, Waiters, InEnqueue,
                                       InHandoff, InDequeue
  <2>6. WaitersCounted'
    BY <1>1, <1>2, <2>1, CountingSame DEF counts
  <2> QED
    BY <1>6, <2>4, <2>5, <2>6 DEF PipeInv
<1>9. CASE HandoffWithdraws(t) \/ HandoffEnds(t)
  <2> DEFINE v == IF HandoffEnds(t) THEN None ELSE data[0]
             r == IF HandoffEnds(t) THEN TRUE ELSE FALSE
  <2>1. /\ At(t, "idle", v) /\ ok' = [ok EXCEPT ![t] = r]
        /\ first' = 1 /\ last' = 1 /\ pipe_size' = pipe_size
        /\ enqueue_waiters' = enqueue_waiters - 1
        /\ enqueue_sig' \subseteq enqueue_sig /\ unblock_sig' \subseteq unblock_sig
    BY <1>9 DEF HandoffWithdraws, HandoffEnds, Return, Leaves, BroadcastIf
  <2>2. v \in Items \cup {None} /\ r \in BOOLEAN
    BY <1>2, <1>4 DEF TypesOK
  <2>3. data' \in [Slots -> Items \cup {None}] /\ data'[0] = None
    <3>1. CASE HandoffWithdraws(t)
      BY <1>2, <1>4, <1>7, <3>1 DEF HandoffWithdraws, TypesOK
    <3>2. CASE HandoffEnds(t)
      BY <1>2, <1>3, <1>4, <3>2 DEF HandoffEnds, TypesOK, RingOK
    <3> QED
      BY <1>9, <3>1, <3>2
  <2> HIDE DEF v, r
  <2>4. /\ CallersOK' /\ SleepersOK' /\ WaitersCounted'
        /\ pc' \in [Threads -> {"idle"} \cup Enqueuers \cup InDequeue \cup Waiters]
        /\ items' \in [Threads -> Items \cup {None}] /\ ok' \in [Threads -> BOOLEAN]
        /\ Inside(InHandoff)' = Inside(InHandoff) \ {t}
    <3>1. Goes(t, "idle", v, r)
      BY <1>1, <1>5, <1>7, <2>1, IdleIsOutside DEF Goes
    <3> QED
      BY <2>2, <3>1, LocalStep, IdleIsOutside
  <2>5. TypesOK' /\ RingOK'
    BY <1>1, <1>2, <1>3, <1>4, <2>1, <2>3, <2>4 DEF TypesOK, RingOK
  <2>6. SlotOwned'
    BY <1>1, <1>3, <2>1, <2>4 DEF SlotOwned
  <2> QED
    BY <1>6, <2>4, <2>5, <2>6 DEF PipeInv
<1> QED
  BY <1>1, <1>8, <1>9

LEMMA DequeueKeepsInv ==
  ASSUME PipeInv, NEW t \in Threads, NEW timed \in BOOLEAN, NEW dw, NEW es, NEW us,
         DequeueStep(t, timed, dw, es, us)
  PROVE  PipeInv'
<1>1. /\ pc[t] \in {"idle"} \cup InDequeue
      /\ One(pc[t] \in InDequeue) \in {0, 1}
      /\ dw = dequeue_waiters + 1 - One(pc[t] \in InDequeue)
      /\ Leaves(dw) = dequeue_waiters - One(pc[t] \in InDequeue)
      /\ One(pc[t] \in Enqueuers) = 0 /\ One(pc[t] \in Waiters) = 0
      /\ t \notin dequeue_sig /\ t \notin enqueue_sig /\ t \notin unblock_sig
      /\ t \notin Inside(InHandoff)
      /\ es \in {enqueue_sig, {}} /\ us \in {unblock_sig, {}}
      /\ life # "destroyed"
  BY DequeuerKnows DEF DequeueStep
<1>2. /\ UNCHANGED <<pipe_max_size, enabled, enqueue_enabled, dequeue_enabled>>
      /\ UNCHANGED <<enqueue_waiters, unblock_sig_waiters, life>>
  BY DEF DequeueStep, flags
<1>3. TypesOK /\ RingOK /\ CallersOK /\ SleepersOK /\ SlotOwned /\ WaitersCounted
  BY DEF PipeInv
<1>4. /\ pipe_max_size \in Nat
      /\ pipe_max_size > 0 => Slots = 0..(pipe_max_size - 1)
      /\ pipe_max_size = 0 => Slots = {0}
      /\ Slots' = Slots
  BY <1>2, <1>3, SlotsAre DEF Slots
<1>5. dequeue_waiters \in Nat /\ enqueue_waiters \in Nat /\ unblock_sig_waiters \in Nat
  BY <1>3, CountersAreNat
<1>6. DestroyedLast'
  BY <1>1, <1>2 DEF DestroyedLast
<1>7. CASE DequeueSleeps(t, timed, dw, es, us)
  <2> DEFINE where == IF timed THEN "dequeue_or_timeout" ELSE "dequeue"
  <2>1. /\ At(t, where, None) /\ ok' = [ok EXCEPT ![t] = TRUE]
        /\ dequeue_sig' = dequeue_sig \cup {t} /\ dequeue_waiters' = dw
        /\ enqueue_sig' = es /\ unblock_sig' = us
        /\ UNCHANGED <<pipe_size, first, last, data>>
    BY <1>7 DEF DequeueSleeps, Stay, ring
  <2>2. /\ where \in InDequeue \ {"dequeue_late"} /\ where \in Places
        /\ where \notin Enqueuers /\ where \notin InEnqueue
        /\ where \notin InHandoff /\ where \notin Waiters
    BY DEF InEnqueue, InHandoff, InDequeue, Waiters, Places, Enqueuers
  <2> HIDE DEF where
  <2>3. /\ One(where \in InDequeue) = 1 /\ One(where \in Enqueuers) = 0
        /\ One(where \in Waiters) = 0
    BY <2>2 DEF One
  <2>4. /\ CallersOK' /\ SleepersOK' /\ WaitersCounted'
        /\ pc' \in [Threads -> {"idle"} \cup Enqueuers \cup InDequeue \cup Waiters]
        /\ items' \in [Threads -> Items \cup {None}] /\ ok' \in [Threads -> BOOLEAN]
        /\ Inside(InHandoff)' = Inside(InHandoff) \ {t}
    <3>1. Goes(t, where, None, TRUE)
      BY <1>1, <1>2, <1>5, <2>1, <2>2, <2>3 DEF Goes
    <3> QED
      BY <2>2, <3>1, LocalStep
  <2>5. TypesOK' /\ RingOK'
    BY <1>2, <1>3, <1>4, <2>1, <2>4 DEF TypesOK, RingOK
  <2>6. SlotOwned'
    BY <1>1, <1>2, <1>3, <2>1, <2>4 DEF SlotOwned
  <2> QED
    BY <1>6, <2>4, <2>5, <2>6 DEF PipeInv
<1>8. CASE DequeueReturnsFalse(t, dw, es)
  <2>1. /\ At(t, "idle", None) /\ ok' = [ok EXCEPT ![t] = FALSE]
        /\ dequeue_waiters' = Leaves(dw) /\ unblock_sig' = {} /\ enqueue_sig' = es
        /\ UNCHANGED <<pipe_size, first, last, data, dequeue_sig>>
    BY <1>8 DEF DequeueReturnsFalse, Return, ring
  <2>2. /\ CallersOK' /\ SleepersOK' /\ WaitersCounted'
        /\ pc' \in [Threads -> {"idle"} \cup Enqueuers \cup InDequeue \cup Waiters]
        /\ items' \in [Threads -> Items \cup {None}] /\ ok' \in [Threads -> BOOLEAN]
        /\ Inside(InHandoff)' = Inside(InHandoff) \ {t}
    <3>1. Goes(t, "idle", None, FALSE)
      BY <1>1, <1>2, <1>5, <2>1, IdleIsOutside DEF Goes
    <3> QED
      BY <3>1, LocalStep, IdleIsOutside
  <2>3. TypesOK' /\ RingOK'
    BY <1>2, <1>3, <1>4, <2>1, <2>2 DEF TypesOK, RingOK
  <2>4. SlotOwned'
    BY <1>1, <1>2, <1>3, <2>1, <2>2 DEF SlotOwned
  <2> QED
    BY <1>6, <2>2, <2>3, <2>4 DEF PipeInv
<1>9. CASE CanDequeue /\ DequeueTakes(t, dw, es, us)
  <2>1. /\ At(t, "idle", data[first]) /\ ok' = [ok EXCEPT ![t] = TRUE]
        /\ data' = [data EXCEPT ![first] = None]
        /\ pipe_max_size > 0 => /\ first' = NextSlot(first) /\ pipe_size' = pipe_size - 1
                                /\ last' = last
        /\ pipe_max_size = 0 => last' = 1 /\ first' = first /\ pipe_size' = pipe_size
        /\ enqueue_sig' \subseteq es /\ unblock_sig' = us /\ dequeue_sig' = dequeue_sig
        /\ dequeue_waiters' = Leaves(dw)
    BY <1>4, <1>9 DEF DequeueTakes, Return, BroadcastIf
  <2>2. pipe_size > 0 \/ (pipe_max_size = 0 /\ first = 0 /\ last = 0)
    BY <1>3, <1>4, <1>9 DEF DequeueTakes, DequeueBlocks, RingOK
  <2>3. /\ first \in Slots /\ pipe_size \in Nat /\ pipe_size <= pipe_max_size
        /\ pipe_max_size > 0 => pipe_size > 0
        /\ pipe_max_size = 0 => pipe_size = 0 /\ first = 0
    BY <1>3, <1>4, <2>2 DEF RingOK
  <2>4. /\ data[first] \in Items \cup {None}
        /\ data' \in [Slots -> Items \cup {None}] /\ data'[first] = None
    BY <1>3, <2>1, <2>3 DEF TypesOK
  <2>5. pipe_max_size > 0 /\ pipe_size > 1 =>
          first' \in Slots /\ last = (first' + (pipe_size - 1) - 1) % pipe_max_size
    <3> SUFFICES ASSUME pipe_max_size > 0, pipe_size > 1
                 PROVE  first' \in Slots /\ last = (first' + (pipe_size - 1) - 1) % pipe_max_size
      OBVIOUS
    <3>1. /\ first \in 0..(pipe_max_size - 1)
          /\ last = (first + pipe_size - 1) % pipe_max_size
          /\ first' = (first + 1) % pipe_max_size
      BY <1>3, <1>4, <2>1, <2>3 DEF RingOK, NextSlot
    <3>2. CASE first + 1 < pipe_max_size
      <4>1. first' = first + 1
        BY <1>4, <3>1, <3>2
      <4> QED
        BY <1>4, <2>3, <3>1, <3>2, <4>1
    <3>3. CASE first + 1 = pipe_max_size
      <4>1. first' = 0
        BY <1>4, <3>1, <3>3
      <4>2. (first + pipe_size - 1) % pipe_max_size = pipe_size - 2
        BY <1>4, <2>3, <3>1, <3>3
      <4>3. (0 + (pipe_size - 1) - 1) % pipe_max_size = pipe_size - 2
        BY <1>4, <2>3
      <4> QED
        BY <1>4, <3>1, <4>1, <4>2, <4>3
    <3> QED
      BY <1>4, <3>1, <3>2, <3>3
  <2>6. /\ CallersOK' /\ SleepersOK' /\ WaitersCounted'
        /\ pc' \in [Threads -> {"idle"} \cup Enqueuers \cup InDequeue \cup Waiters]
        /\ items' \in [Threads -> Items \cup {None}] /\ ok' \in [Threads -> BOOLEAN]
        /\ Inside(InHandoff)' = Inside(InHandoff) \ {t}
    <3>1. Goes(t, "idle", data[first], TRUE)
      BY <1>1, <1>2, <1>5, <2>1, IdleIsOutside DEF Goes
    <3> QED
      BY <2>4, <3>1, LocalStep, IdleIsOutside
  <2>7. TypesOK'
    BY <1>2, <1>3, <1>4, <2>4, <2>6 DEF TypesOK
  <2>8. RingOK'
    BY <1>2, <1>3, <1>4, <2>1, <2>3, <2>4, <2>5 DEF RingOK
  <2>9. SlotOwned'
    BY <1>1, <1>2, <1>3, <1>4, <2>1, <2>6 DEF SlotOwned
  <2> QED
    BY <1>6, <2>6, <2>7, <2>8, <2>9 DEF PipeInv
<1> QED
  BY <1>7, <1>8, <1>9 DEF DequeueStep

\* A step that leaves the items and the hand-over alone.
LEMMA QuietStep ==
  ASSUME PipeInv, NEW t \in Threads, NEW where \in Places,
         NEW v \in Items \cup {None}, NEW r \in BOOLEAN, Goes(t, where, v, r),
         pc[t] \notin InHandoff, where \notin InHandoff,
         UNCHANGED <<pipe_max_size, ring>>,
         enabled' \in BOOLEAN, UNCHANGED <<enqueue_enabled, dequeue_enabled>>,
         life' \in {"alive", "destroying", "destroyed"}, DestroyedLast'
  PROVE  PipeInv'
<1>1. TypesOK /\ RingOK /\ SlotOwned
  BY DEF PipeInv
<1>2. /\ CallersOK' /\ SleepersOK' /\ WaitersCounted'
      /\ pc' \in [Threads -> {"idle"} \cup Enqueuers \cup InDequeue \cup Waiters]
      /\ items' \in [Threads -> Items \cup {None}] /\ ok' \in [Threads -> BOOLEAN]
      /\ Inside(InHandoff)' = Inside(InHandoff) \ {t}
  BY LocalStep
<1>3. Slots' = Slots
  BY DEF Slots
<1>4. TypesOK' /\ RingOK'
  BY <1>1, <1>2, <1>3 DEF TypesOK, RingOK, ring
<1>5. Inside(InHandoff)' = Inside(InHandoff)
  BY <1>2 DEF Inside
<1>6. SlotOwned'
  BY <1>1, <1>5 DEF SlotOwned, ring
<1> QED
  BY <1>2, <1>4, <1>6 DEF PipeInv

LEMMA WaitUntilEmptyKeepsInv ==
  ASSUME PipeInv, NEW t \in Threads, WaitUntilEmpty(t), UNCHANGED pipe_max_size
  PROVE  PipeInv'
<1>1. /\ UNCHANGED <<pipe_max_size, ring, enqueue_enabled, dequeue_enabled>>
      /\ UNCHANGED <<enabled, dequeue_waiters, unblock_sig_waiters, dequeue_sig, life>>
  BY DEF WaitUntilEmpty, flags
<1>2. PICK ew : /\ \/ pc[t] = "idle" /\ Free(t) /\ ew = enqueue_waiters + 1
                   \/ /\ pc[t] = "wait_until_empty" /\ t \notin enqueue_sig
                      /\ ew = enqueue_waiters
                /\ WaitUntilEmptyFrom(t, ew)
  BY DEF WaitUntilEmpty, Woken, Free
<1>3. /\ TypesOK /\ SleepersOK
      /\ dequeue_waiters \in Nat /\ enqueue_waiters \in Nat /\ unblock_sig_waiters \in Nat
  BY CountersAreNat DEF PipeInv
<1>4. /\ pc[t] \notin InHandoff
      /\ One(pc[t] \in InDequeue) = 0 /\ One(pc[t] \in Waiters) = 0
      /\ One(pc[t] \in Enqueuers) \in {0, 1}
      /\ ew = enqueue_waiters + 1 - One(pc[t] \in Enqueuers)
      /\ t \notin dequeue_sig /\ t \notin enqueue_sig /\ t \notin unblock_sig
  BY <1>2, <1>3 DEF One, Enqueuers, InEnqueue, InHandoff, InDequeue, Waiters, SleepersOK, Inside
<1>5. DestroyedLast'
  BY <1>1, <1>2, NotDestroyed DEF DestroyedLast
<1>6. enabled' \in BOOLEAN /\ life' \in {"alive", "destroying", "destroyed"}
  BY <1>1, <1>3 DEF TypesOK
<1>7. CASE pipe_size > 0 /\ enabled /\ dequeue_enabled
  <2> DEFINE where == "wait_until_empty"
  <2>1. /\ At(t, where, None) /\ ok' = [ok EXCEPT ![t] = TRUE]
        /\ enqueue_sig' = enqueue_sig \cup {t} /\ enqueue_waiters' = ew
        /\ unblock_sig' = unblock_sig
    BY <1>2, <1>7 DEF WaitUntilEmptyFrom, Stay
  <2>2. /\ where \in Places /\ where \in Enqueuers \ {"enqueue_late"}
        /\ where \notin InEnqueue /\ where \notin InHandoff
        /\ where \notin InDequeue /\ where \notin Waiters
    BY DEF InEnqueue, InHandoff, InDequeue, Waiters, Places, Enqueuers
  <2> HIDE DEF where
  <2>3. /\ One(where \in InDequeue) = 0 /\ One(where \in Enqueuers) = 1
        /\ One(where \in Waiters) = 0
    BY <2>2 DEF One
  <2>4. Goes(t, where, None, TRUE)
    BY <1>1, <1>3, <1>4, <2>1, <2>2, <2>3 DEF Goes
  <2> QED
    BY <1>1, <1>4, <1>5, <1>6, <2>2, <2>4, QuietStep
<1>8. CASE ~(pipe_size > 0 /\ enabled /\ dequeue_enabled)
  <2>1. /\ At(t, "idle", None) /\ ok' = [ok EXCEPT ![t] = TRUE]
        /\ enqueue_sig' = enqueue_sig /\ enqueue_waiters' = ew - 1
        /\ unblock_sig' \subseteq unblock_sig
    BY <1>2, <1>8 DEF WaitUntilEmptyFrom, Return, Leaves, BroadcastIf
  <2>2. Goes(t, "idle", None, TRUE)
    BY <1>1, <1>3, <1>4, <2>1, IdleIsOutside DEF Goes
  <2> QED
    BY <1>1, <1>4, <1>5, <1>6, <2>2, QuietStep, IdleIsOutside
<1> QED
  BY <1>7, <1>8

LEMMA WaitForNumKeepsInv ==
  ASSUME PipeInv, NEW t \in Threads, WaitForNumBlockedDequeues(t), UNCHANGED pipe_max_size
  PROVE  PipeInv'
<1>1. /\ UNCHANGED <<pipe_max_size, ring, enqueue_enabled, dequeue_enabled>>
      /\ UNCHANGED <<enabled, dequeue_waiters, enqueue_waiters, dequeue_sig, enqueue_sig, life>>
  BY DEF WaitForNumBlockedDequeues, flags
<1>2. PICK uw : /\ \/ pc[t] = "idle" /\ Free(t) /\ uw = unblock_sig_waiters + 1
                   \/ /\ pc[t] = "wait_for_num" /\ t \notin unblock_sig
                      /\ uw = unblock_sig_waiters
                /\ WaitForNumFrom(t, uw)
  BY DEF WaitForNumBlockedDequeues, Woken, Free
<1>3. /\ TypesOK /\ SleepersOK
      /\ dequeue_waiters \in Nat /\ enqueue_waiters \in Nat /\ unblock_sig_waiters \in Nat
  BY CountersAreNat DEF PipeInv
<1>4. /\ pc[t] \notin InHandoff
      /\ One(pc[t] \in InDequeue) = 0 /\ One(pc[t] \in Enqueuers) = 0
      /\ One(pc[t] \in Waiters) \in {0, 1}
      /\ uw = unblock_sig_waiters + 1 - One(pc[t] \in Waiters)
      /\ t \notin dequeue_sig /\ t \notin enqueue_sig /\ t \notin unblock_sig
  BY <1>2, <1>3 DEF One, Enqueuers, InEnqueue, InHandoff, InDequeue, Waiters, SleepersOK, Inside
<1>5. DestroyedLast'
  BY <1>1, <1>2, NotDestroyed DEF DestroyedLast
<1>6. enabled' \in BOOLEAN /\ life' \in {"alive", "destroying", "destroyed"}
  BY <1>1, <1>3 DEF TypesOK
<1>7. CASE /\ Stay(t, "wait_for_num", None)
           /\ unblock_sig' = unblock_sig \cup {t} /\ unblock_sig_waiters' = uw
  <2> DEFINE where == "wait_for_num"
  <2>1. At(t, where, None) /\ ok' = [ok EXCEPT ![t] = TRUE]
    BY <1>7 DEF Stay
  <2>2. /\ where \in Places /\ where \in Waiters
        /\ where \notin InEnqueue /\ where \notin InHandoff
        /\ where \notin InDequeue /\ where \notin Enqueuers
    BY DEF InEnqueue, InHandoff, InDequeue, Waiters, Places, Enqueuers
  <2> HIDE DEF where
  <2>3. /\ One(where \in InDequeue) = 0 /\ One(where \in Enqueuers) = 0
        /\ One(where \in Waiters) = 1
    BY <2>2 DEF One
  <2>4. Goes(t, where, None, TRUE)
    BY <1>1, <1>3, <1>4, <1>7, <2>1, <2>2, <2>3 DEF Goes
  <2> QED
    BY <1>1, <1>4, <1>5, <1>6, <2>2, <2>4, QuietStep
<1>8. CASE /\ Return(t, TRUE, None)
           /\ unblock_sig' = BroadcastIf(~enabled, unblock_sig)
           /\ unblock_sig_waiters' = Leaves(uw)
  <2>1. /\ At(t, "idle", None) /\ ok' = [ok EXCEPT ![t] = TRUE]
        /\ unblock_sig_waiters' = uw - 1 /\ unblock_sig' \subseteq unblock_sig
    BY <1>8 DEF Return, Leaves, BroadcastIf
  <2>2. Goes(t, "idle", None, TRUE)
    BY <1>1, <1>3, <1>4, <2>1, IdleIsOutside DEF Goes
  <2> QED
    BY <1>1, <1>4, <1>5, <1>6, <2>2, QuietStep, IdleIsOutside
<1> QED
  BY <1>2, <1>7, <1>8 DEF WaitForNumFrom

\* The destructor ends only when its counters say that nobody else is inside.
LEMMA DestroyKeepsInv ==
  ASSUME PipeInv, NEW t \in Threads, Destroy(t) \/ DestroyWakes(t), UNCHANGED pipe_max_size
  PROVE  PipeInv'
<1>1. PICK uw : /\ \/ pc[t] = "idle" /\ uw = unblock_sig_waiters + 1
                   \/ pc[t] = "destructor" /\ t \notin unblock_sig /\ uw = unblock_sig_waiters
                /\ DestroyFrom(t, uw)
  BY DEF Destroy, DestroyWakes, Woken, Free
<1>2. /\ UNCHANGED <<pipe_max_size, ring, enqueue_enabled, dequeue_enabled>>
      /\ UNCHANGED <<dequeue_waiters, enqueue_waiters>>
      /\ enabled' \in {FALSE, enabled}
      /\ dequeue_sig' \subseteq dequeue_sig /\ enqueue_sig' \subseteq enqueue_sig
  BY DEF Destroy, DestroyWakes, flags
<1>3. /\ TypesOK /\ SleepersOK /\ WaitersCounted
      /\ dequeue_waiters \in Nat /\ enqueue_waiters \in Nat /\ unblock_sig_waiters \in Nat
  BY CountersAreNat DEF PipeInv
<1>4. /\ pc[t] \notin InHandoff
      /\ One(pc[t] \in InDequeue) = 0 /\ One(pc[t] \in Enqueuers) = 0
      /\ One(pc[t] \in Waiters) \in {0, 1}
      /\ uw = unblock_sig_waiters + 1 - One(pc[t] \in Waiters)
      /\ t \notin dequeue_sig /\ t \notin enqueue_sig /\ t \notin unblock_sig
  BY <1>1, <1>3 DEF One, Enqueuers, InEnqueue, InHandoff, InDequeue, Waiters, SleepersOK, Inside
<1> DEFINE where == IF life' = "destroying" THEN "destructor" ELSE "idle"
<1>5. life' \in {"destroying", "destroyed"} /\ pc' = [pc EXCEPT ![t] = where]
  BY <1>1 DEF DestroyFrom
<1>6. unblock_sig_waiters' = IF life' = "destroying" THEN uw ELSE uw - 1
  BY <1>1 DEF DestroyFrom, Leaves
<1>7. unblock_sig' \subseteq IF life' = "destroying" THEN unblock_sig \cup {t} ELSE unblock_sig \ {t}
  BY <1>4 DEF Destroy, DestroyWakes
<1>8. /\ where \in Places /\ where \notin InEnqueue /\ where \notin InHandoff
      /\ where \notin InDequeue /\ where \notin Enqueuers
      /\ where \in Waiters <=> life' = "destroying"
  BY DEF InEnqueue, InHandoff, InDequeue, Waiters, Places, Enqueuers
<1> HIDE DEF where
<1>9. /\ One(where \in InDequeue) = 0 /\ One(where \in Enqueuers) = 0
      /\ One(where \in Waiters) = IF life' = "destroying" THEN 1 ELSE 0
  BY <1>8 DEF One
<1>10. PICK v \in Items \cup {None}, r \in BOOLEAN :
         items' = [items EXCEPT ![t] = v] /\ ok' = [ok EXCEPT ![t] = r]
  <2>1. CASE Destroy(t)
    BY <2>1 DEF Destroy
  <2>2. CASE DestroyWakes(t)
    <3>1. items' = [items EXCEPT ![t] = items[t]] /\ ok' = [ok EXCEPT ![t] = ok[t]]
      BY <1>3, <2>2 DEF DestroyWakes, TypesOK
    <3>2. items[t] \in Items \cup {None} /\ ok[t] \in BOOLEAN
      BY <1>3 DEF TypesOK
    <3> QED
      BY <3>1, <3>2
  <2> QED
    BY <2>1, <2>2
<1>11. Goes(t, where, v, r)
  BY <1>2, <1>3, <1>4, <1>5, <1>6, <1>7, <1>8, <1>9, <1>10 DEF Goes, At
<1>12. DestroyedLast'
  <2> SUFFICES ASSUME life' = "destroyed"
               PROVE  Inside({"idle"})' = Threads
    BY DEF DestroyedLast
  <2>1. dequeue_waiters' = 0 /\ enqueue_waiters' = 0 /\ uw <= 1
    BY <1>1, <1>2, <1>3, <1>4 DEF DestroyFrom, CallsInside
  <2>2. /\ WaitersCounted'
        /\ pc' \in [Threads -> {"idle"} \cup Enqueuers \cup InDequeue \cup Waiters]
    BY <1>8, <1>10, <1>11, LocalStep
  <2>3. \A W : IsFiniteSet(Inside(W)') /\ Cardinality(Inside(W)') \in Nat
    <3>1. \A W : Inside(W)' \subseteq Threads
      BY DEF Inside
    <3> QED
      BY <3>1, FS_Subset, FS_CardinalityType
  <2>4. unblock_sig_waiters' = 0
    BY <1>3, <1>4, <1>6, <2>1, <2>2, <2>3 DEF WaitersCounted
  <2>5. Inside(InDequeue)' = {} /\ Inside(Enqueuers)' = {} /\ Inside(Waiters)' = {}
    BY <2>1, <2>2, <2>3, <2>4, FS_EmptySet DEF WaitersCounted, Enqueuers, Waiters
  <2> QED
    BY <2>2, <2>5 DEF Inside
<1>13. enabled' \in BOOLEAN
  BY <1>2, <1>3 DEF TypesOK
<1> QED
  BY <1>2, <1>4, <1>5, <1>8, <1>10, <1>11, <1>12, <1>13, QuietStep

\* A timed sleep that ends leaves the thread in its call.
LEMMA ExpireKeepsInv ==
  ASSUME PipeInv, NEW t \in Threads, Expire(t)
  PROVE  PipeInv'
<1>1. /\ TypesOK /\ SleepersOK /\ CallersOK
      /\ dequeue_waiters \in Nat /\ enqueue_waiters \in Nat /\ unblock_sig_waiters \in Nat
  BY CountersAreNat DEF PipeInv
<1> DEFINE where == IF pc[t] = "enqueue_or_timeout" THEN "enqueue_late" ELSE "dequeue_late"
<1>2. /\ pc[t] \in {"enqueue_or_timeout", "dequeue_or_timeout"}
      /\ pc' = [pc EXCEPT ![t] = where]
      /\ dequeue_sig' \subseteq dequeue_sig \ {t} /\ enqueue_sig' \subseteq enqueue_sig \ {t}
      /\ UNCHANGED <<pipe_max_size, ring, enabled, enqueue_enabled, dequeue_enabled>>
      /\ UNCHANGED <<dequeue_waiters, enqueue_waiters, unblock_sig_waiters, unblock_sig>>
      /\ UNCHANGED <<items, ok, life>>
  <2>1. CASE EnqueueExpires(t)
    BY <1>1, <2>1 DEF Expire, EnqueueExpires, flags, counts, SleepersOK, Inside
  <2>2. CASE DequeueExpires(t)
    BY <1>1, <2>2 DEF Expire, DequeueExpires, flags, counts, SleepersOK, Inside, Enqueuers,
                      InEnqueue, InHandoff
  <2> QED
    BY <2>1, <2>2 DEF Expire
<1>3. /\ where \in Places /\ where \notin InHandoff /\ pc[t] \notin InHandoff
      /\ where \notin Waiters /\ pc[t] \notin Waiters
      /\ where \in InDequeue <=> pc[t] \in InDequeue
      /\ where \in InEnqueue <=> pc[t] \in InEnqueue
      /\ where \in Enqueuers <=> pc[t] \in Enqueuers
      /\ where \in InDequeue => where = "dequeue_late"
      /\ where \in Enqueuers => where = "enqueue_late"
  BY <1>2 DEF InEnqueue, InHandoff, InDequeue, Waiters, Places, Enqueuers
<1> HIDE DEF where
<1>4. /\ One(where \in InDequeue) = One(pc[t] \in InDequeue)
      /\ One(where \in Enqueuers) = One(pc[t] \in Enqueuers)
      /\ One(where \in Waiters) = One(pc[t] \in Waiters)
      /\ One(pc[t] \in InDequeue) \in {0, 1} /\ One(pc[t] \in Enqueuers) \in {0, 1}
      /\ One(pc[t] \in Waiters) \in {0, 1}
  BY <1>3 DEF One
<1>5. /\ items[t] \in Items \cup {None} /\ ok[t] \in BOOLEAN
      /\ items' = [items EXCEPT ![t] = items[t]] /\ ok' = [ok EXCEPT ![t] = ok[t]]
  BY <1>1, <1>2 DEF TypesOK
<1>6. /\ where \in InEnqueue => items[t] \in Items /\ ok[t] = TRUE
      /\ where \in InHandoff \cup InDequeue => items[t] = None /\ ok[t] = TRUE
  BY <1>1, <1>3 DEF CallersOK, Inside
<1>7. t \notin unblock_sig
  BY <1>1, <1>3 DEF SleepersOK, Inside
<1>8. Goes(t, where, items[t], ok[t])
  <2>1. /\ dequeue_waiters' =
             dequeue_waiters + One(where \in InDequeue) - One(pc[t] \in InDequeue)
        /\ enqueue_waiters' =
             enqueue_waiters + One(where \in Enqueuers) - One(pc[t] \in Enqueuers)
        /\ unblock_sig_waiters' =
             unblock_sig_waiters + One(where \in Waiters) - One(pc[t] \in Waiters)
    BY <1>1, <1>2, <1>4
  <2>2. /\ where \notin InDequeue \ {"dequeue_late"} /\ where \notin Enqueuers \ {"enqueue_late"}
        /\ unblock_sig' \subseteq unblock_sig \ {t}
    BY <1>2, <1>3, <1>7
  <2> QED
    BY <1>2, <1>3, <1>5, <1>6, <2>1, <2>2 DEF Goes, At
<1>9. DestroyedLast'
  BY <1>2, NotDestroyed DEF DestroyedLast
<1>10. enabled' \in BOOLEAN /\ life' \in {"alive", "destroying", "destroyed"}
  BY <1>1, <1>2 DEF TypesOK
<1> QED
  BY <1>2, <1>3, <1>5, <1>8, <1>9, <1>10, QuietStep

\* Emptying, enabling and disabling move no thread.
LEMMA SwitchKeepsInv ==
  ASSUME PipeInv, Switch
  PROVE  PipeInv'
<1>1. /\ UNCHANGED <<pipe_max_size, first, last, data, dequeue_waiters, enqueue_waiters>>
      /\ UNCHANGED <<unblock_sig_waiters, pc, items, ok, life>>
      /\ enabled' \in {enabled, TRUE, FALSE}
      /\ enqueue_enabled' \in {enqueue_enabled, TRUE, FALSE}
      /\ dequeue_enabled' \in {dequeue_enabled, TRUE, FALSE}
      /\ dequeue_sig' \subseteq dequeue_sig /\ enqueue_sig' \subseteq enqueue_sig
      /\ unblock_sig' \subseteq unblock_sig
      /\ pipe_size' \in {pipe_size, 0}
  <2>1. CASE Empty
    BY <2>1 DEF Switch, Empty, flags, counts, locals, BroadcastIf
  <2>2. CASE Disable \/ Enable
    BY <2>2 DEF Switch, Disable, Enable, ring, counts, sigs, locals
  <2>3. CASE DisableEnqueue \/ EnableEnqueue
    BY <2>3 DEF Switch, DisableEnqueue, EnableEnqueue, ring, counts, sigs, locals
  <2>4. CASE DisableDequeue \/ EnableDequeue
    BY <2>4 DEF Switch, DisableDequeue, EnableDequeue, ring, counts, sigs, locals
  <2> QED
    BY <2>1, <2>2, <2>3, <2>4 DEF Switch
<1>2. /\ TypesOK /\ RingOK /\ CallersOK /\ SleepersOK /\ SlotOwned /\ WaitersCounted
      /\ DestroyedLast
  BY DEF PipeInv
<1>3. (\A W : Inside(W)' = Inside(W)) /\ Slots' = Slots
  BY <1>1 DEF Inside, Slots
<1>4. TypesOK' /\ SlotOwned' /\ DestroyedLast'
  BY <1>1, <1>2, <1>3 DEF TypesOK, SlotOwned, DestroyedLast
<1>5. RingOK'
  <2>1. pipe_size' \in 0..pipe_max_size
    BY <1>1, <1>2, SlotsAre DEF RingOK
  <2> QED
    BY <1>1, <1>2, <1>3, <2>1 DEF RingOK
<1>6. CallersOK' /\ SleepersOK'
  BY <1>1, <1>2, <1>3 DEF CallersOK, SleepersOK, Enqueuers, Waiters, InEnqueue, InHandoff,
                          InDequeue
<1>7. WaitersCounted'
  BY <1>1, <1>2, CountingSame DEF counts
<1> QED
  BY <1>4, <1>5, <1>6, <1>7 DEF PipeInv

LEMMA StutterKeepsInv ==
  ASSUME PipeInv, UNCHANGED vars
  PROVE  PipeInv'
BY DEF PipeInv, vars, ring, flags, counts, sigs, locals, TypesOK, RingOK, CallersOK, SleepersOK,
       SlotOwned, WaitersCounted, DestroyedLast, Inside, Slots, InEnqueue, InHandoff, InDequeue,
       Enqueuers, Waiters

LEMMA NextKeepsInv == PipeInv /\ [Next]_vars => PipeInv'
<1> SUFFICES ASSUME PipeInv, [Next]_vars PROVE PipeInv'
  OBVIOUS
<1>1. CASE Switch
  BY <1>1, SwitchKeepsInv
<1>2. ASSUME NEW t \in Threads, Proceed(t)
      PROVE  PipeInv'
  <2>1. pipe_max_size' = pipe_max_size
    BY <1>2 DEF Proceed
  <2>2. CASE Enqueue(t) \/ EnqueueOrTimeout(t)
    BY <2>1, <2>2, EnqueueSteps, EnqueueKeepsInv
  <2>3. CASE Handoff(t)
    BY <2>1, <2>3, HandoffKeepsInv
  <2>4. CASE Dequeue(t) \/ DequeueOrTimeout(t)
    BY <2>1, <2>4, DequeueSteps, DequeueKeepsInv
  <2>5. CASE WaitUntilEmpty(t)
    BY <2>1, <2>5, WaitUntilEmptyKeepsInv
  <2>6. CASE WaitForNumBlockedDequeues(t)
    BY <2>1, <2>6, WaitForNumKeepsInv
  <2>7. CASE Destroy(t) \/ DestroyWakes(t)
    BY <2>1, <2>7, DestroyKeepsInv
  <2> QED
    BY <1>2, <2>2, <2>3, <2>4, <2>5, <2>6, <2>7 DEF Proceed
<1>3. ASSUME NEW t \in Threads, Expire(t)
      PROVE  PipeInv'
  BY <1>3, ExpireKeepsInv
<1>4. CASE UNCHANGED vars
  BY <1>4, StutterKeepsInv
<1> QED
  BY <1>1, <1>2, <1>3, <1>4 DEF Next

\* In every reachable state the ring buffer, the callers, the sleepers and the
\* counters are as the code takes them to be (enqueue(), dequeue(), ~pipe()).
THEOREM PipeInvariant == Spec => []PipeInv
<1>1. Init => PipeInv
  BY InitInv
<1>2. PipeInv /\ [Next]_vars => PipeInv'
  BY NextKeepsInv
<1> QED
  BY <1>1, <1>2, PTL DEF Spec

\* The first part of CallsEnd: when ~pipe() has ended no thread is inside a call.
THEOREM MemoryFreedLast == Spec => [](life = "destroyed" => Inside({"idle"}) = Threads)
<1>1. PipeInv => (life = "destroyed" => Inside({"idle"}) = Threads)
  BY DEF PipeInv, DestroyedLast
<1> QED
  BY <1>1, PipeInvariant, PTL

\* With capacity zero one thread at a time has an item on offer, and its slot is
\* reserved until it has learnt the outcome.
THEOREM OneItemOnOffer == Spec => []OneHandoff
<1>1. PipeInv => OneHandoff
  <2> SUFFICES ASSUME PipeInv PROVE OneHandoff
    OBVIOUS
  <2>1. SlotOwned
    BY DEF PipeInv
  <2>2. Cardinality(Inside(InHandoff)) <= 1
    <3>1. CASE Inside(InHandoff) = {}
      BY <3>1, FS_EmptySet
    <3>2. CASE Inside(InHandoff) # {}
      <4>1. PICK t : t \in Inside(InHandoff)
        BY <3>2
      <4>2. Inside(InHandoff) = {t}
        BY <2>1, <4>1 DEF SlotOwned
      <4> QED
        BY <4>2, FS_Singleton
    <3> QED
      BY <3>1, <3>2
  <2> QED
    BY <2>1, <2>2 DEF OneHandoff, SlotOwned
<1> QED
  BY <1>1, PipeInvariant, PTL

-----------------------------------------------------------------------------
(* No wakeup is lost *)

\* The dequeuers on their way to m that will take an item if there is one.
Awake == Inside({"dequeue", "dequeue_or_timeout"}) \ dequeue_sig

DequeuersServed == dequeue_sig # {} => CanDequeue /\ Len(Stored) <= Cardinality(Awake)

\* u sleeps in a call for a reason.
Justified(u) ==
  /\ pc[u] \in InEnqueue =>
       /\ CanEnqueue
       /\ pipe_size = pipe_max_size
       /\ pipe_max_size = 0 /\ first = 1 =>
            pc[u] = "enqueue_or_timeout" /\ dequeue_waiters = 0
  /\ pc[u] \in InHandoff => CanEnqueue
  /\ pc[u] = "wait_until_empty" => pipe_size > 0 /\ enabled

EnqueuersServed == \A u \in enqueue_sig : Justified(u)

LEMMA NoLostWakeupIs ==
  NoLostWakeup <=> WaitersCounted /\ DequeuersServed /\ EnqueuersServed
BY DEF NoLostWakeup, DequeuersServed, EnqueuersServed, Justified, Awake

\* How many items there are.
Held(m, n, f, l) == IF m = 0 THEN IF f = 0 /\ l = 0 THEN 1 ELSE 0 ELSE n

LEMMA LenStored ==
  ASSUME PipeInv, PipeInv'
  PROVE  /\ Len(Stored) = Held(pipe_max_size, pipe_size, first, last)
         /\ Len(Stored)' = Held(pipe_max_size, pipe_size, first, last)'
         /\ Len(Stored) \in Nat /\ Len(Stored)' \in Nat
<1>1. pipe_max_size \in Nat /\ pipe_size \in Nat /\ pipe_max_size' \in Nat /\ pipe_size' \in Nat
  BY DEF PipeInv, TypesOK, RingOK
<1> QED
  BY <1>1 DEF Stored, Held

\* A step that moves t neither to nor from the sleepers on dequeue_sig, and
\* leaves the items alone.
LEMMA DequeuersUndisturbed ==
  ASSUME PipeInv, DequeuersServed, NEW t \in Threads, NEW where \in Places,
         pc' = [pc EXCEPT ![t] = where],
         pc[t] \notin {"dequeue", "dequeue_or_timeout"} \/ t \in dequeue_sig,
         where \notin {"dequeue", "dequeue_or_timeout"},
         dequeue_sig' \subseteq dequeue_sig,
         dequeue_sig' # {} => dequeue_sig' = dequeue_sig \ {t} /\ (CanDequeue => CanDequeue'),
         dequeue_sig' # {} => Len(Stored)' <= Len(Stored),
         Len(Stored) \in Nat, Len(Stored)' \in Nat
  PROVE  DequeuersServed'
<1> SUFFICES ASSUME dequeue_sig' # {}
             PROVE  CanDequeue' /\ Len(Stored)' <= Cardinality(Awake)'
  BY DEF DequeuersServed
<1>1. TypesOK
  BY DEF PipeInv
<1>2. Awake' = Awake
  BY <1>1 DEF Awake, Inside, TypesOK
<1>3. IsFiniteSet(Awake) /\ Cardinality(Awake) \in Nat
  <2>1. Awake \subseteq Threads
    BY DEF Awake, Inside
  <2> QED
    BY <2>1, FS_Subset, FS_CardinalityType
<1>4. CanDequeue /\ Len(Stored) <= Cardinality(Awake)
  BY DEF DequeuersServed
<1>5. Len(Stored)' <= Cardinality(Awake)'
  BY <1>2, <1>3, <1>4
<1> QED
  BY <1>4, <1>5

\* A step of t that is not about the sleepers on enqueue_sig.
LEMMA EnqueuersUndisturbed ==
  ASSUME PipeInv, EnqueuersServed, NEW t \in Threads, NEW where \in Places,
         pc' = [pc EXCEPT ![t] = where],
         enqueue_sig' \subseteq enqueue_sig, t \notin enqueue_sig',
         UNCHANGED <<pipe_max_size, pipe_size, first>>,
         dequeue_waiters = 0 => dequeue_waiters' = 0,
         enqueue_sig' # {} => (CanEnqueue => CanEnqueue') /\ (enabled => enabled')
  PROVE  EnqueuersServed'
<1>1. TypesOK /\ SleepersOK
  BY DEF PipeInv
<1> SUFFICES ASSUME NEW u \in enqueue_sig' PROVE Justified(u)'
  BY DEF EnqueuersServed
<1>2. u \in enqueue_sig /\ u \in Threads /\ u # t
  BY <1>1 DEF SleepersOK, Inside
<1>3. pc'[u] = pc[u]
  BY <1>1, <1>2 DEF TypesOK
<1>4. Justified(u)
  BY <1>2 DEF EnqueuersServed
<1> QED
  BY <1>3, <1>4 DEF Justified, InEnqueue, InHandoff

\* Who sleeps is inside, so a counter is positive while somebody sleeps.
LEMMA SleepersAreCounted ==
  ASSUME PipeInv
  PROVE  /\ dequeue_sig # {} => dequeue_waiters > 0
         /\ enqueue_sig # {} => enqueue_waiters > 0
         /\ \A t \in Inside(Enqueuers) : enqueue_sig \ {t} # {} => enqueue_waiters > 1
<1>1. /\ dequeue_waiters \in Nat /\ enqueue_waiters \in Nat
      /\ dequeue_waiters = 0 => Inside(InDequeue) = {}
      /\ enqueue_waiters = 0 => Inside(Enqueuers) = {}
  BY CountersAreNat DEF PipeInv
<1>2. dequeue_sig \subseteq Inside(InDequeue) /\ enqueue_sig \subseteq Inside(Enqueuers)
  BY DEF PipeInv, SleepersOK, Inside, InDequeue
<1>3. ASSUME NEW t \in Inside(Enqueuers), enqueue_sig \ {t} # {}
      PROVE  enqueue_waiters > 1
  <2>1. PICK u \in enqueue_sig : u # t
    BY <1>3
  <2>2. {t, u} \subseteq Inside(Enqueuers)
    BY <1>2, <2>1
  <2>3. IsFiniteSet(Inside(Enqueuers)) /\ Cardinality(Inside(Enqueuers)) = enqueue_waiters
    BY InsideFinite DEF PipeInv, WaitersCounted, Enqueuers
  <2>4. Cardinality({t, u}) = 2
    <3>1. Cardinality({t}) = 1 /\ IsFiniteSet({t})
      BY FS_Singleton
    <3>2. Cardinality({t} \cup {u}) = Cardinality({t}) + 1
      BY <2>1, <3>1, FS_AddElement
    <3>3. {t} \cup {u} = {t, u}
      OBVIOUS
    <3> QED
      BY <3>1, <3>2, <3>3
  <2>5. Cardinality({t, u}) <= Cardinality(Inside(Enqueuers))
    BY <2>2, <2>3, FS_Subset
  <2> QED
    BY <1>1, <2>3, <2>4, <2>5
<1> QED
  BY <1>1, <1>2, <1>3

LEMMA EnqueueWakes ==
  ASSUME PipeInv, PipeInv', DequeuersServed, EnqueuersServed,
         NEW t \in Threads, NEW v \in Items, NEW timed \in BOOLEAN, NEW ew \in Nat,
         EnqueueStep(t, v, timed, ew)
  PROVE  DequeuersServed' /\ EnqueuersServed'
<1>1. /\ pc[t] \in {"idle"} \cup InEnqueue
      /\ t \notin dequeue_sig /\ t \notin enqueue_sig
  BY EnqueuerKnows DEF EnqueueStep
<1>2. /\ UNCHANGED <<pipe_max_size, enabled, enqueue_enabled, dequeue_enabled, dequeue_waiters>>
      /\ CanDequeue => CanDequeue'
      /\ CanEnqueue => CanEnqueue'
  BY DEF EnqueueStep, flags, CanDequeue, CanEnqueue
<1>3. TypesOK /\ RingOK /\ SleepersOK
  BY DEF PipeInv
<1>4. pc[t] \notin {"dequeue", "dequeue_or_timeout"}
  BY <1>1 DEF InEnqueue
<1>5. /\ Len(Stored) = Held(pipe_max_size, pipe_size, first, last)
      /\ Len(Stored)' = Held(pipe_max_size, pipe_size, first, last)'
      /\ Len(Stored) \in Nat /\ Len(Stored)' \in Nat
  BY LenStored
<1>6. CASE EnqueueSleeps(t, v, timed, ew)
  <2> DEFINE where == IF timed THEN "enqueue_or_timeout" ELSE "enqueue"
  <2>1. /\ EnqueueBlocks(timed)
        /\ pc' = [pc EXCEPT ![t] = where]
        /\ enqueue_sig' = enqueue_sig \cup {t}
        /\ UNCHANGED <<pipe_size, first, last, data, dequeue_sig>>
    BY <1>6 DEF EnqueueSleeps, Stay, At, ring
  <2>2. where \in Places /\ where \notin {"dequeue", "dequeue_or_timeout"}
    BY DEF InEnqueue, Places, Enqueuers
  <2>3. where = "enqueue_or_timeout" <=> timed
    OBVIOUS
  <2>4. where \in InEnqueue /\ where \notin InHandoff /\ where # "wait_until_empty"
    BY DEF InEnqueue, InHandoff
  <2> HIDE DEF where
  <2>5. DequeuersServed'
    <3>1. Len(Stored)' = Len(Stored)
      BY <1>2, <2>1 DEF Stored
    <3>2. Len(Stored)' <= Len(Stored)
      BY <1>5, <3>1
    <3>3. dequeue_sig' = dequeue_sig \ {t}
      BY <1>1, <2>1
    <3> QED
      BY <1>2, <1>4, <1>5, <2>1, <2>2, <3>2, <3>3, DequeuersUndisturbed
  <2>6. ASSUME NEW u \in enqueue_sig'
        PROVE  Justified(u)'
    <3>1. CASE u = t
      <4>1. pc'[t] = where
        BY <1>3, <2>1 DEF TypesOK
      <4>2. CanEnqueue' /\ pipe_size' = pipe_max_size'
        BY <1>2, <2>1 DEF EnqueueBlocks
      <4>3. pipe_max_size' = 0 /\ first' = 1 => timed /\ ~(dequeue_waiters' > 0)
        BY <1>2, <2>1 DEF EnqueueBlocks
      <4>4. dequeue_waiters' \in Nat
        BY <1>2, CountersAreNat DEF PipeInv
      <4> QED
        BY <2>3, <2>4, <3>1, <4>1, <4>2, <4>3, <4>4 DEF Justified
    <3>2. CASE u # t
      <4>1. u \in enqueue_sig /\ u \in Threads
        BY <1>3, <2>1, <3>2 DEF SleepersOK, Inside
      <4>2. Justified(u) /\ pc'[u] = pc[u]
        BY <1>3, <2>1, <3>2, <4>1 DEF EnqueuersServed, TypesOK
      <4> QED
        BY <1>2, <2>1, <4>2 DEF Justified, InEnqueue, InHandoff
    <3> QED
      BY <3>1, <3>2
  <2> QED
    BY <2>5, <2>6 DEF EnqueuersServed
<1>7. CASE EnqueueReturnsFalse(t, v, ew)
  <2>1. /\ pc' = [pc EXCEPT ![t] = "idle"]
        /\ UNCHANGED <<pipe_size, first, last, data, dequeue_sig, enqueue_sig>>
    BY <1>7 DEF EnqueueReturnsFalse, Return, At, ring
  <2>2. Len(Stored)' = Len(Stored)
    BY <1>2, <2>1 DEF Stored
  <2>3. DequeuersServed'
    <3>1. Len(Stored)' <= Len(Stored)
      BY <1>5, <2>2
    <3>2. dequeue_sig' = dequeue_sig \ {t}
      BY <1>1, <2>1
    <3> QED
      BY <1>2, <1>4, <1>5, <2>1, <3>1, <3>2, IdleIsOutside, DequeuersUndisturbed
  <2>4. EnqueuersServed'
    BY <1>1, <1>2, <2>1, IdleIsOutside, EnqueuersUndisturbed
  <2> QED
    BY <2>3, <2>4
<1>8. CASE CanEnqueue /\ EnqueueStores(t, v, timed, ew)
  <2> DEFINE where == IF pipe_max_size > 0 THEN "idle"
                      ELSE IF timed THEN "handoff_timed" ELSE "handoff"
  <2>1. /\ first' = IF pipe_size = 0 THEN 0 ELSE first
        /\ last' = IF pipe_size = 0 THEN 0 ELSE NextSlot(last)
        /\ dequeue_sig' \in IF WakesDequeuer THEN Signal(dequeue_sig) ELSE {dequeue_sig}
    BY <1>8 DEF EnqueueStores
  <2>2. pipe_size # pipe_max_size \/ (pipe_max_size = 0 /\ first = 1)
    BY <1>8 DEF EnqueueStores, EnqueueBlocks
  <2>3. /\ pipe_size \in Nat /\ pipe_max_size \in Nat
        /\ pipe_max_size > 0 => pipe_size < pipe_max_size
        /\ pipe_max_size = 0 => pipe_size = 0 /\ first = 1
    BY <1>3, <2>2, SlotsAre DEF RingOK
  <2>4. /\ pc' = [pc EXCEPT ![t] = where]
        /\ pipe_max_size > 0 => pipe_size' = pipe_size + 1 /\ enqueue_sig' = enqueue_sig
        /\ pipe_max_size = 0 => pipe_size' = pipe_size /\ enqueue_sig' = enqueue_sig \cup {t}
    BY <1>8, <2>3 DEF EnqueueStores, Stay, Return, At
  <2>5. /\ where \notin InEnqueue /\ where \notin {"dequeue", "dequeue_or_timeout"}
        /\ where # "wait_until_empty"
        /\ pipe_max_size = 0 => where \in InHandoff
    BY <2>3 DEF InEnqueue, InHandoff
  <2> HIDE DEF where
  <2>6. Len(Stored)' = Len(Stored) + 1
    <3>1. CASE pipe_max_size = 0
      <4>1. first = 1 /\ first' = 0 /\ last' = 0 /\ pipe_max_size' = 0
        BY <1>2, <2>1, <2>3, <3>1
      <4>2. /\ Held(pipe_max_size, pipe_size, first, last) = 0
            /\ Held(pipe_max_size', pipe_size', first', last') = 1
        BY <3>1, <4>1 DEF Held
      <4> QED
        BY <1>5, <4>2
    <3>2. CASE pipe_max_size > 0
      <4>1. /\ Held(pipe_max_size, pipe_size, first, last) = pipe_size
            /\ Held(pipe_max_size', pipe_size', first', last') = pipe_size + 1
        BY <1>2, <2>3, <2>4, <3>2 DEF Held
      <4> QED
        BY <1>5, <4>1
    <3> QED
      BY <2>3, <3>1, <3>2
  <2>7. DequeuersServed'
    <3> SUFFICES ASSUME dequeue_sig' # {}
                 PROVE  CanDequeue' /\ Len(Stored)' <= Cardinality(Awake)'
      BY DEF DequeuersServed
    <3>1. dequeue_sig # {}
      BY <2>1 DEF Signal
    <3>2. CanDequeue /\ Len(Stored) <= Cardinality(Awake)
      BY <3>1 DEF DequeuersServed
    <3>3. WakesDequeuer
      BY <3>1, SleepersAreCounted DEF WakesDequeuer
    <3>4. PICK w \in dequeue_sig : dequeue_sig' = dequeue_sig \ {w}
      BY <2>1, <3>1, <3>3 DEF Signal
    <3>5. w \in Inside({"dequeue", "dequeue_or_timeout"})
      BY <1>3, <3>4 DEF SleepersOK
    <3>6. Inside({"dequeue", "dequeue_or_timeout"})' = Inside({"dequeue", "dequeue_or_timeout"})
      BY <1>3, <1>4, <2>4, <2>5 DEF Inside, TypesOK
    <3>7. Awake' = Awake \cup {w} /\ w \notin Awake
      BY <3>4, <3>5, <3>6 DEF Awake
    <3>8. IsFiniteSet(Awake) /\ Cardinality(Awake) \in Nat
      <4>1. Awake \subseteq Threads
        BY DEF Awake, Inside
      <4> QED
        BY <4>1, FS_Subset, FS_CardinalityType
    <3>9. Cardinality(Awake \cup {w}) = Cardinality(Awake) + 1
      BY <3>7, <3>8, FS_AddElement
    <3>10. Len(Stored)' <= Cardinality(Awake)'
      BY <1>5, <2>6, <3>2, <3>7, <3>8, <3>9
    <3> QED
      BY <1>2, <3>2, <3>10
  <2>8. ASSUME NEW u \in enqueue_sig'
        PROVE  Justified(u)'
    <3>1. CASE u = t
      <4>1. pc'[t] = where /\ pipe_max_size = 0
        BY <1>1, <1>3, <2>3, <2>4, <3>1 DEF TypesOK
      <4> QED
        BY <1>2, <1>8, <2>5, <3>1, <4>1 DEF Justified
    <3>2. CASE u # t
      <4>1. u \in enqueue_sig /\ u \in Threads
        BY <1>3, <2>3, <2>4, <3>2 DEF SleepersOK, Inside
      <4>2. Justified(u) /\ pc'[u] = pc[u]
        BY <1>3, <2>4, <3>2, <4>1 DEF EnqueuersServed, TypesOK
      <4>3. CASE pipe_max_size > 0
        BY <1>2, <2>3, <2>4, <4>2, <4>3 DEF Justified, InEnqueue, InHandoff
      <4>4. CASE pipe_max_size = 0
        BY <1>2, <2>1, <2>3, <2>4, <4>2, <4>4 DEF Justified, InEnqueue, InHandoff
      <4> QED
        BY <2>3, <4>3, <4>4
    <3> QED
      BY <3>1, <3>2
  <2> QED
    BY <2>7, <2>8 DEF EnqueuersServed
<1> QED
  BY <1>6, <1>7, <1>8 DEF EnqueueStep

LEMMA HandoffWakes ==
  ASSUME PipeInv, PipeInv', DequeuersServed, EnqueuersServed,
         NEW t \in Threads, Handoff(t), UNCHANGED pipe_max_size
  PROVE  DequeuersServed' /\ EnqueuersServed'
<1>1. /\ pc[t] \in InHandoff /\ t \notin enqueue_sig
      /\ HandoffSleeps(t) \/ HandoffWithdraws(t) \/ HandoffEnds(t)
      /\ UNCHANGED <<pipe_max_size, enabled, enqueue_enabled, dequeue_enabled>>
      /\ UNCHANGED <<dequeue_waiters, dequeue_sig>>
  BY DEF Handoff, Woken, InHandoff, flags
<1>2. /\ CanDequeue => CanDequeue'
      /\ CanEnqueue => CanEnqueue'
  BY <1>1 DEF CanDequeue, CanEnqueue
<1>3. TypesOK /\ RingOK /\ SleepersOK /\ SlotOwned
  BY DEF PipeInv
<1>4. pipe_max_size = 0 /\ first = 0 /\ pipe_size = 0
  <2>1. t \in Inside(InHandoff)
    BY <1>1 DEF Inside
  <2> QED
    BY <1>3, <2>1 DEF SlotOwned, RingOK
<1>5. /\ Len(Stored) = Held(pipe_max_size, pipe_size, first, last)
      /\ Len(Stored)' = Held(pipe_max_size, pipe_size, first, last)'
      /\ Len(Stored) \in Nat /\ Len(Stored)' \in Nat
  BY LenStored
<1>6. /\ pc[t] \in Places /\ pc[t] \in Enqueuers /\ t \notin dequeue_sig
      /\ pc[t] \notin {"dequeue", "dequeue_or_timeout"}
      /\ dequeue_sig' = dequeue_sig \ {t}
  BY <1>1, <1>3 DEF Places, Enqueuers, InHandoff, SleepersOK, Inside
<1>7. CASE HandoffSleeps(t)
  <2>1. /\ CanEnqueue /\ enqueue_sig' = enqueue_sig \cup {t}
        /\ UNCHANGED <<pipe_size, first, last, data, pc>>
    BY <1>7 DEF HandoffSleeps, ring, locals
  <2>2. pc' = [pc EXCEPT ![t] = pc[t]]
    BY <1>3, <2>1 DEF TypesOK
  <2>3. DequeuersServed'
    <3>1. Len(Stored)' = Len(Stored)
      BY <1>1, <2>1 DEF Stored
    <3>2. Len(Stored)' <= Len(Stored)
      BY <1>5, <3>1
    <3> QED
      BY <1>1, <1>2, <1>5, <1>6, <2>2, <3>2, DequeuersUndisturbed
  <2>4. ASSUME NEW u \in enqueue_sig'
        PROVE  Justified(u)'
    <3>1. CASE u = t
      BY <1>1, <1>2, <2>1, <3>1 DEF Justified, InHandoff, InEnqueue
    <3>2. CASE u # t
      <4>1. Justified(u)
        BY <2>1, <3>2 DEF EnqueuersServed
      <4> QED
        BY <1>1, <1>2, <2>1, <4>1 DEF Justified, InEnqueue, InHandoff
    <3> QED
      BY <3>1, <3>2
  <2> QED
    BY <2>3, <2>4 DEF EnqueuersServed
<1>8. CASE HandoffWithdraws(t) \/ HandoffEnds(t)
  <2>1. pc' = [pc EXCEPT ![t] = "idle"] /\ first' = 1
    BY <1>8 DEF HandoffWithdraws, HandoffEnds, Return, At
  <2>2. DequeuersServed'
    <3>1. Held(pipe_max_size', pipe_size', first', last') = 0
      BY <1>1, <1>4, <2>1 DEF Held
    <3>2. Len(Stored)' <= Len(Stored)
      BY <1>5, <3>1
    <3> QED
      BY <1>1, <1>2, <1>5, <1>6, <2>1, <3>2, IdleIsOutside, DequeuersUndisturbed
  <2>3. enqueue_sig' = {}
    <3>1. CASE HandoffWithdraws(t)
      <4>1. ASSUME NEW u \in enqueue_sig
            PROVE  FALSE
        <5>1. ~CanEnqueue
          BY <3>1 DEF HandoffWithdraws
        <5>2. pc[u] \in InEnqueue \cup InHandoff \cup {"wait_until_empty"}
          BY <1>3 DEF SleepersOK, Inside, Enqueuers
        <5>3. Justified(u)
          BY DEF EnqueuersServed
        <5> QED
          BY <1>4, <5>1, <5>2, <5>3 DEF Justified
      <4> QED
        BY <3>1, <4>1 DEF HandoffWithdraws
    <3>2. CASE HandoffEnds(t)
      <4>1. t \in Inside(Enqueuers)
        BY <1>6 DEF Inside
      <4>2. enqueue_sig # {} => enqueue_waiters > 1
        BY <1>1, <4>1, SleepersAreCounted
      <4> QED
        BY <3>2, <4>2 DEF HandoffEnds, BroadcastIf
    <3> QED
      BY <1>8, <3>1, <3>2
  <2> QED
    BY <2>2, <2>3 DEF EnqueuersServed
<1> QED
  BY <1>1, <1>7, <1>8

LEMMA DequeueWakes ==
  ASSUME PipeInv, PipeInv', DequeuersServed, EnqueuersServed,
         NEW t \in Threads, NEW timed \in BOOLEAN, NEW dw, NEW es, NEW us,
         DequeueStep(t, timed, dw, es, us)
  PROVE  DequeuersServed' /\ EnqueuersServed'
<1>1. /\ pc[t] \in {"idle"} \cup InDequeue
      /\ t \notin dequeue_sig /\ t \notin enqueue_sig
      /\ es \in {enqueue_sig, {}}
  BY DequeuerKnows DEF DequeueStep
<1>2. /\ UNCHANGED <<pipe_max_size, enabled, enqueue_enabled, dequeue_enabled>>
      /\ CanDequeue => CanDequeue'
      /\ CanEnqueue => CanEnqueue'
  BY DEF DequeueStep, flags, CanDequeue, CanEnqueue
<1>3. /\ TypesOK /\ RingOK /\ SleepersOK
      /\ dequeue_waiters \in Nat /\ enqueue_waiters \in Nat
  BY CountersAreNat DEF PipeInv
<1>4. /\ Len(Stored) = Held(pipe_max_size, pipe_size, first, last)
      /\ Len(Stored)' = Held(pipe_max_size, pipe_size, first, last)'
      /\ Len(Stored) \in Nat /\ Len(Stored)' \in Nat
  BY LenStored
<1>5. \/ Free(t) /\ dw = dequeue_waiters + 1 /\ (pipe_size = 0 => es = {})
      \/ dw = dequeue_waiters /\ dequeue_waiters > 0 /\ es = enqueue_sig
  <2>1. CASE /\ Free(t) /\ dw = dequeue_waiters + 1
             /\ es = BroadcastIf(pipe_size = 0 /\ enqueue_waiters > 0, enqueue_sig)
    BY <1>3, <2>1, SleepersAreCounted DEF BroadcastIf
  <2>2. CASE pc[t] \in InDequeue /\ dw = dequeue_waiters /\ es = enqueue_sig
    <3>1. t \in Inside(InDequeue)
      BY <2>2 DEF Inside
    <3>2. dequeue_waiters > 0
      BY <1>3, <3>1, CountersAreNat DEF PipeInv
    <3> QED
      BY <2>2, <3>2
  <2> QED
    BY <2>1, <2>2 DEF DequeueStep, MayDequeue
<1>6. CASE DequeueSleeps(t, timed, dw, es, us)
  <2> DEFINE where == IF timed THEN "dequeue_or_timeout" ELSE "dequeue"
  <2>1. /\ DequeueBlocks /\ pipe_size = 0
        /\ pc' = [pc EXCEPT ![t] = where]
        /\ enqueue_sig' = es /\ dequeue_waiters' = dw
        /\ UNCHANGED <<pipe_size, first, last, data>>
    BY <1>6 DEF DequeueSleeps, DequeueBlocks, Stay, At, ring
  <2>2. where \in Places
    BY DEF Places, InDequeue
  <2> HIDE DEF where
  <2>3. DequeuersServed'
    <3>1. CanDequeue /\ Held(pipe_max_size, pipe_size, first, last) = 0
      BY <2>1 DEF DequeueBlocks, Held
    <3>2. Held(pipe_max_size, pipe_size, first, last)' = 0
      BY <1>2, <2>1, <3>1
    <3>3. IsFiniteSet(Awake') /\ Cardinality(Awake') \in Nat
      <4>1. Awake' \subseteq Threads
        BY DEF Awake, Inside
      <4> QED
        BY <4>1, FS_Subset, FS_CardinalityType
    <3>4. Len(Stored)' <= Cardinality(Awake')
      BY <1>4, <3>2, <3>3
    <3> QED
      BY <1>2, <3>1, <3>4 DEF DequeuersServed
  <2>4. EnqueuersServed'
    <3>1. CASE pipe_size = 0 /\ es = {}
      BY <2>1, <3>1 DEF EnqueuersServed
    <3>2. CASE dw = dequeue_waiters /\ es = enqueue_sig
      BY <1>1, <1>2, <2>1, <2>2, <3>2, EnqueuersUndisturbed
    <3> QED
      BY <1>5, <2>1, <3>1, <3>2
  <2> QED
    BY <2>3, <2>4
<1>7. CASE /\ pc[t] \in {"dequeue", "dequeue_or_timeout"} => ~CanDequeue
           /\ DequeueReturnsFalse(t, dw, es)
  <2>1. /\ pc' = [pc EXCEPT ![t] = "idle"]
        /\ enqueue_sig' = es /\ dequeue_waiters' = dw - 1
        /\ UNCHANGED <<pipe_size, first, last, data, dequeue_sig>>
    BY <1>7 DEF DequeueReturnsFalse, Return, At, ring, Leaves
  <2>2. DequeuersServed'
    <3>1. CASE ~CanDequeue
      BY <2>1, <3>1 DEF DequeuersServed
    <3>2. CASE pc[t] \notin {"dequeue", "dequeue_or_timeout"}
      <4>1. Len(Stored)' = Len(Stored)
        BY <1>2, <2>1 DEF Stored
      <4>2. Len(Stored)' <= Len(Stored) /\ dequeue_sig' = dequeue_sig \ {t}
        BY <1>1, <1>4, <2>1, <4>1
      <4> QED
        BY <1>2, <1>4, <2>1, <3>2, <4>2, IdleIsOutside, DequeuersUndisturbed
    <3> QED
      BY <1>7, <3>1, <3>2
  <2>3. EnqueuersServed'
    <3>1. dequeue_waiters = 0 => dequeue_waiters' = 0
      BY <1>3, <1>5, <2>1
    <3>2. enqueue_sig' \subseteq enqueue_sig /\ t \notin enqueue_sig'
      BY <1>1, <2>1
    <3> QED
      BY <1>2, <2>1, <3>1, <3>2, IdleIsOutside, EnqueuersUndisturbed
  <2> QED
    BY <2>2, <2>3
<1>8. CASE CanDequeue /\ DequeueTakes(t, dw, es, us)
  <2>1. /\ pc' = [pc EXCEPT ![t] = "idle"]
        /\ pipe_max_size > 0 => pipe_size' = pipe_size - 1
        /\ ~(pipe_max_size > 0) => last' = 1 /\ first' = first
        /\ enqueue_sig' = BroadcastIf(enqueue_waiters > 0, es)
        /\ dequeue_sig' = dequeue_sig
    BY <1>8 DEF DequeueTakes, Return, At
  <2>2. EnqueuersServed'
    <3>1. enqueue_sig' = {}
      BY <1>1, <2>1, SleepersAreCounted DEF BroadcastIf
    <3> QED
      BY <3>1 DEF EnqueuersServed
  <2>3. pipe_size > 0 \/ (pipe_max_size = 0 /\ first = 0 /\ last = 0)
    BY <1>3, <1>8, SlotsAre DEF DequeueTakes, DequeueBlocks, RingOK
  <2>4. Len(Stored)' = Len(Stored) - 1
    <3>1. CASE pipe_max_size = 0
      <4>1. first = 0 /\ last = 0 /\ last' = 1
        BY <1>3, <2>1, <2>3, <3>1 DEF RingOK
      <4>2. /\ Held(pipe_max_size, pipe_size, first, last) = 1
            /\ Held(pipe_max_size', pipe_size', first', last') = 0
        BY <1>2, <3>1, <4>1 DEF Held
      <4> QED
        BY <1>4, <4>2
    <3>2. CASE pipe_max_size > 0
      <4>1. /\ Held(pipe_max_size, pipe_size, first, last) = pipe_size
            /\ Held(pipe_max_size', pipe_size', first', last') = pipe_size - 1
        BY <1>2, <2>1, <3>2, SlotsAre DEF Held
      <4>2. pipe_size \in Nat
        BY <1>3, SlotsAre DEF RingOK
      <4> QED
        BY <1>4, <4>1, <4>2
    <3> QED
      BY <1>3, <3>1, <3>2, SlotsAre
  <2>5. DequeuersServed'
    <3> SUFFICES ASSUME dequeue_sig' # {}
                 PROVE  CanDequeue' /\ Len(Stored)' <= Cardinality(Awake)'
      BY DEF DequeuersServed
    <3>1. CanDequeue /\ Len(Stored) <= Cardinality(Awake)
      BY <2>1 DEF DequeuersServed
    <3>2. Awake' = Awake \ {t}
      BY <1>3, <2>1 DEF Awake, Inside, TypesOK
    <3>3. IsFiniteSet(Awake) /\ Cardinality(Awake) \in Nat
      <4>1. Awake \subseteq Threads
        BY DEF Awake, Inside
      <4> QED
        BY <4>1, FS_Subset, FS_CardinalityType
    <3>4. Cardinality(Awake \ {t}) =
            IF t \in Awake THEN Cardinality(Awake) - 1 ELSE Cardinality(Awake)
      BY <3>3, FS_RemoveElement
    <3>5. Len(Stored)' <= Cardinality(Awake)'
      BY <1>4, <2>4, <3>1, <3>2, <3>3, <3>4
    <3> QED
      BY <1>2, <3>1, <3>5
  <2> QED
    BY <2>2, <2>5
<1> QED
  BY <1>6, <1>7, <1>8 DEF DequeueStep

\* The other calls of a thread: they leave the items alone and put t to no sleep
\* but that of wait_until_empty().
LEMMA OthersWake ==
  ASSUME PipeInv, PipeInv', DequeuersServed, EnqueuersServed, NEW t \in Threads,
         \/ Proceed(t) /\ (WaitUntilEmpty(t) \/ WaitForNumBlockedDequeues(t))
         \/ Proceed(t) /\ (Destroy(t) \/ DestroyWakes(t))
         \/ Expire(t)
  PROVE  DequeuersServed' /\ EnqueuersServed'
<1>1. pipe_max_size' = pipe_max_size
  BY DEF Proceed, Expire
<1>2. TypesOK /\ SleepersOK
  BY DEF PipeInv
<1>3. UNCHANGED <<pipe_size, first, last, data, dequeue_waiters>>
  BY DEF WaitUntilEmpty, WaitForNumBlockedDequeues, Destroy, DestroyWakes, Expire,
         EnqueueExpires, DequeueExpires, ring, counts
<1>4. Len(Stored)' <= Len(Stored) /\ Len(Stored) \in Nat /\ Len(Stored)' \in Nat
  <2>1. Len(Stored)' = Len(Stored)
    BY <1>1, <1>3 DEF Stored
  <2> QED
    BY <2>1, LenStored
<1>5. ASSUME NEW where \in Places, pc' = [pc EXCEPT ![t] = where],
             pc[t] \notin {"dequeue", "dequeue_or_timeout"} \/ t \in dequeue_sig,
             where \notin {"dequeue", "dequeue_or_timeout"},
             dequeue_sig' = {} \/ (dequeue_sig' = dequeue_sig \ {t} /\ (CanDequeue => CanDequeue'))
      PROVE  DequeuersServed'
  BY <1>4, <1>5, DequeuersUndisturbed
<1>6. ASSUME NEW where \in Places, pc' = [pc EXCEPT ![t] = where],
             \/ enqueue_sig' = {}
             \/ /\ enqueue_sig' = enqueue_sig \ {t} /\ (CanEnqueue => CanEnqueue')
                /\ (enabled => enabled')
      PROVE  EnqueuersServed'
  BY <1>1, <1>3, <1>6, EnqueuersUndisturbed
<1>7. CASE WaitUntilEmpty(t)
  <2>1. /\ pc[t] \in {"idle", "wait_until_empty"} /\ t \notin enqueue_sig
        /\ dequeue_sig' = dequeue_sig
        /\ UNCHANGED <<enabled, enqueue_enabled, dequeue_enabled>>
    BY <1>2, <1>7 DEF WaitUntilEmpty, Woken, Free, flags, SleepersOK, Inside, Enqueuers,
                      InEnqueue, InHandoff
  <2>2. t \notin dequeue_sig
    BY <1>2, <2>1 DEF SleepersOK, Inside
  <2>3. /\ CanDequeue => CanDequeue'
        /\ CanEnqueue => CanEnqueue'
    BY <2>1 DEF CanDequeue, CanEnqueue
  <2>4. CASE /\ pipe_size > 0 /\ enabled
             /\ enqueue_sig' = enqueue_sig \cup {t} /\ Stay(t, "wait_until_empty", None)
    <3>1. "wait_until_empty" \in Places
      BY DEF Places, Enqueuers
    <3>2. pc' = [pc EXCEPT ![t] = "wait_until_empty"]
      BY <2>4 DEF Stay, At
    <3>3. DequeuersServed'
      BY <1>5, <2>1, <2>2, <2>3, <3>1, <3>2
    <3>4. ASSUME NEW u \in enqueue_sig'
          PROVE  Justified(u)'
      <4>1. CASE u = t
        BY <1>2, <1>3, <2>1, <2>4, <3>2, <4>1 DEF Justified, InEnqueue, InHandoff, TypesOK
      <4>2. CASE u # t
        <5>1. u \in enqueue_sig /\ u \in Threads
          BY <1>2, <2>4, <4>2 DEF SleepersOK, Inside
        <5>2. Justified(u) /\ pc'[u] = pc[u]
          BY <1>2, <3>2, <4>2, <5>1 DEF EnqueuersServed, TypesOK
        <5> QED
          BY <1>1, <1>3, <2>1, <2>3, <5>2 DEF Justified, InEnqueue, InHandoff
      <4> QED
        BY <4>1, <4>2
    <3> QED
      BY <3>3, <3>4 DEF EnqueuersServed
  <2>5. CASE enqueue_sig' = enqueue_sig /\ Return(t, TRUE, None)
    <3>1. pc' = [pc EXCEPT ![t] = "idle"]
      BY <2>5 DEF Return, At
    <3> QED
      BY <1>5, <1>6, <2>1, <2>2, <2>3, <2>5, <3>1, IdleIsOutside
  <2> QED
    BY <1>7, <2>4, <2>5 DEF WaitUntilEmpty, WaitUntilEmptyFrom
<1>8. CASE WaitForNumBlockedDequeues(t)
  <2>1. /\ pc[t] \in {"idle", "wait_for_num"}
        /\ dequeue_sig' = dequeue_sig /\ enqueue_sig' = enqueue_sig
        /\ UNCHANGED <<enabled, enqueue_enabled, dequeue_enabled>>
    BY <1>8 DEF WaitForNumBlockedDequeues, Woken, Free, flags
  <2>2. t \notin dequeue_sig /\ t \notin enqueue_sig
    BY <1>2, <2>1 DEF SleepersOK, Inside, Enqueuers, InEnqueue, InHandoff
  <2>3. /\ CanDequeue => CanDequeue'
        /\ CanEnqueue => CanEnqueue'
    BY <2>1 DEF CanDequeue, CanEnqueue
  <2>4. PICK where \in {"idle", "wait_for_num"} : pc' = [pc EXCEPT ![t] = where]
    BY <1>8 DEF WaitForNumBlockedDequeues, WaitForNumFrom, Stay, Return, At
  <2>5. where \in Places
    BY DEF Places, Waiters
  <2> QED
    BY <1>5, <1>6, <2>1, <2>2, <2>3, <2>4, <2>5
<1>9. CASE Destroy(t) \/ DestroyWakes(t)
  <2>1. /\ pc[t] \in {"idle", "destructor"}
        /\ \/ dequeue_sig' = {} /\ enqueue_sig' = {}
           \/ /\ dequeue_sig' = dequeue_sig /\ enqueue_sig' = enqueue_sig
              /\ UNCHANGED <<enabled, enqueue_enabled, dequeue_enabled>>
    BY <1>9 DEF Destroy, DestroyWakes, Woken, Free, flags
  <2>2. t \notin dequeue_sig /\ t \notin enqueue_sig
    BY <1>2, <2>1 DEF SleepersOK, Inside, Enqueuers, InEnqueue, InHandoff
  <2>3. \/ dequeue_sig' = {} /\ enqueue_sig' = {}
        \/ /\ CanDequeue => CanDequeue'
           /\ CanEnqueue => CanEnqueue'
           /\ enabled => enabled'
           /\ dequeue_sig' = dequeue_sig \ {t} /\ enqueue_sig' = enqueue_sig \ {t}
    BY <2>1, <2>2 DEF CanDequeue, CanEnqueue
  <2>4. PICK where \in {"idle", "destructor"} : pc' = [pc EXCEPT ![t] = where]
    BY <1>9 DEF Destroy, DestroyWakes, DestroyFrom
  <2>5. where \in Places
    BY DEF Places, Waiters
  <2> QED
    BY <1>5, <1>6, <2>1, <2>3, <2>4, <2>5
<1>10. CASE Expire(t)
  <2>1. /\ pc[t] \in {"enqueue_or_timeout", "dequeue_or_timeout"}
        /\ pc[t] = "dequeue_or_timeout" => t \in dequeue_sig
        /\ dequeue_sig' = dequeue_sig \ {t} /\ enqueue_sig' = enqueue_sig \ {t}
        /\ UNCHANGED <<enabled, enqueue_enabled, dequeue_enabled>>
    <3>1. CASE EnqueueExpires(t)
      BY <1>2, <3>1 DEF EnqueueExpires, flags, SleepersOK, Inside
    <3>2. CASE DequeueExpires(t)
      BY <1>2, <3>2 DEF DequeueExpires, flags, SleepersOK, Inside, Enqueuers, InEnqueue, InHandoff
    <3> QED
      BY <1>10, <3>1, <3>2 DEF Expire
  <2>2. /\ CanDequeue => CanDequeue'
        /\ CanEnqueue => CanEnqueue'
    BY <2>1 DEF CanDequeue, CanEnqueue
  <2>3. PICK where \in {"enqueue_late", "dequeue_late"} : pc' = [pc EXCEPT ![t] = where]
    BY <1>10 DEF Expire, EnqueueExpires, DequeueExpires
  <2>4. where \in Places
    BY DEF Places, Enqueuers, InEnqueue, InDequeue
  <2> QED
    BY <1>5, <1>6, <2>1, <2>2, <2>3, <2>4
<1> QED
  BY <1>7, <1>8, <1>9, <1>10

\* What is disabled or emptied is told to those who wait for it.
LEMMA SwitchWakes ==
  ASSUME PipeInv, PipeInv', DequeuersServed, EnqueuersServed, Switch
  PROVE  DequeuersServed' /\ EnqueuersServed'
<1>1. /\ UNCHANGED <<pipe_max_size, first, last, data, pc, dequeue_waiters>>
      /\ \/ Empty \/ Disable \/ Enable \/ DisableEnqueue \/ EnableEnqueue
         \/ DisableDequeue \/ EnableDequeue
  BY DEF Switch, Empty, Disable, Enable, DisableEnqueue, EnableEnqueue, DisableDequeue,
         EnableDequeue, ring, counts, locals
<1>2. \/ dequeue_sig' = {}
      \/ /\ dequeue_sig' = dequeue_sig /\ (CanDequeue => CanDequeue')
         /\ pipe_size' \in {pipe_size, 0}
  BY <1>1 DEF Empty, Disable, Enable, DisableEnqueue, EnableEnqueue, DisableDequeue,
              EnableDequeue, ring, flags, sigs, CanDequeue
<1>3. \/ enqueue_sig' = {}
      \/ /\ enqueue_sig' = enqueue_sig /\ (CanEnqueue => CanEnqueue')
         /\ (enabled => enabled') /\ pipe_size' = pipe_size
  <2>1. CASE Empty
    BY <2>1, SleepersAreCounted DEF Empty, BroadcastIf
  <2>2. CASE ~Empty
    BY <1>1, <2>2 DEF Disable, Enable, DisableEnqueue, EnableEnqueue, DisableDequeue,
              EnableDequeue, ring, flags, sigs, CanEnqueue
  <2> QED
    BY <2>1, <2>2
<1>4. /\ Len(Stored) = Held(pipe_max_size, pipe_size, first, last)
      /\ Len(Stored)' = Held(pipe_max_size, pipe_size, first, last)'
      /\ Len(Stored) \in Nat /\ Len(Stored)' \in Nat
  BY LenStored
<1>5. DequeuersServed'
  <2>1. CASE dequeue_sig' = {}
    BY <2>1 DEF DequeuersServed
  <2>2. CASE /\ dequeue_sig' = dequeue_sig /\ (CanDequeue => CanDequeue')
             /\ pipe_size' \in {pipe_size, 0}
    <3>1. Awake' = Awake /\ IsFiniteSet(Awake) /\ Cardinality(Awake) \in Nat
      <4>1. Awake \subseteq Threads
        BY DEF Awake, Inside
      <4> QED
        BY <1>1, <2>2, <4>1, FS_Subset, FS_CardinalityType DEF Awake, Inside
    <3>2. Len(Stored)' <= Len(Stored)
      <4>1. Held(pipe_max_size, pipe_size, first, last)' \in
              {Held(pipe_max_size, pipe_size, first, last), 0}
        BY <1>1, <2>2 DEF Held
      <4> QED
        BY <1>4, <4>1
    <3>3. dequeue_sig # {} => Len(Stored)' <= Cardinality(Awake)'
      BY <1>4, <3>1, <3>2 DEF DequeuersServed
    <3> QED
      BY <2>2, <3>3 DEF DequeuersServed
  <2> QED
    BY <1>2, <2>1, <2>2
<1>6. EnqueuersServed'
  <2>1. CASE enqueue_sig' = {}
    BY <2>1 DEF EnqueuersServed
  <2>2. CASE /\ enqueue_sig' = enqueue_sig /\ (CanEnqueue => CanEnqueue')
             /\ (enabled => enabled') /\ pipe_size' = pipe_size
    <3> SUFFICES ASSUME NEW u \in enqueue_sig' PROVE Justified(u)'
      BY DEF EnqueuersServed
    <3>1. Justified(u)
      BY <2>2 DEF EnqueuersServed
    <3> QED
      BY <1>1, <2>2, <3>1 DEF Justified, InEnqueue, InHandoff
  <2> QED
    BY <1>3, <2>1, <2>2
<1> QED
  BY <1>5, <1>6

LEMMA StutterWakes ==
  ASSUME DequeuersServed, EnqueuersServed, UNCHANGED vars
  PROVE  DequeuersServed' /\ EnqueuersServed'
BY DEF DequeuersServed, EnqueuersServed, Awake, Justified, Inside, Stored, InEnqueue, InHandoff,
       CanDequeue, CanEnqueue, vars, ring, flags, counts, sigs, locals

LEMMA NextWakes ==
  PipeInv /\ PipeInv' /\ DequeuersServed /\ EnqueuersServed /\ [Next]_vars
    => DequeuersServed' /\ EnqueuersServed'
<1> SUFFICES ASSUME PipeInv, PipeInv', DequeuersServed, EnqueuersServed, [Next]_vars
             PROVE  DequeuersServed' /\ EnqueuersServed'
  OBVIOUS
<1>1. CASE Switch
  BY <1>1, SwitchWakes
<1>2. ASSUME NEW t \in Threads, Proceed(t)
      PROVE  DequeuersServed' /\ EnqueuersServed'
  <2>1. pipe_max_size' = pipe_max_size
    BY <1>2 DEF Proceed
  <2>2. CASE Enqueue(t) \/ EnqueueOrTimeout(t)
    BY <2>1, <2>2, EnqueueSteps, EnqueueWakes
  <2>3. CASE Handoff(t)
    BY <2>1, <2>3, HandoffWakes
  <2>4. CASE Dequeue(t) \/ DequeueOrTimeout(t)
    BY <2>1, <2>4, DequeueSteps, DequeueWakes
  <2>5. CASE WaitUntilEmpty(t) \/ WaitForNumBlockedDequeues(t)
    BY <1>2, <2>5, OthersWake
  <2>6. CASE Destroy(t) \/ DestroyWakes(t)
    BY <1>2, <2>6, OthersWake
  <2> QED
    BY <1>2, <2>2, <2>3, <2>4, <2>5, <2>6 DEF Proceed
<1>3. ASSUME NEW t \in Threads, Expire(t)
      PROVE  DequeuersServed' /\ EnqueuersServed'
  BY <1>3, OthersWake
<1>4. CASE UNCHANGED vars
  BY <1>4, StutterWakes
<1> QED
  BY <1>1, <1>2, <1>3, <1>4 DEF Next

\* signal() and broadcast() are called often enough: no dequeuer sleeps beside an
\* item that no other one is awake to take, and no enqueuer beside room for its own.
THEOREM NoWakeupIsLost == Spec => []NoLostWakeup
<1>1. Init => DequeuersServed /\ EnqueuersServed
  BY DEF Init, DequeuersServed, EnqueuersServed
<1>2. PipeInv /\ PipeInv' /\ DequeuersServed /\ EnqueuersServed /\ [Next]_vars
        => DequeuersServed' /\ EnqueuersServed'
  BY NextWakes
<1>3. PipeInv /\ DequeuersServed /\ EnqueuersServed => NoLostWakeup
  BY NoLostWakeupIs DEF PipeInv
<1> QED
  BY <1>1, <1>2, <1>3, PipeInvariant, PTL DEF Spec

-----------------------------------------------------------------------------
(* Pipe implements Channel *)

\* What a thread at a place knows, last being as it is.
StateAt(where, l) ==
  CASE where \in InEnqueue -> "enqueue"
    [] where \in InHandoff -> IF l = 0 THEN "offered" ELSE "taken"
    [] where \in InDequeue -> "dequeue"
    [] OTHER -> "idle"

CallsNow == [t \in Threads |-> CallOf(t)]

LEMMA CallOfIs ==
  ASSUME NEW t \in Threads
  PROVE  CallsNow[t] = [st |-> StateAt(pc[t], last), item |-> items[t], ok |-> ok[t]]
BY DEF CallsNow, CallOf, StateAt

LEMMA StatesAre ==
  ASSUME NEW where, NEW l
  PROVE  /\ where \in InEnqueue => StateAt(where, l) = "enqueue"
         /\ where \in InHandoff => StateAt(where, l) = IF l = 0 THEN "offered" ELSE "taken"
         /\ where \in InDequeue => StateAt(where, l) = "dequeue"
         /\ where \notin InEnqueue \cup InHandoff \cup InDequeue => StateAt(where, l) = "idle"
BY DEF StateAt, InEnqueue, InHandoff, InDequeue

\* A step of t changes what t knows, and what others know only when it takes
\* the item of one of them.
LEMMA CallsChange ==
  ASSUME TypesOK, NEW t \in Threads, NEW where, NEW v, NEW r,
         At(t, where, v), ok' = [ok EXCEPT ![t] = r],
         (last' = 0 <=> last = 0) \/ Inside(InHandoff) \subseteq {t}
  PROVE  CallsNow' =
           [CallsNow EXCEPT ![t] = [st |-> StateAt(where, last'), item |-> v, ok |-> r]]
<1>1. ASSUME NEW u \in Threads
      PROVE  CallsNow'[u] = IF u = t THEN [st |-> StateAt(where, last'), item |-> v, ok |-> r]
                            ELSE CallsNow[u]
  <2>1. CallsNow'[u] = [st |-> StateAt(pc'[u], last'), item |-> items'[u], ok |-> ok'[u]]
    BY DEF CallsNow, CallOf, StateAt
  <2>2. CASE u = t
    BY <2>1, <2>2 DEF At, TypesOK
  <2>3. CASE u # t
    <3>1. pc'[u] = pc[u] /\ items'[u] = items[u] /\ ok'[u] = ok[u]
      BY <2>3 DEF At, TypesOK
    <3>2. StateAt(pc[u], last') = StateAt(pc[u], last)
      <4>1. CASE last' = 0 <=> last = 0
        BY <4>1 DEF StateAt
      <4>2. CASE pc[u] \notin InHandoff
        BY <4>2 DEF StateAt
      <4> QED
        BY <2>3, <4>1, <4>2 DEF Inside
    <3> QED
      BY <2>1, <2>3, <3>1, <3>2, CallOfIs
  <2> QED
    BY <2>2, <2>3
<1>2. CallsNow' = [u \in Threads |-> CallsNow'[u]] /\ CallsNow = [u \in Threads |-> CallsNow[u]]
  BY DEF CallsNow
<1> QED
  BY <1>1, <1>2

\* Its call ends.
LEMMA CallsEnds ==
  ASSUME TypesOK, NEW t \in Threads, NEW v, NEW r,
         At(t, "idle", v), ok' = [ok EXCEPT ![t] = r],
         (last' = 0 <=> last = 0) \/ Inside(InHandoff) \subseteq {t}
  PROVE  CallsNow' = [CallsNow EXCEPT ![t] = [st |-> "idle", item |-> v, ok |-> r]]
<1> DEFINE where == "idle"
<1>1. StateAt(where, last') = "idle"
  BY StatesAre, IdleIsOutside
<1>2. At(t, where, v)
  OBVIOUS
<1> HIDE DEF where
<1> QED
  BY <1>1, <1>2, CallsChange

\* The abstract step that only changes what t knows.
LEMMA BecomesIs ==
  ASSUME NEW t, NEW st, NEW item, NEW r
  PROVE  Promise!Becomes(t, st, item, r) <=>
           CallsNow' = [CallsNow EXCEPT ![t] = [st |-> st, item |-> item, ok |-> r]]
BY DEF Promise!Becomes, CallsNow

\* The items of a pipe with capacity are those of a ring.
LEMMA StoredIs ==
  /\ pipe_max_size # 0 => Stored = Ring(pipe_max_size, first, pipe_size, data)
  /\ pipe_max_size' # 0 => Stored' = Ring(pipe_max_size', first', pipe_size', data')
BY DEF Stored, Ring

LEMMA InitPromised == Init => Promise!Init
<1> SUFFICES ASSUME Init PROVE Promise!Init
  OBVIOUS
<1>1. pipe_max_size \in Nat /\ Stored = <<>>
  BY DEF Init, Stored
<1>2. CallsNow = [t \in Threads |-> [st |-> "idle", item |-> None, ok |-> TRUE]]
  BY StatesAre DEF Init, CallsNow, CallOf, InEnqueue, InHandoff, InDequeue
<1> QED
  BY <1>1, <1>2 DEF Promise!Init, CallsNow

\* The abstract call of t, and a step of it.
LEMMA StepIsNext ==
  ASSUME NEW t \in Threads, Promise!Step(t), UNCHANGED pipe_max_size
  PROVE  Promise!Next
BY DEF Promise!Next

LEMMA NothingHappens ==
  ASSUME Stored' = Stored, CallsNow' = CallsNow, UNCHANGED pipe_max_size
  PROVE  UNCHANGED Promise!vars
BY DEF Promise!vars, CallsNow

LEMMA EnqueuePromised ==
  ASSUME PipeInv, PipeInv', NEW t \in Threads, NEW v \in Items, NEW timed \in BOOLEAN,
         NEW ew \in Nat, EnqueueStep(t, v, timed, ew)
  PROVE  [Promise!Next]_(Promise!vars)
<1>1. /\ pc[t] \in {"idle"} \cup InEnqueue
      /\ t \notin Inside(InHandoff)
      /\ UNCHANGED pipe_max_size
  BY EnqueuerKnows DEF EnqueueStep
<1>2. TypesOK /\ RingOK /\ SlotOwned
  BY DEF PipeInv
<1>3. Promise!Offers(t, v) /\ (pc[t] = "idle" => CallsNow[t].st = "idle")
  <2>1. CASE pc[t] = "idle"
    BY <2>1, CallOfIs, StatesAre, IdleIsOutside DEF Promise!Offers, CallsNow
  <2>2. CASE pc[t] \in InEnqueue
    <3>1. pc[t] # "idle" /\ items[t] = v
      BY <2>2 DEF EnqueueStep, MayEnqueue, Free, InEnqueue
    <3> QED
      BY <2>2, <3>1, CallOfIs, StatesAre DEF Promise!Offers, CallsNow
  <2> QED
    BY <1>1, <2>1, <2>2
<1>4. CASE EnqueueSleeps(t, v, timed, ew)
  <2> DEFINE where == IF timed THEN "enqueue_or_timeout" ELSE "enqueue"
  <2>1. /\ At(t, where, v) /\ ok' = [ok EXCEPT ![t] = TRUE]
        /\ UNCHANGED <<pipe_size, first, last, data>>
    BY <1>4 DEF EnqueueSleeps, Stay, ring
  <2>2. where \in InEnqueue
    BY DEF InEnqueue
  <2> HIDE DEF where
  <2>3. Stored' = Stored
    BY <1>1, <2>1 DEF Stored
  <2>4. CallsNow' = [CallsNow EXCEPT ![t] = [st |-> "enqueue", item |-> v, ok |-> TRUE]]
    <3>1. StateAt(where, last') = "enqueue"
      BY <2>2, StatesAre
    <3>2. last' = 0 <=> last = 0
      BY <2>1
    <3> QED
      BY <1>2, <2>1, <3>1, <3>2, CallsChange
  <2>5. CASE pc[t] = "idle"
    <3>1. Promise!BlockEnqueue(t, v)
      BY <1>3, <2>3, <2>4, <2>5, BecomesIs DEF Promise!BlockEnqueue, CallsNow
    <3> QED
      BY <1>1, <3>1, StepIsNext DEF Promise!Step
  <2>6. CASE pc[t] \in InEnqueue
    <3>1. items[t] = v /\ ok[t] = TRUE
      BY <2>6 DEF EnqueueStep, MayEnqueue, Free, InEnqueue, PipeInv, CallersOK, Inside
    <3>2. CallsNow[t] = [st |-> "enqueue", item |-> v, ok |-> TRUE]
      BY <2>6, <3>1, CallOfIs, StatesAre
    <3>3. CallsNow' = CallsNow
      BY <2>4, <3>2 DEF CallsNow
    <3> QED
      BY <1>1, <2>3, <3>3, NothingHappens
  <2> QED
    BY <1>1, <2>5, <2>6
<1>5. CASE EnqueueReturnsFalse(t, v, ew)
  <2>1. /\ At(t, "idle", v) /\ ok' = [ok EXCEPT ![t] = FALSE]
        /\ UNCHANGED <<pipe_size, first, last, data>>
    BY <1>5 DEF EnqueueReturnsFalse, Return, ring
  <2>2. Stored' = Stored
    BY <1>1, <2>1 DEF Stored
  <2>3. CallsNow' = [CallsNow EXCEPT ![t] = [st |-> "idle", item |-> v, ok |-> FALSE]]
    BY <1>2, <2>1, CallsEnds
  <2>4. Promise!EnqueueFails(t, v)
    BY <1>3, <2>2, <2>3, BecomesIs DEF Promise!EnqueueFails
  <2> QED
    BY <1>1, <2>4, StepIsNext DEF Promise!Step
<1>6. CASE CanEnqueue /\ EnqueueStores(t, v, timed, ew)
  <2> DEFINE slot == IF pipe_size = 0 THEN 0 ELSE NextSlot(last)
             where == IF pipe_max_size > 0 THEN "idle"
                      ELSE IF timed THEN "handoff_timed" ELSE "handoff"
  <2>1. /\ first' = IF pipe_size = 0 THEN 0 ELSE first
        /\ last' = slot
        /\ data' = [data EXCEPT ![slot] = v]
    BY <1>6 DEF EnqueueStores
  <2>2. pipe_size # pipe_max_size \/ (pipe_max_size = 0 /\ first = 1)
    BY <1>6 DEF EnqueueStores, EnqueueBlocks
  <2>3. /\ pipe_size \in Nat /\ pipe_max_size \in Nat
        /\ pipe_max_size > 0 => pipe_size < pipe_max_size
        /\ pipe_max_size = 0 => slot = 0 /\ pipe_size = 0 /\ first = 1 /\ data[0] = None
    BY <1>2, <2>2, SlotsAre DEF RingOK
  <2>4. /\ At(t, where, None) /\ ok' = [ok EXCEPT ![t] = TRUE]
        /\ pipe_max_size > 0 => pipe_size' = pipe_size + 1
    BY <1>6, <2>3 DEF EnqueueStores, Stay, Return
  <2>5. Inside(InHandoff) \subseteq {t}
    BY <1>2, <2>3 DEF SlotOwned
  <2>6. /\ pipe_max_size > 0 => where = "idle"
        /\ pipe_max_size = 0 => where \in InHandoff
    BY <2>3 DEF InHandoff
  <2> HIDE DEF where, slot
  <2>7. CallsNow' = [CallsNow EXCEPT ![t] = [st |-> StateAt(where, last'), item |-> None, ok |-> TRUE]]
    BY <1>2, <2>4, <2>5, CallsChange
  <2>8. CASE pipe_max_size = 0
    <3>1. Stored = <<>> /\ Stored' = <<v>>
      <4>1. 0 \in DOMAIN data
        BY <1>2, <2>8, SlotsAre DEF TypesOK
      <4> QED
        BY <1>1, <2>1, <2>3, <2>8, <4>1 DEF Stored
    <3>2. StateAt(where, last') = "offered"
      BY <2>1, <2>3, <2>6, <2>8, StatesAre
    <3>3. Stored' = Append(Stored, v) /\ Len(Stored) < Promise!Room
      BY <2>8, <3>1 DEF Promise!Room
    <3>4. Promise!Becomes(t, "offered", None, TRUE)
      BY <2>7, <3>2, BecomesIs
    <3>5. Promise!Enqueue(t, v)
      BY <1>3, <2>8, <3>3, <3>4 DEF Promise!Enqueue
    <3> QED
      BY <1>1, <3>5, StepIsNext DEF Promise!Step
  <2>9. CASE pipe_max_size > 0
    <3>1. StateAt(where, last') = "idle"
      BY <2>6, <2>9, StatesAre, IdleIsOutside
    <3>2. Stored' = Append(Stored, v) /\ Len(Stored) < pipe_max_size
      <4>1. /\ pipe_max_size \in Nat \ {0} /\ pipe_size \in 0..(pipe_max_size - 1)
            /\ data \in [0..(pipe_max_size - 1) -> Items \cup {None}]
            /\ first' \in 0..(pipe_max_size - 1)
            /\ slot = (first' + pipe_size) % pipe_max_size
        <5>1. RingOK' /\ TypesOK'
          BY DEF PipeInv
        <5>2. pipe_size' > 0 /\ pipe_size' - 1 = pipe_size /\ Slots = 0..(pipe_max_size - 1)
          BY <1>2, <2>3, <2>4, <2>9, SlotsAre
        <5>3. Slots' = Slots
          BY <1>1 DEF Slots
        <5>4. first' \in Slots /\ last' = (first' + pipe_size' - 1) % pipe_max_size
          BY <1>1, <5>1, <5>2, <5>3 DEF RingOK
        <5>5. first' + pipe_size' - 1 = first' + pipe_size
          BY <2>3, <2>4, <2>9, <5>2, <5>4
        <5>6. slot = (first' + pipe_size) % pipe_max_size
          BY <1>1, <2>1, <5>4, <5>5
        <5>7. data \in [0..(pipe_max_size - 1) -> Items \cup {None}]
          BY <1>2, <5>2 DEF TypesOK
        <5>8. pipe_max_size \in Nat \ {0} /\ pipe_size \in 0..(pipe_max_size - 1)
          BY <2>3, <2>9
        <5> QED
          BY <5>2, <5>4, <5>6, <5>7, <5>8
      <4>2. Ring(pipe_max_size, first', pipe_size', data')
              = Append(Ring(pipe_max_size, first', pipe_size, data), v)
        <5> DEFINE S == Items \cup {None}
        <5>1. v \in S /\ pipe_size' = pipe_size + 1
          BY <2>4, <2>9
        <5>2. /\ \A i \in 0..(pipe_max_size - 1) : data[i] \in S
              /\ \A i \in 0..(pipe_max_size - 1) : data'[i] = IF i = slot THEN v ELSE data[i]
          BY <2>1, <4>1
        <5>3. slot = IF first' + pipe_size < pipe_max_size THEN first' + pipe_size
                     ELSE first' + pipe_size - pipe_max_size
          <6>1. pipe_size \in 0..pipe_max_size
            BY <4>1
          <6> QED
            BY <4>1, <6>1, Wraps
        <5>4. StoresBehind(S, pipe_max_size, first', pipe_size, data, slot, v, pipe_size', data')
          BY <4>1, <5>1, <5>2, <5>3 DEF StoresBehind
        <5> HIDE DEF S
        <5> QED
          BY <5>4, RingAppend
      <4>3. Ring(pipe_max_size, first', pipe_size, data) = Stored
        <5>1. CASE pipe_size = 0
          BY <2>9, <5>1, StoredIs DEF Ring
        <5>2. CASE pipe_size # 0
          BY <2>1, <2>9, <5>2, StoredIs
        <5> QED
          BY <5>1, <5>2
      <4>4. Stored' = Ring(pipe_max_size, first', pipe_size', data')
        BY <1>1, <2>4, <2>9, StoredIs
      <4>5. Len(Stored) = pipe_size
        BY <2>3, <2>9 DEF Stored
      <4> QED
        BY <2>1, <2>3, <2>9, <4>1, <4>2, <4>3, <4>4, <4>5
    <3>3. pipe_max_size # 0 /\ Promise!Room = pipe_max_size
      BY <2>9 DEF Promise!Room
    <3>4. Promise!Becomes(t, "idle", None, TRUE)
      BY <2>7, <3>1, BecomesIs
    <3>5. Promise!Enqueue(t, v)
      BY <1>3, <3>2, <3>3, <3>4 DEF Promise!Enqueue
    <3> QED
      BY <1>1, <3>5, StepIsNext DEF Promise!Step
  <2> QED
    BY <2>3, <2>8, <2>9
<1> QED
  BY <1>4, <1>5, <1>6 DEF EnqueueStep

\* A step that moves no item, as far as Channel sees it: the call of t is the
\* same before and after it, ...
LEMMA CallStays ==
  ASSUME TypesOK, NEW t \in Threads, NEW where, pc' = [pc EXCEPT ![t] = where],
         UNCHANGED <<pipe_max_size, ring, items, ok>>,
         \/ pc[t] \in InEnqueue /\ where \in InEnqueue
         \/ pc[t] \in InDequeue /\ where \in InDequeue
         \/ /\ pc[t] \notin InEnqueue \cup InHandoff \cup InDequeue
            /\ where \notin InEnqueue \cup InHandoff \cup InDequeue
  PROVE  UNCHANGED Promise!vars
<1>1. UNCHANGED <<pipe_size, first, last, data>>
  BY DEF ring
<1>2. Stored' = Stored
  BY <1>1 DEF Stored
<1>3. StateAt(where, last) = StateAt(pc[t], last)
  BY StatesAre
<1>4. ASSUME NEW u \in Threads
      PROVE  CallsNow'[u] = CallsNow[u]
  <2>1. CallsNow'[u] = [st |-> StateAt(pc'[u], last), item |-> items[u], ok |-> ok[u]]
    BY <1>1 DEF CallsNow, CallOf, StateAt
  <2>2. StateAt(pc'[u], last) = StateAt(pc[u], last)
    BY <1>3 DEF TypesOK
  <2> QED
    BY <2>1, <2>2, CallOfIs
<1>5. CallsNow' = CallsNow
  <2>1. /\ CallsNow' = [u \in Threads |-> CallsNow'[u]]
        /\ CallsNow = [u \in Threads |-> CallsNow[u]]
    BY DEF CallsNow
  <2> QED
    BY <1>4, <2>1
<1> QED
  BY <1>2, <1>5, NothingHappens

\* ... or t is outside the calls that pass items and gives up what it held.
LEMMA OtherCallPromised ==
  ASSUME TypesOK, NEW t \in Threads, NEW where, At(t, where, None), ok' = [ok EXCEPT ![t] = TRUE],
         UNCHANGED <<pipe_max_size, ring>>,
         pc[t] \notin InEnqueue \cup InHandoff \cup InDequeue,
         where \notin InEnqueue \cup InHandoff \cup InDequeue
  PROVE  Promise!Next
<1>1. UNCHANGED <<pipe_size, first, last, data>>
  BY DEF ring
<1>2. Stored' = Stored
  BY <1>1 DEF Stored
<1>3. StateAt(where, last') = "idle" /\ CallsNow[t].st = "idle"
  <2>1. StateAt(where, last') = "idle" /\ StateAt(pc[t], last) = "idle"
    BY StatesAre
  <2>2. CallsNow[t] = [st |-> StateAt(pc[t], last), item |-> items[t], ok |-> ok[t]]
    BY CallOfIs
  <2> QED
    BY <2>1, <2>2
<1>4. CallsNow' = [CallsNow EXCEPT ![t] = [st |-> StateAt(where, last'), item |-> None, ok |-> TRUE]]
  <2>1. last' = 0 <=> last = 0
    BY <1>1
  <2> QED
    BY <2>1, CallsChange
<1>5. Promise!Becomes(t, "idle", None, TRUE)
  BY <1>3, <1>4, BecomesIs
<1>6. Promise!OtherCall(t)
  BY <1>2, <1>3, <1>5 DEF Promise!OtherCall, CallsNow
<1> QED
  BY <1>6, StepIsNext DEF Promise!Step

LEMMA HandoffPromised ==
  ASSUME PipeInv, NEW t \in Threads, Handoff(t), UNCHANGED pipe_max_size
  PROVE  [Promise!Next]_(Promise!vars)
<1>1. pc[t] \in InHandoff /\ (HandoffSleeps(t) \/ HandoffWithdraws(t) \/ HandoffEnds(t))
  BY DEF Handoff, Woken, InHandoff
<1>2. TypesOK /\ RingOK /\ SlotOwned
  BY DEF PipeInv
<1>3. Inside(InHandoff) = {t} /\ pipe_max_size = 0 /\ first = 0 /\ last \in {0, 1}
  <2>1. t \in Inside(InHandoff)
    BY <1>1 DEF Inside
  <2>2. pipe_max_size = 0 /\ first = 0 /\ Inside(InHandoff) = {t}
    BY <1>2, <2>1 DEF SlotOwned
  <2> QED
    BY <1>2, <2>2 DEF RingOK
<1>4. CallsNow[t].st = IF last = 0 THEN "offered" ELSE "taken"
  <2>1. StateAt(pc[t], last) = IF last = 0 THEN "offered" ELSE "taken"
    BY <1>1, StatesAre
  <2>2. CallsNow[t] = [st |-> StateAt(pc[t], last), item |-> items[t], ok |-> ok[t]]
    BY CallOfIs
  <2> QED
    BY <2>1, <2>2
<1>5. CASE HandoffSleeps(t)
  <2>1. UNCHANGED <<pipe_size, first, last, data, pc, items, ok>>
    BY <1>5 DEF HandoffSleeps, ring, locals
  <2>2. Stored' = Stored /\ CallsNow' = CallsNow
    BY <2>1 DEF Stored, CallsNow, CallOf
  <2> QED
    BY <2>2, NothingHappens
<1>6. CASE HandoffWithdraws(t)
  <2>1. /\ At(t, "idle", data[0]) /\ ok' = [ok EXCEPT ![t] = FALSE]
        /\ last = 0 /\ first' = 1
    BY <1>6 DEF HandoffWithdraws, Return
  <2>2. Stored = <<data[0]>> /\ Stored' = <<>>
    BY <1>3, <2>1 DEF Stored
  <2>3. CallsNow' = [CallsNow EXCEPT ![t] = [st |-> "idle", item |-> data[0], ok |-> FALSE]]
    BY <1>2, <1>3, <2>1, CallsEnds
  <2>4. Promise!Becomes(t, "idle", Head(Stored), FALSE)
    <3>1. Head(Stored) = data[0]
      BY <2>2
    <3> QED
      BY <2>3, <3>1, BecomesIs
  <2>5. Promise!Withdraw(t)
    BY <1>4, <2>1, <2>2, <2>4 DEF Promise!Withdraw, CallsNow
  <2> QED
    BY <2>5, StepIsNext DEF Promise!Step
<1>7. CASE HandoffEnds(t)
  <2>1. /\ At(t, "idle", None) /\ ok' = [ok EXCEPT ![t] = TRUE]
        /\ last # 0 /\ first' = 1
    BY <1>7 DEF HandoffEnds, Return
  <2>2. Stored' = Stored
    BY <1>3, <2>1 DEF Stored
  <2>3. Promise!Becomes(t, "idle", None, TRUE)
    BY <1>2, <1>3, <2>1, CallsEnds, BecomesIs
  <2>4. Promise!HandedOver(t)
    BY <1>4, <2>1, <2>2, <2>3 DEF Promise!HandedOver, CallsNow
  <2> QED
    BY <2>4, StepIsNext DEF Promise!Step
<1> QED
  BY <1>1, <1>5, <1>6, <1>7

\* t takes an item: whoever had it on offer learns that it is taken.
LEMMA TakingChangesCalls ==
  ASSUME TypesOK, NEW t \in Threads, NEW v, At(t, "idle", v), ok' = [ok EXCEPT ![t] = TRUE],
         \A u \in Inside(InHandoff) : u # t /\ last = 0 /\ last' = 1
  PROVE  CallsNow' =
           [u \in Threads |->
              IF u = t THEN [st |-> "idle", item |-> v, ok |-> TRUE]
              ELSE IF CallsNow[u].st = "offered" THEN [CallsNow[u] EXCEPT !.st = "taken"]
              ELSE CallsNow[u]]
<1>1. ASSUME NEW u \in Threads
      PROVE  CallsNow'[u] =
               IF u = t THEN [st |-> "idle", item |-> v, ok |-> TRUE]
               ELSE IF CallsNow[u].st = "offered" THEN [CallsNow[u] EXCEPT !.st = "taken"]
               ELSE CallsNow[u]
  <2>1. /\ CallsNow'[u] = [st |-> StateAt(pc'[u], last'), item |-> items'[u], ok |-> ok'[u]]
        /\ CallsNow[u] = [st |-> StateAt(pc[u], last), item |-> items[u], ok |-> ok[u]]
    BY CallOfIs DEF CallsNow, CallOf, StateAt
  <2>2. CASE u = t
    <3>1. pc'[u] = "idle" /\ items'[u] = v /\ ok'[u] = TRUE
      BY <2>2 DEF At, TypesOK
    <3>2. StateAt(pc'[u], last') = "idle"
      BY <3>1, StatesAre, IdleIsOutside
    <3> QED
      BY <2>1, <2>2, <3>1, <3>2
  <2>3. CASE u # t
    <3>1. pc'[u] = pc[u] /\ items'[u] = items[u] /\ ok'[u] = ok[u]
      BY <2>3 DEF At, TypesOK
    <3>2. CASE pc[u] \in InHandoff
      <4>1. last = 0 /\ last' = 1
        BY <3>2 DEF Inside
      <4>2. StateAt(pc[u], last) = "offered" /\ StateAt(pc[u], last') = "taken"
        BY <3>2, <4>1, StatesAre
      <4> QED
        BY <2>1, <2>3, <3>1, <4>2
    <3>3. CASE pc[u] \notin InHandoff
      <4>1. StateAt(pc[u], last') = StateAt(pc[u], last) /\ StateAt(pc[u], last) # "offered"
        BY <3>3 DEF StateAt
      <4> QED
        BY <2>1, <2>3, <3>1, <4>1
    <3> QED
      BY <3>2, <3>3
  <2> QED
    BY <2>2, <2>3
<1>2. CallsNow' = [u \in Threads |-> CallsNow'[u]]
  BY DEF CallsNow
<1> QED
  BY <1>1, <1>2

LEMMA DequeuePromised ==
  ASSUME PipeInv, NEW t \in Threads, NEW timed \in BOOLEAN, NEW dw, NEW es, NEW us,
         DequeueStep(t, timed, dw, es, us)
  PROVE  [Promise!Next]_(Promise!vars)
<1>1. /\ pc[t] \in {"idle"} \cup InDequeue
      /\ t \notin Inside(InHandoff)
      /\ UNCHANGED pipe_max_size
  BY DequeuerKnows DEF DequeueStep
<1>2. TypesOK /\ RingOK /\ SlotOwned
  BY DEF PipeInv
<1>3. /\ CallsNow[t] = [st |-> StateAt(pc[t], last), item |-> items[t], ok |-> ok[t]]
      /\ pc[t] = "idle" => StateAt(pc[t], last) = "idle"
      /\ pc[t] \in InDequeue => StateAt(pc[t], last) = "dequeue"
  <2>1. CallsNow[t] = [st |-> StateAt(pc[t], last), item |-> items[t], ok |-> ok[t]]
    BY CallOfIs
  <2> QED
    BY <2>1, StatesAre, IdleIsOutside
<1>4. Promise!Asks(t) /\ (pc[t] = "idle" => CallsNow[t].st = "idle")
  <2>1. CallsNow[t].st \in {"idle", "dequeue"} /\ (pc[t] = "idle" => CallsNow[t].st = "idle")
    BY <1>1, <1>3
  <2> QED
    BY <2>1 DEF Promise!Asks, CallsNow
<1>5. CASE DequeueSleeps(t, timed, dw, es, us)
  <2> DEFINE where == IF timed THEN "dequeue_or_timeout" ELSE "dequeue"
  <2>1. /\ At(t, where, None) /\ ok' = [ok EXCEPT ![t] = TRUE]
        /\ UNCHANGED <<pipe_size, first, last, data>>
    BY <1>5 DEF DequeueSleeps, Stay, ring
  <2>2. where \in InDequeue
    BY DEF InDequeue
  <2> HIDE DEF where
  <2>3. Stored' = Stored
    BY <1>1, <2>1 DEF Stored
  <2>4. CallsNow' = [CallsNow EXCEPT ![t] = [st |-> "dequeue", item |-> None, ok |-> TRUE]]
    <3>1. StateAt(where, last') = "dequeue"
      BY <2>2, StatesAre
    <3>2. last' = 0 <=> last = 0
      BY <2>1
    <3>3. CallsNow' = [CallsNow EXCEPT ![t] = [st |-> StateAt(where, last'),
                                               item |-> None, ok |-> TRUE]]
      <4>1. TypesOK /\ At(t, where, None) /\ ok' = [ok EXCEPT ![t] = TRUE]
        BY <1>2, <2>1
      <4> QED
        BY <3>2, <4>1, CallsChange
    <3> QED
      BY <3>1, <3>3
  <2>5. CASE pc[t] = "idle"
    <3>1. Promise!BlockDequeue(t)
      BY <1>4, <2>3, <2>4, <2>5, BecomesIs DEF Promise!BlockDequeue, CallsNow
    <3> QED
      BY <1>1, <3>1, StepIsNext DEF Promise!Step
  <2>6. CASE pc[t] \in InDequeue
    <3>1. items[t] = None /\ ok[t] = TRUE
      BY <2>6 DEF PipeInv, CallersOK, Inside
    <3>2. CallsNow[t] = [st |-> "dequeue", item |-> None, ok |-> TRUE]
      BY <1>3, <2>6, <3>1
    <3>3. CallsNow' = CallsNow
      BY <2>4, <3>2 DEF CallsNow
    <3> QED
      BY <1>1, <2>3, <3>3, NothingHappens
  <2> QED
    BY <1>1, <2>5, <2>6
<1>6. CASE DequeueReturnsFalse(t, dw, es)
  <2>1. /\ At(t, "idle", None) /\ ok' = [ok EXCEPT ![t] = FALSE]
        /\ UNCHANGED <<pipe_size, first, last, data>>
    BY <1>6 DEF DequeueReturnsFalse, Return, ring
  <2>2. Stored' = Stored
    BY <1>1, <2>1 DEF Stored
  <2>3. Promise!Becomes(t, "idle", None, FALSE)
    BY <1>2, <2>1, CallsEnds, BecomesIs
  <2>4. Promise!DequeueFails(t)
    BY <1>4, <2>2, <2>3 DEF Promise!DequeueFails
  <2> QED
    BY <1>1, <2>4, StepIsNext DEF Promise!Step
<1>7. CASE CanDequeue /\ DequeueTakes(t, dw, es, us)
  <2>1. /\ At(t, "idle", data[first]) /\ ok' = [ok EXCEPT ![t] = TRUE]
        /\ data' = [data EXCEPT ![first] = None]
        /\ pipe_max_size > 0 => first' = NextSlot(first) /\ pipe_size' = pipe_size - 1
        /\ ~(pipe_max_size > 0) => last' = 1
    BY <1>7 DEF DequeueTakes, Return
  <2>2. pipe_max_size \in Nat /\ pipe_size \in Nat /\ pipe_size <= pipe_max_size
    BY <1>2, SlotsAre DEF RingOK
  <2>3. pipe_size > 0 \/ (pipe_max_size = 0 /\ first = 0 /\ last = 0)
    BY <1>7, <2>2 DEF DequeueTakes, DequeueBlocks
  <2>4. \A u \in Inside(InHandoff) : u # t /\ last = 0 /\ last' = 1
    BY <1>1, <1>2, <2>1, <2>2, <2>3 DEF SlotOwned
  <2>5. Stored # <<>> /\ Head(Stored) = data[first] /\ Stored' = Tail(Stored)
    <3>1. CASE pipe_max_size = 0
      <4>1. Stored = <<data[first]>> /\ Stored' = <<>>
        BY <1>1, <2>1, <2>2, <2>3, <3>1 DEF Stored
      <4> QED
        BY <4>1
    <3>2. CASE pipe_max_size > 0
      <4> DEFINE S == Items \cup {None}
      <4>1. /\ pipe_max_size \in Nat \ {0} /\ pipe_size \in 1..pipe_max_size
            /\ Slots = 0..(pipe_max_size - 1)
            /\ first \in 0..(pipe_max_size - 1)
            /\ pipe_size' = pipe_size - 1
        BY <1>2, <2>1, <2>2, <2>3, <3>2, SlotsAre DEF RingOK
      <4>2. first' = IF first + 1 < pipe_max_size THEN first + 1 ELSE first + 1 - pipe_max_size
        <5>1. 1 \in 0..pipe_max_size
          BY <4>1
        <5> QED
          BY <2>1, <3>2, <4>1, <5>1, Wraps DEF NextSlot
      <4>3. /\ \A i \in 0..(pipe_max_size - 1) : data[i] \in S
            /\ \A i \in 0..(pipe_max_size - 1) : data'[i] = IF i = first THEN None ELSE data[i]
        BY <1>2, <2>1, <4>1 DEF TypesOK
      <4>4. TakesFirst(S, pipe_max_size, first, pipe_size, data, first', None, pipe_size', data')
        BY <4>1, <4>2, <4>3 DEF TakesFirst
      <4> HIDE DEF S
      <4>5. /\ Ring(pipe_max_size, first, pipe_size, data) # <<>>
            /\ Head(Ring(pipe_max_size, first, pipe_size, data)) = data[first]
            /\ Ring(pipe_max_size, first', pipe_size', data')
                 = Tail(Ring(pipe_max_size, first, pipe_size, data))
        BY <4>4, RingTail
      <4>6. /\ Stored = Ring(pipe_max_size, first, pipe_size, data)
            /\ Stored' = Ring(pipe_max_size, first', pipe_size', data')
        BY <1>1, <4>1, StoredIs
      <4> QED
        BY <4>5, <4>6
    <3> QED
      BY <2>2, <3>1, <3>2
  <2>6. CallsNow' =
          [u \in Threads |->
             IF u = t THEN [st |-> "idle", item |-> data[first], ok |-> TRUE]
             ELSE IF CallsNow[u].st = "offered" THEN [CallsNow[u] EXCEPT !.st = "taken"]
             ELSE CallsNow[u]]
    BY <1>2, <2>1, <2>4, TakingChangesCalls
  <2>7. Promise!Dequeue(t)
    BY <1>4, <2>5, <2>6 DEF Promise!Dequeue, CallsNow
  <2> QED
    BY <1>1, <2>7, StepIsNext DEF Promise!Step
<1> QED
  BY <1>5, <1>6, <1>7 DEF DequeueStep

\* The calls that pass no item.
LEMMA OthersPromised ==
  ASSUME PipeInv, NEW t \in Threads, UNCHANGED pipe_max_size,
         \/ WaitUntilEmpty(t) \/ WaitForNumBlockedDequeues(t)
         \/ Destroy(t) \/ DestroyWakes(t)
  PROVE  [Promise!Next]_(Promise!vars)
<1>1. TypesOK
  BY DEF PipeInv
<1>2. \A where \in {"idle", "wait_until_empty", "wait_for_num", "destructor"} :
        where \notin InEnqueue \cup InHandoff \cup InDequeue
  BY DEF InEnqueue, InHandoff, InDequeue
<1>3. CASE WaitUntilEmpty(t)
  <2>1. PICK where \in {"idle", "wait_until_empty"} :
          /\ At(t, where, None) /\ ok' = [ok EXCEPT ![t] = TRUE]
          /\ pc[t] \in {"idle", "wait_until_empty"}
          /\ UNCHANGED ring
    BY <1>3 DEF WaitUntilEmpty, WaitUntilEmptyFrom, Free, Woken, Stay, Return
  <2> QED
    BY <1>1, <1>2, <2>1, OtherCallPromised
<1>4. CASE WaitForNumBlockedDequeues(t)
  <2>1. PICK where \in {"idle", "wait_for_num"} :
          /\ At(t, where, None) /\ ok' = [ok EXCEPT ![t] = TRUE]
          /\ pc[t] \in {"idle", "wait_for_num"}
          /\ UNCHANGED ring
    BY <1>4 DEF WaitForNumBlockedDequeues, WaitForNumFrom, Free, Woken, Stay, Return
  <2> QED
    BY <1>1, <1>2, <2>1, OtherCallPromised
<1>5. CASE Destroy(t)
  <2>1. PICK where \in {"idle", "destructor"} :
          /\ At(t, where, None) /\ ok' = [ok EXCEPT ![t] = TRUE]
          /\ pc[t] = "idle"
          /\ UNCHANGED ring
    BY <1>5 DEF Destroy, DestroyFrom, Free, At
  <2> QED
    BY <1>1, <1>2, <2>1, OtherCallPromised
<1>6. CASE DestroyWakes(t)
  <2>1. PICK where \in {"idle", "destructor"} : pc' = [pc EXCEPT ![t] = where]
    BY <1>6 DEF DestroyWakes, DestroyFrom
  <2>2. pc[t] = "destructor" /\ UNCHANGED <<ring, items, ok>>
    BY <1>6 DEF DestroyWakes, Woken
  <2> QED
    BY <1>1, <1>2, <2>1, <2>2, CallStays
<1> QED
  BY <1>3, <1>4, <1>5, <1>6

LEMMA ExpirePromised ==
  ASSUME PipeInv, NEW t \in Threads, Expire(t)
  PROVE  UNCHANGED Promise!vars
<1>1. TypesOK
  BY DEF PipeInv
<1>2. CASE EnqueueExpires(t)
  <2> DEFINE where == "enqueue_late"
  <2>1. /\ pc' = [pc EXCEPT ![t] = where] /\ pc[t] \in InEnqueue /\ where \in InEnqueue
        /\ UNCHANGED <<pipe_max_size, ring, items, ok>>
    BY <1>2 DEF Expire, EnqueueExpires, InEnqueue
  <2> HIDE DEF where
  <2> QED
    BY <1>1, <2>1, CallStays
<1>3. CASE DequeueExpires(t)
  <2> DEFINE where == "dequeue_late"
  <2>1. /\ pc' = [pc EXCEPT ![t] = where] /\ pc[t] \in InDequeue /\ where \in InDequeue
        /\ UNCHANGED <<pipe_max_size, ring, items, ok>>
    BY <1>3 DEF Expire, DequeueExpires, InDequeue
  <2> HIDE DEF where
  <2> QED
    BY <1>1, <2>1, CallStays
<1> QED
  BY <1>2, <1>3 DEF Expire

LEMMA SwitchPromised ==
  ASSUME PipeInv, Switch
  PROVE  [Promise!Next]_(Promise!vars)
<1>1. /\ UNCHANGED <<pipe_max_size, first, last, data, pc, items, ok>>
      /\ pipe_size' = pipe_size \/ (Empty /\ pipe_size' = 0)
  <2>1. CASE Empty
    BY <2>1 DEF Switch, Empty, locals
  <2>2. CASE Disable \/ Enable
    BY <2>2 DEF Switch, Disable, Enable, ring, locals
  <2>3. CASE DisableEnqueue \/ EnableEnqueue
    BY <2>3 DEF Switch, DisableEnqueue, EnableEnqueue, ring, locals
  <2>4. CASE DisableDequeue \/ EnableDequeue
    BY <2>4 DEF Switch, DisableDequeue, EnableDequeue, ring, locals
  <2> QED
    BY <2>1, <2>2, <2>3, <2>4 DEF Switch
<1>2. CallsNow' = CallsNow
  BY <1>1 DEF CallsNow, CallOf
<1>3. pipe_max_size \in Nat
  BY SlotsAre DEF PipeInv
<1>4. CASE pipe_size' = pipe_size \/ pipe_max_size = 0
  <2>1. Stored' = Stored
    BY <1>1, <1>4 DEF Stored
  <2> QED
    BY <1>1, <1>2, <2>1, NothingHappens
<1>5. CASE pipe_size' = 0 /\ pipe_max_size > 0
  <2>1. Stored' = <<>>
    BY <1>1, <1>5 DEF Stored
  <2>2. Promise!Empty
    BY <1>2, <1>5, <2>1 DEF Promise!Empty, CallsNow
  <2> QED
    BY <1>1, <2>2 DEF Promise!Next
<1> QED
  BY <1>1, <1>3, <1>4, <1>5

LEMMA NextPromised == PipeInv /\ PipeInv' /\ [Next]_vars => [Promise!Next]_(Promise!vars)
<1> SUFFICES ASSUME PipeInv, PipeInv', [Next]_vars PROVE [Promise!Next]_(Promise!vars)
  OBVIOUS
<1>1. CASE Switch
  BY <1>1, SwitchPromised
<1>2. ASSUME NEW t \in Threads, Proceed(t)
      PROVE  [Promise!Next]_(Promise!vars)
  <2>1. pipe_max_size' = pipe_max_size
    BY <1>2 DEF Proceed
  <2>2. CASE Enqueue(t) \/ EnqueueOrTimeout(t)
    BY <2>1, <2>2, EnqueueSteps, EnqueuePromised
  <2>3. CASE Handoff(t)
    BY <2>1, <2>3, HandoffPromised
  <2>4. CASE Dequeue(t) \/ DequeueOrTimeout(t)
    BY <2>1, <2>4, DequeueSteps, DequeuePromised
  <2>5. CASE \/ WaitUntilEmpty(t) \/ WaitForNumBlockedDequeues(t)
             \/ Destroy(t) \/ DestroyWakes(t)
    BY <2>1, <2>5, OthersPromised
  <2> QED
    BY <1>2, <2>2, <2>3, <2>4, <2>5 DEF Proceed
<1>3. ASSUME NEW t \in Threads, Expire(t)
      PROVE  UNCHANGED Promise!vars
  BY <1>3, ExpirePromised
<1>4. CASE UNCHANGED vars
  <2>1. Stored' = Stored /\ CallsNow' = CallsNow /\ UNCHANGED pipe_max_size
    BY <1>4 DEF vars, ring, locals, Stored, CallsNow, CallOf
  <2> QED
    BY <2>1, NothingHappens
<1> QED
  BY <1>1, <1>2, <1>3, <1>4 DEF Next

\* The pipe is a first-in-first-out buffer or, without capacity, a direct
\* hand-over: every item that is passed is taken exactly once and in order, and
\* each caller is told what became of its item (enqueue(), dequeue()).
THEOREM PipeIsAChannel == Spec => ImplementsChannel
<1>1. Init => Promise!Init
  BY InitPromised
<1>2. PipeInv /\ PipeInv' /\ [Next]_vars => [Promise!Next]_(Promise!vars)
  BY NextPromised
<1> QED
  BY <1>1, <1>2, PipeInvariant, PTL DEF Spec, ImplementsChannel, Promise!Spec
=============================================================================
