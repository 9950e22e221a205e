--------------------------------- MODULE Pipe ---------------------------------
(***************************************************************************)
(* dlib::pipe<T> (pipe/pipe_kernel_1.h): a bounded buffer shared by any    *)
(* number of threads, with timed calls, enabling and disabling, and a      *)
(* destructor that waits for the calls inside the object.                  *)
(*                                                                         *)
(* Every member function holds the mutex m except while it sleeps on a     *)
(* signaler, so an action is what happens from getting m to giving it up,  *)
(* by returning or by waiting.  The signalers are the sets of threads that *)
(* sleep on them.  A thread whose pc names a call and that is in no such   *)
(* set has been woken, or its timeout has passed ("late"), and it competes *)
(* for m again.  items[t] is the caller's variable `item`, which enqueue() *)
(* and dequeue() exchange with a slot of data.                             *)
(***************************************************************************)
EXTENDS Integers, Sequences, FiniteSets

CONSTANTS
  Threads,
  None,          \* a T without interesting content
  Capacities,    \* arguments of the constructor
  ItemsOf,       \* the items that go through a pipe of each capacity
  Target,        \* the argument of wait_for_num_blocked_dequeues()
  CallsOf        \* which optional calls the clients of a pipe of each capacity make

OptionalCalls == {"disable", "disable_enqueue", "disable_dequeue", "empty", "timeout",
                  "wait_until_empty", "wait_for_num_blocked_dequeues", "destroy"}

Items == UNION {ItemsOf[n] : n \in Capacities}

ASSUME PipeAssumption ==
  /\ IsFiniteSet(Threads) /\ IsFiniteSet(Items) /\ None \notin Items
  /\ Capacities \subseteq Nat
  /\ Target \in Nat
  /\ CallsOf \in [Capacities -> SUBSET OptionalCalls]

VARIABLES
  pipe_max_size,
  pipe_size, first, last, data,
  enabled, enqueue_enabled, dequeue_enabled,
  dequeue_waiters, enqueue_waiters, unblock_sig_waiters,
  dequeue_sig, enqueue_sig, unblock_sig,   \* who sleeps on each signaler
  pc, items,
  ok,            \* what each thread's last call returned
  life           \* "alive", "destroying" or "destroyed"

ring  == <<pipe_size, first, last, data>>
flags == <<enabled, enqueue_enabled, dequeue_enabled>>
counts == <<dequeue_waiters, enqueue_waiters, unblock_sig_waiters>>
sigs  == <<dequeue_sig, enqueue_sig, unblock_sig>>
locals == <<pc, items, ok>>
vars  == <<pipe_max_size, ring, flags, counts, sigs, locals, life>>

Calls == CallsOf[pipe_max_size]

Slots == 0..(IF pipe_max_size > 0 THEN pipe_max_size - 1 ELSE 0)

Init ==
  /\ pipe_max_size \in Capacities
  /\ pipe_size = 0 /\ first = 1 /\ last = 1
  /\ data = [i \in Slots |-> None]
  /\ enabled = TRUE /\ enqueue_enabled = TRUE /\ dequeue_enabled = TRUE
  /\ dequeue_waiters = 0 /\ enqueue_waiters = 0 /\ unblock_sig_waiters = 0
  /\ dequeue_sig = {} /\ enqueue_sig = {} /\ unblock_sig = {}
  /\ pc = [t \in Threads |-> "idle"]
  /\ items = [t \in Threads |-> None]
  /\ ok = [t \in Threads |-> TRUE]
  /\ life = "alive"

-----------------------------------------------------------------------------
(* Helpers *)

CanEnqueue == enabled /\ enqueue_enabled
CanDequeueMutant == dequeue_enabled   \* mutant: disable() forgotten
CanDequeue == enabled /\ dequeue_enabled

\* The items in the pipe, oldest first.
Stored ==
  IF pipe_max_size = 0
  THEN IF first = 0 /\ last = 0 THEN <<data[0]>> ELSE <<>>
  ELSE [i \in 1..pipe_size |-> data[(first + i - 1) % pipe_max_size]]

\* Items a client may pass next: those that are nowhere in the system.
Fresh == {v \in ItemsOf[pipe_max_size] : /\ \A t \in Threads : items[t] # v
                        /\ \A i \in DOMAIN Stored : Stored[i] # v}

Free(t) == pc[t] = "idle" /\ life = "alive"
Woken(t, where, sig) == pc[t] = where /\ t \notin sig

BroadcastIf(cond, sig) == IF cond THEN {} ELSE sig

\* The place behind slot i in the ring.
NextSlotMutant(i) == i   \* mutant: not advanced
NextSlot(i) == (i + 1) % pipe_max_size

\* A thread leaves a call, and with it the counter of the waiters.
LeavesMutant(n) == IF ~enabled THEN n ELSE n - 1   \* mutant: early return not counted
Leaves(n) == n - 1

\* signal() wakes one of the sleepers, if there is any.
Signal(sig) == IF sig = {} THEN {{}} ELSE {sig \ {t} : t \in sig}

At(t, where, v) == pc' = [pc EXCEPT ![t] = where] /\ items' = [items EXCEPT ![t] = v]

Stay(t, where, v) == At(t, where, v) /\ ok' = [ok EXCEPT ![t] = TRUE]
Return(t, result, v) == At(t, "idle", v) /\ ok' = [ok EXCEPT ![t] = result]

-----------------------------------------------------------------------------
(* enqueue() and enqueue_or_timeout() *)

EnqueueBlocksMutant(timed) ==   \* mutant: off by one
  /\ pipe_size > pipe_max_size
  /\ CanEnqueue
  /\ ~(pipe_max_size = 0 /\ (timed => dequeue_waiters > 0) /\ first = 1)
EnqueueBlocks(timed) ==
  /\ pipe_size = pipe_max_size
  /\ CanEnqueue
  /\ ~(pipe_max_size = 0 /\ (timed => dequeue_waiters > 0) /\ first = 1)

WakesDequeuerMutant == dequeue_waiters > 1   \* mutant: off by one
WakesDequeuer == dequeue_waiters > 0

\* Both functions from the test of their first loop on, v being the item: ew is
\* enqueue_waiters with the caller in it, expired says that a timed wait has just
\* run out.  The caller sleeps until there is room.
EnqueueSleeps(t, v, timed, ew) ==
  /\ EnqueueBlocks(timed)
  /\ Stay(t, IF timed THEN "enqueue_or_timeout" ELSE "enqueue", v)
  /\ enqueue_sig' = enqueue_sig \cup {t}
  /\ enqueue_waiters' = ew
  /\ UNCHANGED <<ring, dequeue_sig, unblock_sig>>

\* Disabled or out of time.
EnqueueReturnsFalse(t, v, ew) ==
  /\ Return(t, FALSE, v)
  /\ unblock_sig' = {}
  /\ enqueue_waiters' = Leaves(ew)
  /\ UNCHANGED <<ring, dequeue_sig, enqueue_sig>>

\* The item is exchanged with the slot behind the last one; without capacity
\* the caller then waits for it to be taken.
EnqueueStores(t, v, timed, ew) ==
  LET slot == IF pipe_size = 0 THEN 0 ELSE NextSlot(last) IN
  /\ ~EnqueueBlocks(timed)
  /\ first' = IF pipe_size = 0 THEN 0 ELSE first
  /\ last' = slot
  /\ data' = [data EXCEPT ![slot] = v]
  /\ dequeue_sig' \in IF WakesDequeuer THEN Signal(dequeue_sig) ELSE {dequeue_sig}
  /\ UNCHANGED unblock_sig
  /\ \/ /\ pipe_max_size > 0
        /\ pipe_size' = pipe_size + 1
        /\ Return(t, TRUE, None)   \* the caller drops what the slot held
        /\ enqueue_waiters' = Leaves(ew)
        /\ UNCHANGED enqueue_sig
     \/ /\ pipe_max_size = 0
        /\ Stay(t, IF timed THEN "handoff_timed" ELSE "handoff", data[slot])
        /\ enqueue_sig' = enqueue_sig \cup {t}
        /\ enqueue_waiters' = ew
        /\ UNCHANGED pipe_size

EnqueueFrom(t, v, timed, expired, ew) ==
  \/ ~expired /\ EnqueueSleeps(t, v, timed, ew)
  \/ (expired \/ ~CanEnqueue) /\ EnqueueReturnsFalse(t, v, ew)
  \/ ~expired /\ CanEnqueue /\ EnqueueStores(t, v, timed, ew)

Enqueue(t) ==
  /\ \/ \E v \in Fresh : Free(t) /\ EnqueueFrom(t, v, FALSE, FALSE, enqueue_waiters + 1)
     \/ Woken(t, "enqueue", enqueue_sig)
        /\ EnqueueFrom(t, items[t], FALSE, FALSE, enqueue_waiters)
  /\ UNCHANGED <<flags, dequeue_waiters, unblock_sig_waiters, life>>

EnqueueOrTimeout(t) ==
  /\ \/ \E v \in Fresh :
          /\ Free(t) /\ "timeout" \in Calls
          /\ \/ EnqueueFrom(t, v, TRUE, FALSE, enqueue_waiters + 1)
             \/ /\ EnqueueBlocks(TRUE)     \* timeout == 0
                /\ EnqueueFrom(t, v, TRUE, TRUE, enqueue_waiters + 1)
     \/ Woken(t, "enqueue_or_timeout", enqueue_sig)
        /\ EnqueueFrom(t, items[t], TRUE, FALSE, enqueue_waiters)
     \/ pc[t] = "enqueue_late" /\ EnqueueFrom(t, items[t], TRUE, TRUE, enqueue_waiters)
  /\ UNCHANGED <<flags, dequeue_waiters, unblock_sig_waiters, life>>

\* wait_or_timeout() returns false: the thread no longer takes signals.
EnqueueExpires(t) ==
  /\ pc[t] = "enqueue_or_timeout" /\ t \in enqueue_sig
  /\ pc' = [pc EXCEPT ![t] = "enqueue_late"]
  /\ enqueue_sig' = enqueue_sig \ {t}
  /\ UNCHANGED <<ring, flags, counts, dequeue_sig, unblock_sig, items, ok, life>>

\* Without capacity the enqueuing thread waits for its item to be taken.
HandoffSleeps(t) ==
  /\ last = 0 /\ CanEnqueue
  /\ enqueue_sig' = enqueue_sig \cup {t}
  /\ UNCHANGED <<ring, locals, enqueue_waiters, unblock_sig>>

\* Disabled: nobody took the item, and the caller has it back.
HandoffWithdraws(t) ==
  /\ last = 0 /\ ~CanEnqueue
  /\ first' = 1 /\ last' = 1
  /\ data' = [data EXCEPT ![0] = items[t]]
  /\ Return(t, FALSE, data[0])
  /\ enqueue_waiters' = Leaves(enqueue_waiters)
  /\ unblock_sig' = BroadcastIf(unblock_sig_waiters > 0, unblock_sig)
  /\ UNCHANGED <<pipe_size, enqueue_sig>>

HandoffEnds(t) ==
  /\ last # 0
  /\ first' = 1 /\ last' = 1
  /\ Return(t, TRUE, None)
  /\ enqueue_sig' = BroadcastIf(enqueue_waiters > 1, enqueue_sig)
  /\ unblock_sig' = BroadcastIf(~enabled /\ unblock_sig_waiters > 0, unblock_sig)
  /\ enqueue_waiters' = Leaves(enqueue_waiters)
  /\ UNCHANGED <<pipe_size, data>>

Handoff(t) ==
  /\ Woken(t, "handoff", enqueue_sig) \/ Woken(t, "handoff_timed", enqueue_sig)
  /\ HandoffSleeps(t) \/ HandoffWithdraws(t) \/ HandoffEnds(t)
  /\ UNCHANGED <<flags, dequeue_waiters, unblock_sig_waiters, dequeue_sig, life>>

-----------------------------------------------------------------------------
(* dequeue() and dequeue_or_timeout() *)

DequeueBlocksMutant ==   \* mutant: does not see that the item is taken
  pipe_size = 0 /\ CanDequeue /\ ~(pipe_max_size = 0 /\ first = 0)
DequeueBlocks ==
  /\ pipe_size = 0
  /\ CanDequeue
  /\ ~(pipe_max_size = 0 /\ first = 0 /\ last = 0)

\* Both functions from the test of their loop on; dw is dequeue_waiters with
\* the caller in it, es and us are who sleeps on enqueue_sig and unblock_sig.
DequeueSleeps(t, timed, dw, es, us) ==
  /\ DequeueBlocks
  /\ Stay(t, IF timed THEN "dequeue_or_timeout" ELSE "dequeue", None)
  /\ dequeue_sig' = dequeue_sig \cup {t}
  /\ enqueue_sig' = es /\ unblock_sig' = us
  /\ dequeue_waiters' = dw
  /\ UNCHANGED ring

DequeueReturnsFalse(t, dw, es) ==
  /\ Return(t, FALSE, None)
  /\ unblock_sig' = {} /\ enqueue_sig' = es
  /\ dequeue_waiters' = Leaves(dw)
  /\ UNCHANGED <<ring, dequeue_sig>>

DequeueTakes(t, dw, es, us) ==
  /\ ~DequeueBlocks
  /\ Return(t, TRUE, data[first])
  /\ data' = [data EXCEPT ![first] = None]
  /\ IF pipe_max_size > 0
     THEN /\ first' = NextSlot(first)
          /\ pipe_size' = pipe_size - 1
          /\ UNCHANGED last
     ELSE /\ last' = 1
          /\ UNCHANGED <<first, pipe_size>>
  /\ enqueue_sig' = BroadcastIf(enqueue_waiters > 0, es)
  /\ unblock_sig' = us
  /\ dequeue_waiters' = Leaves(dw)
  /\ UNCHANGED dequeue_sig

DequeueFrom(t, timed, expired, dw, es, us) ==
  \/ ~expired /\ DequeueSleeps(t, timed, dw, es, us)
  \/ (expired \/ ~CanDequeue) /\ DequeueReturnsFalse(t, dw, es)
  \/ ~expired /\ CanDequeue /\ DequeueTakes(t, dw, es, us)

\* A call that finds the pipe empty tells those who wait for blocked dequeues.
DequeueCall(t, timed, expired) ==
  LET isEmpty == pipe_size = 0 IN
  DequeueFrom(t, timed, expired, dequeue_waiters + 1,
              BroadcastIf(isEmpty /\ enqueue_waiters > 0, enqueue_sig),
              BroadcastIf(isEmpty /\ unblock_sig_waiters > 0, unblock_sig))

Dequeue(t) ==
  /\ \/ Free(t) /\ DequeueCall(t, FALSE, FALSE)
     \/ Woken(t, "dequeue", dequeue_sig)
        /\ DequeueFrom(t, FALSE, FALSE, dequeue_waiters, enqueue_sig, unblock_sig)
  /\ UNCHANGED <<flags, enqueue_waiters, unblock_sig_waiters, life>>

DequeueOrTimeout(t) ==
  /\ \/ /\ Free(t) /\ "timeout" \in Calls
        /\ \/ DequeueCall(t, TRUE, FALSE)
           \/ DequeueBlocks /\ DequeueCall(t, TRUE, TRUE)     \* timeout == 0
     \/ Woken(t, "dequeue_or_timeout", dequeue_sig)
        /\ DequeueFrom(t, TRUE, FALSE, dequeue_waiters, enqueue_sig, unblock_sig)
     \/ pc[t] = "dequeue_late"
        /\ DequeueFrom(t, TRUE, TRUE, dequeue_waiters, enqueue_sig, unblock_sig)
  /\ UNCHANGED <<flags, enqueue_waiters, unblock_sig_waiters, life>>

DequeueExpires(t) ==
  /\ pc[t] = "dequeue_or_timeout" /\ t \in dequeue_sig
  /\ pc' = [pc EXCEPT ![t] = "dequeue_late"]
  /\ dequeue_sig' = dequeue_sig \ {t}
  /\ UNCHANGED <<ring, flags, counts, enqueue_sig, unblock_sig, items, ok, life>>

-----------------------------------------------------------------------------
(* The other calls *)

Empty ==
  /\ "empty" \in Calls /\ life = "alive"
  /\ pipe_size' = 0
  /\ enqueue_sig' = BroadcastIf(enqueue_waiters > 0, enqueue_sig)
  /\ UNCHANGED <<first, last, data, flags, counts, dequeue_sig, unblock_sig, locals, life>>

WaitUntilEmptyFrom(t, ew) ==
  \/ /\ pipe_size > 0 /\ enabled /\ dequeue_enabled
     /\ enqueue_sig' = enqueue_sig \cup {t}
     /\ enqueue_waiters' = ew
     /\ Stay(t, "wait_until_empty", None)
     /\ UNCHANGED unblock_sig
  \/ /\ ~(pipe_size > 0 /\ enabled /\ dequeue_enabled)
     /\ unblock_sig' = BroadcastIf(~enabled, unblock_sig)
     /\ enqueue_waiters' = Leaves(ew)
     /\ Return(t, TRUE, None)
     /\ UNCHANGED enqueue_sig

WaitUntilEmpty(t) ==
  /\ \/ /\ Free(t) /\ "wait_until_empty" \in Calls
        /\ WaitUntilEmptyFrom(t, enqueue_waiters + 1)
     \/ Woken(t, "wait_until_empty", enqueue_sig) /\ WaitUntilEmptyFrom(t, enqueue_waiters)
  /\ UNCHANGED <<ring, flags, dequeue_waiters, unblock_sig_waiters, dequeue_sig, life>>

EnoughBlocked == dequeue_waiters >= Target /\ pipe_size = 0

WaitForNumFrom(t, uw) ==
  \/ /\ ~EnoughBlocked /\ CanDequeue
     /\ unblock_sig' = unblock_sig \cup {t}
     /\ unblock_sig_waiters' = uw
     /\ Stay(t, "wait_for_num", None)
  \/ /\ EnoughBlocked \/ ~CanDequeue
     /\ unblock_sig' = BroadcastIf(~enabled, unblock_sig)
     /\ unblock_sig_waiters' = Leaves(uw)
     /\ Return(t, TRUE, None)

WaitForNumBlockedDequeues(t) ==
  /\ \/ /\ Free(t) /\ "wait_for_num_blocked_dequeues" \in Calls
        /\ WaitForNumFrom(t, unblock_sig_waiters + 1)
     \/ Woken(t, "wait_for_num", unblock_sig) /\ WaitForNumFrom(t, unblock_sig_waiters)
  /\ UNCHANGED <<ring, flags, dequeue_waiters, enqueue_waiters, dequeue_sig, enqueue_sig, life>>

Disable ==
  /\ "disable" \in Calls /\ life = "alive"
  /\ enabled' = FALSE
  /\ dequeue_sig' = {} /\ enqueue_sig' = {} /\ unblock_sig' = {}
  /\ UNCHANGED <<ring, enqueue_enabled, dequeue_enabled, counts, locals, life>>

Enable ==
  /\ life = "alive"
  /\ enabled' = TRUE
  /\ UNCHANGED <<ring, enqueue_enabled, dequeue_enabled, counts, sigs, locals, life>>

DisableEnqueue ==
  /\ "disable_enqueue" \in Calls /\ life = "alive"
  /\ enqueue_enabled' = FALSE
  /\ enqueue_sig' = {}
  /\ UNCHANGED <<ring, enabled, dequeue_enabled, counts, dequeue_sig, unblock_sig, locals, life>>

EnableEnqueue ==
  /\ life = "alive"
  /\ enqueue_enabled' = TRUE
  /\ UNCHANGED <<ring, enabled, dequeue_enabled, counts, sigs, locals, life>>

DisableDequeue ==
  /\ "disable_dequeue" \in Calls /\ life = "alive"
  /\ dequeue_enabled' = FALSE
  /\ dequeue_sig' = {}
  /\ UNCHANGED <<ring, enabled, enqueue_enabled, counts, enqueue_sig, unblock_sig, locals, life>>

EnableDequeue ==
  /\ life = "alive"
  /\ dequeue_enabled' = TRUE
  /\ UNCHANGED <<ring, enabled, enqueue_enabled, counts, sigs, locals, life>>

\* ~pipe(): the calls inside are sent home before the memory goes.  No client
\* begins a call once the destructor has begun.
CallsInside(uw) == dequeue_waiters > 0 \/ enqueue_waiters > 0 \/ uw > 1

DestroyFrom(t, uw) ==
  \/ /\ CallsInside(uw)
     /\ pc' = [pc EXCEPT ![t] = "destructor"]
     /\ unblock_sig_waiters' = uw
     /\ life' = "destroying"
  \/ /\ ~CallsInside(uw)
     /\ pc' = [pc EXCEPT ![t] = "idle"]
     /\ unblock_sig_waiters' = Leaves(uw)
     /\ life' = "destroyed"

Destroy(t) ==
  /\ Free(t) /\ "destroy" \in Calls
  /\ enabled' = FALSE
  /\ dequeue_sig' = {} /\ enqueue_sig' = {}
  /\ DestroyFrom(t, unblock_sig_waiters + 1)
  /\ unblock_sig' = IF life' = "destroying" THEN {t} ELSE {}
  /\ items' = [items EXCEPT ![t] = None]
  /\ ok' = [ok EXCEPT ![t] = TRUE]
  /\ UNCHANGED <<ring, enqueue_enabled, dequeue_enabled, dequeue_waiters, enqueue_waiters>>

DestroyWakes(t) ==
  /\ Woken(t, "destructor", unblock_sig)
  /\ DestroyFrom(t, unblock_sig_waiters)
  /\ unblock_sig' = IF life' = "destroying" THEN unblock_sig \cup {t} ELSE unblock_sig
  /\ UNCHANGED <<ring, flags, dequeue_waiters, enqueue_waiters, dequeue_sig, enqueue_sig, items, ok>>

Proceed(t) ==
  /\ \/ Enqueue(t) \/ EnqueueOrTimeout(t) \/ Handoff(t)
     \/ Dequeue(t) \/ DequeueOrTimeout(t)
     \/ WaitUntilEmpty(t) \/ WaitForNumBlockedDequeues(t)
     \/ Destroy(t) \/ DestroyWakes(t)
  /\ UNCHANGED pipe_max_size

Expire(t) == (EnqueueExpires(t) \/ DequeueExpires(t)) /\ UNCHANGED pipe_max_size

Switch ==
  /\ \/ Empty \/ Disable \/ Enable \/ DisableEnqueue \/ EnableEnqueue
     \/ DisableDequeue \/ EnableDequeue
  /\ UNCHANGED pipe_max_size

Next == Switch \/ \E t \in Threads : Proceed(t) \/ Expire(t)

\* Woken threads get the mutex, and timed sleeps end; nobody has to call.
Fairness ==
  \A t \in Threads :
    /\ WF_vars(pc[t] # "idle" /\ Proceed(t))
    /\ WF_vars(Expire(t))

Spec == Init /\ [][Next]_vars
FairSpec == Spec /\ Fairness

-----------------------------------------------------------------------------
(* Properties *)

InEnqueue == {"enqueue", "enqueue_or_timeout", "enqueue_late"}
InHandoff == {"handoff", "handoff_timed"}
InDequeue == {"dequeue", "dequeue_or_timeout", "dequeue_late"}

Inside(where) == {t \in Threads : pc[t] \in where}

WaitersCounted ==
  /\ dequeue_waiters = Cardinality(Inside(InDequeue))
  /\ enqueue_waiters = Cardinality(Inside(InEnqueue \cup InHandoff \cup {"wait_until_empty"}))
  /\ unblock_sig_waiters = Cardinality(Inside({"wait_for_num", "destructor"}))

\* The three counters, from which every decision to signal is taken and for
\* which the destructor waits, count exactly the threads inside the calls.
\* enqueue() and dequeue() signal one thread per item and woken threads may be
\* overtaken, yet no dequeuer sleeps unless each stored item has another one
\* awake to take it, and no enqueuer sleeps beside room it could use.
NoLostWakeup ==
  LET awake == Inside({"dequeue", "dequeue_or_timeout"}) \ dequeue_sig IN
  /\ WaitersCounted
  /\ dequeue_sig # {} => /\ CanDequeue
                         /\ Len(Stored) <= Cardinality(awake)
  /\ \A t \in enqueue_sig :
       /\ pc[t] \in InEnqueue =>
            /\ CanEnqueue
            /\ pipe_size = pipe_max_size
            /\ pipe_max_size = 0 /\ first = 1 =>
                 pc[t] = "enqueue_or_timeout" /\ dequeue_waiters = 0
       /\ pc[t] \in InHandoff => CanEnqueue
       /\ pc[t] = "wait_until_empty" => pipe_size > 0 /\ enabled

\* With capacity zero at most one thread has an item on offer, and the slot is
\* reserved for it until it has learnt the outcome.
OneHandoff ==
  /\ Cardinality(Inside(InHandoff)) <= 1
  /\ pipe_max_size = 0 => (first = 0 <=> Inside(InHandoff) # {})

\* disable() and destruction send every caller home, and the destructor ends; it
\* frees the memory only when no thread is inside a call any more.
CallsEnd ==
  /\ [](life = "destroyed" => Inside({"idle"}) = Threads)
  /\ (life = "destroying") ~> (life = "destroyed")
  /\ \A t \in Threads : (pc[t] # "idle" /\ ~enabled) ~> (pc[t] = "idle" \/ enabled)

\* A dequeuer and an item do not stay in the pipe together: as long as nothing
\* is disabled somebody takes an item.
ItemsAreTaken ==
  (Stored # <<>> /\ Inside({"dequeue"}) # {} /\ CanDequeue)
    ~> (~CanDequeue \/ Stored = <<>> \/ Inside({"dequeue"}) = {})

-----------------------------------------------------------------------------
(* Pipe implements Channel *)

CallOf(t) ==
  [st |-> CASE pc[t] \in InEnqueue -> "enqueue"
            [] pc[t] \in InHandoff -> IF last = 0 THEN "offered" ELSE "taken"
            [] pc[t] \in InDequeue -> "dequeue"
            [] OTHER -> "idle",
   item |-> items[t],
   ok |-> ok[t]]

Promise == INSTANCE Channel WITH
  Capacity <- pipe_max_size,
  queue <- Stored,
  call <- [t \in Threads |-> CallOf(t)]

\* First in first out, exactly once, and the outcome each caller is told.
ImplementsChannel == Promise!Spec
=============================================================================
