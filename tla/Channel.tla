------------------------------- MODULE Channel -------------------------------
(***************************************************************************)
(* What dlib::pipe promises its callers (pipe/pipe_kernel_abstract.h): a   *)
(* first-in-first-out buffer of Capacity items or, with Capacity zero, a   *)
(* direct hand-over from one enqueuing thread to one dequeuing thread.     *)
(* There is no locking, signalling or ring buffer here.                    *)
(*                                                                         *)
(* call[t] is what thread t knows: the call it is in or the outcome of its *)
(* last call, and the value of the item it passed, where that is defined.  *)
(***************************************************************************)
EXTENDS Integers, Sequences

CONSTANTS Threads, Items, None

VARIABLES queue, call, Capacity

vars == <<queue, call, Capacity>>

States == {"idle", "enqueue", "offered", "taken", "dequeue"}
Room == IF Capacity = 0 THEN 1 ELSE Capacity

Becomes(t, st, item, ok) ==
  call' = [call EXCEPT ![t] = [st |-> st, item |-> item, ok |-> ok]]

Init ==
  /\ Capacity \in Nat
  /\ queue = <<>>
  /\ call = [t \in Threads |-> [st |-> "idle", item |-> None, ok |-> TRUE]]

\* t is in, or may begin, a call to enqueue() with item v.
Offers(t, v) == call[t].st = "idle" \/ (call[t].st = "enqueue" /\ call[t].item = v)
Asks(t) == call[t].st \in {"idle", "dequeue"}

BlockEnqueue(t, v) ==
  /\ call[t].st = "idle"
  /\ Becomes(t, "enqueue", v, TRUE)
  /\ UNCHANGED queue

BlockDequeue(t) ==
  /\ call[t].st = "idle"
  /\ Becomes(t, "dequeue", None, TRUE)
  /\ UNCHANGED queue

\* The item goes in; without capacity the call goes on until it is taken.
Enqueue(t, v) ==
  /\ Offers(t, v)
  /\ Len(queue) < Room
  /\ queue' = Append(queue, v)
  /\ IF Capacity = 0 THEN Becomes(t, "offered", None, TRUE) ELSE Becomes(t, "idle", None, TRUE)

\* The oldest item goes to the caller, and to nobody else.
Dequeue(t) ==
  /\ Asks(t)
  /\ queue # <<>>
  /\ queue' = Tail(queue)
  /\ call' = [u \in Threads |->
       IF u = t THEN [st |-> "idle", item |-> Head(queue), ok |-> TRUE]
       ELSE IF call[u].st = "offered" THEN [call[u] EXCEPT !.st = "taken"]
       ELSE call[u]]

\* enqueue() returns true on a pipe without capacity: its item was taken.
HandedOver(t) ==
  /\ call[t].st = "taken"
  /\ Becomes(t, "idle", None, TRUE)
  /\ UNCHANGED queue

\* enqueue() returns false after having offered its item: it has it back.
Withdraw(t) ==
  /\ call[t].st = "offered"
  /\ Becomes(t, "idle", Head(queue), FALSE)
  /\ queue' = <<>>

\* The other calls that return false leave the pipe and the item alone.
EnqueueFails(t, v) ==
  /\ Offers(t, v)
  /\ Becomes(t, "idle", v, FALSE)
  /\ UNCHANGED queue

DequeueFails(t) ==
  /\ Asks(t)
  /\ Becomes(t, "idle", None, FALSE)
  /\ UNCHANGED queue

\* A call that moves no item (wait_until_empty() and the like).
OtherCall(t) ==
  /\ call[t].st = "idle"
  /\ Becomes(t, "idle", None, TRUE)
  /\ UNCHANGED queue

\* empty() discards what a pipe with capacity holds.
Empty ==
  /\ Capacity > 0
  /\ queue' = <<>>
  /\ UNCHANGED call

Step(t) ==
  \/ BlockDequeue(t) \/ Dequeue(t) \/ DequeueFails(t)
  \/ HandedOver(t) \/ Withdraw(t) \/ OtherCall(t)
  \/ \E v \in Items : BlockEnqueue(t, v) \/ Enqueue(t, v) \/ EnqueueFails(t, v)

Next ==
  /\ Empty \/ \E t \in Threads : Step(t)
  /\ UNCHANGED Capacity

Spec == Init /\ [][Next]_vars
=============================================================================
