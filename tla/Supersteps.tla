----------------------------- MODULE Supersteps -----------------------------
(***************************************************************************)
(* What dlib::bsp_context promises to the programs of a job (the comments  *)
(* of bsp/bsp_abstract.h): a node that calls a receive function either     *)
(* gets the next message of some sender, in the order they were sent, or   *)
(* is told that there will be none; the latter only once every node waits  *)
(* or has terminated with no message in transit, and then all that wait    *)
(* are told, before any of them can get a message sent afterwards.         *)
(***************************************************************************)
EXTENDS Integers

CONSTANT Nodes

VARIABLES
  state,     \* of each node's program
  transit    \* for each pair of nodes, the numbers of the messages sent and not
             \* yet received: what is sent later has a greater number

Links == {l \in Nodes \X Nodes : l[1] # l[2]}

Init ==
  /\ state = [i \in Nodes |-> "computing"]
  /\ transit = [l \in Links |-> {}]

Becomes(i, s) == state' = [state EXCEPT ![i] = s]

\* The oldest message of a pair of nodes leaves.
Takes(l) ==
  \E n \in transit[l] :
    /\ \A m \in transit[l] : n <= m
    /\ transit' = [transit EXCEPT ![l] = @ \ {n}]

Send(l) ==
  /\ state[l[1]] = "computing"
  /\ \E n \in transit'[l] :
       /\ \A m \in transit[l] : m < n
       /\ transit' = [transit EXCEPT ![l] = @ \cup {n}]
  /\ UNCHANGED state

Wait(i) == state[i] = "computing" /\ Becomes(i, "waiting") /\ UNCHANGED transit

Receive(l) == state[l[2]] = "waiting" /\ Takes(l) /\ Becomes(l[2], "computing")

\* The end of a superstep; who waits may notice it at once or later.
Release ==
  /\ \A i \in Nodes : state[i] \in {"waiting", "done"}
  /\ \A l \in Links : transit[l] = {}
  /\ state' \in [Nodes -> {"computing", "released", "done"}]
  /\ \A i \in Nodes : state[i] = "done" <=> state'[i] = "done"
  /\ UNCHANGED transit

Notice(i) == state[i] = "released" /\ Becomes(i, "computing") /\ UNCHANGED transit

\* A node that is left alone is told so, even if others died with messages.
LeftAlone(i) ==
  /\ state[i] = "waiting"
  /\ \A j \in Nodes \ {i} : state[j] = "done" /\ transit[<<j, i>>] = {}
  /\ Becomes(i, "computing")
  /\ UNCHANGED transit

\* A program ends, by returning or by an exception.
End(i) == Becomes(i, "done") /\ UNCHANGED transit

\* A message for a program that has ended.
Lose(l) == state[l[2]] = "done" /\ Takes(l) /\ UNCHANGED state

Next ==
  \/ \E i \in Nodes : Wait(i) \/ Notice(i) \/ LeftAlone(i) \/ End(i)
  \/ \E l \in Links : Send(l) \/ Receive(l) \/ Lose(l)
  \/ Release

Spec == Init /\ [][Next]_<<state, transit>>
=============================================================================
