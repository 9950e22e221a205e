--------------------------------- MODULE Bsp ---------------------------------
(***************************************************************************)
(* dlib::bsp_context (bsp/bsp.h, bsp.cpp): N processing nodes that send    *)
(* each other messages over one stream per pair.  The receive functions    *)
(* contain a barrier: the control node 0 counts, from notices the others   *)
(* send it, the messages outstanding and the nodes that wait, and tells    *)
(* everybody when no message can come any more.                            *)
(*                                                                         *)
(* A stream is a sequence.  A read thread per stream moves its messages    *)
(* into the node's msg_buffer, at its own pace, so all that a node writes  *)
(* between two of its reads is one action.  Each node runs any program     *)
(* that sends along Routes, receives and ends.                             *)
(***************************************************************************)
EXTENDS Integers, Sequences, FiniteSets

CONSTANTS
  N,             \* number_of_nodes()
  Routes,        \* the pairs <<from, to>> along which programs send
  Crashing,      \* the nodes whose program may throw, or whose process may die
  MaxMessages,   \* bound: messages sent in all
  MaxEpoch       \* bound: no receive is called in a later epoch

Nodes == 0..N-1
Workers == Nodes \ {0}
Links == {l \in Nodes \X Nodes : l[1] # l[2]}

ASSUME BspAssumption ==
  /\ N \in Nat \ {0, 1}
  /\ Routes \subseteq Links /\ Crashing \subseteq Nodes
  /\ MaxMessages \in Nat /\ MaxEpoch \in Nat

VARIABLES
  outstanding_messages, num_waiting_nodes,   \* of node 0: the others do not use them
  terminated,      \* the nodes each node knows to have terminated
  current_epoch,
  stream, msg_buffer,
  pc,
  sent,            \* history: how many messages the programs sent
  written          \* history: how many messages, of all types, were written on each link

counters == <<outstanding_messages, num_waiting_nodes>>
vars == <<counters, terminated, current_epoch, stream, msg_buffer, pc, sent, written>>

Init ==
  /\ outstanding_messages = 0 /\ num_waiting_nodes = 0
  /\ terminated = [i \in Nodes |-> {}]
  /\ current_epoch = [i \in Nodes |-> 1]
  /\ stream = [l \in Links |-> <<>>]
  /\ msg_buffer = [i \in Nodes |-> <<>>]
  /\ pc = [i \in Nodes |-> "running"]
  /\ sent = 0
  /\ written = [l \in Links |-> 0]

-----------------------------------------------------------------------------
(* Messages *)

Types == {"MESSAGE_HEADER", "GOT_MESSAGE", "SENT_MESSAGE", "IN_WAITING_STATE",
          "NODE_TERMINATE", "SEE_ALL_IN_WAITING_STATE", "READ_ERROR"}

\* Only content has an epoch; receiver_id and num tell the messages apart.
Message(l, type, e, n) ==
  [msg_type |-> type, sender_id |-> l[1], receiver_id |-> l[2], epoch |-> e, num |-> n]

\* The streams s once a message was written on each link of L; w counts what
\* was written before.
Written(s, w, L, type, e) ==
  [l \in Links |-> IF l \in L THEN Append(s[l], Message(l, type, e, w[l] + 1)) ELSE s[l]]
Counted(w, L) == [l \in Links |-> IF l \in L THEN w[l] + 1 ELSE w[l]]

\* A control message goes out on each link of L.
Writes(L, type) ==
  /\ stream' = Written(stream, written, L, type, 0)
  /\ written' = Counted(written, L)

Outgoing(i, targets) == {l \in Links : l[1] = i /\ l[2] \in targets}

\* Where a worker's notices go; the control node counts its own.
ToControl(i) == Outgoing(i, {0})

\* The queue serves smaller epochs first, and otherwise in order of arrival:
\* n entries stay ahead of the message.
Ahead(q, m, n) == \A k \in DOMAIN q : k <= n <=> q[k].epoch <= m.epoch
Pushed(q, m, n) ==
  [k \in 1..Len(q)+1 |-> IF k <= n THEN q[k] ELSE IF k = n + 1 THEN m ELSE q[k - 1]]

Ended(i) == pc[i] \in {"closed", "failed", "refused"}

\* A read thread takes one message from its stream.
read_thread(l) ==
  /\ stream[l] # <<>> /\ ~Ended(l[2])
  /\ stream' = [stream EXCEPT ![l] = Tail(@)]
  /\ \E n \in 0..Len(msg_buffer[l[2]]) :
       /\ Ahead(msg_buffer[l[2]], Head(stream[l]), n)
       /\ msg_buffer' = [msg_buffer EXCEPT ![l[2]] = Pushed(@, Head(stream[l]), n)]
  /\ UNCHANGED <<counters, terminated, current_epoch, pc, sent, written>>

-----------------------------------------------------------------------------
(* The program of a node and what it calls *)

Goes(i, where) == pc' = [pc EXCEPT ![i] = where]

\* The streams break; those whose other end was told before are not read on.
BrokenByMutant(i) == {}   \* mutant: the read threads report no error
BrokenBy(i) == IF i # 0 /\ pc[i] = "closing" THEN {} ELSE Outgoing(i, Nodes)

\* The content goes out before the notice to the control node.
send_data(l) ==
  /\ pc[l[1]] = "running" /\ l \in Routes
  /\ l[2] \notin terminated[l[1]]     \* otherwise the program gets an exception
  /\ sent < MaxMessages
  /\ LET s == Written(stream, written, {l}, "MESSAGE_HEADER", current_epoch[l[1]])
         w == Counted(written, {l})
     IN  /\ stream' = Written(s, w, ToControl(l[1]), "SENT_MESSAGE", 0)
         /\ written' = Counted(w, ToControl(l[1]))
  /\ outstanding_messages' = outstanding_messages + IF l[1] = 0 THEN 1 ELSE 0
  /\ sent' = sent + 1
  /\ UNCHANGED <<num_waiting_nodes, terminated, current_epoch, msg_buffer, pc>>

\* The program calls one of the receive functions.
EnterReceive(i) ==
  /\ pc[i] = "running" /\ current_epoch[i] <= MaxEpoch
  /\ Goes(i, "receive_data")
  /\ Writes(ToControl(i), "IN_WAITING_STATE")
  /\ UNCHANGED <<counters, terminated, current_epoch, msg_buffer, sent>>

\* The program returns.
EnterClose(i) ==
  /\ pc[i] = "running"
  /\ Goes(i, "closing")
  /\ Writes(IF i = 0 THEN {} ELSE Outgoing(i, Nodes), "NODE_TERMINATE")
  /\ UNCHANGED <<counters, terminated, current_epoch, msg_buffer, sent>>

\* The program throws, its process dies, or it writes to the stream of a node
\* that did: every other node that still reads its stream gets an exception.
Crash(i) ==
  /\ pc[i] = "running"
  /\ i \in Crashing \/ \E j \in Nodes : pc[j] \in {"failed", "refused"}
  /\ Goes(i, "failed")
  /\ Writes(BrokenBy(i), "READ_ERROR")
  /\ UNCHANGED <<counters, terminated, current_epoch, msg_buffer, sent>>

-----------------------------------------------------------------------------
(* receive_data() and close_all_connections_gracefully() *)

AllTerminated(i) == terminated[i] = Nodes \ {i}
Abandoned(i) == AllTerminated(i) /\ msg_buffer[i] = <<>>

\* Nobody is left to send a message.
ReceiveAlone(i) ==
  /\ pc[i] = "receive_data" /\ Abandoned(i)
  /\ Goes(i, "running")
  /\ UNCHANGED <<counters, terminated, current_epoch, stream, msg_buffer, sent, written>>

AllInWaitingState ==
  /\ outstanding_messages = 0
  /\ num_waiting_nodes + Cardinality(terminated[0]) = N - 1

MayDetect == \/ pc[0] = "receive_data" /\ ~Abandoned(0)
             \/ pc[0] = "closing" /\ ~AllTerminated(0)

\* The waiting nodes are counted anew in each epoch.
AfterEpoch == 0

\* The control node ends the epoch, also while it waits for the others to end.
EndEpoch ==
  /\ MayDetect /\ AllInWaitingState
  /\ num_waiting_nodes' = AfterEpoch
  /\ Writes(Outgoing(0, Workers \ terminated[0]), "SEE_ALL_IN_WAITING_STATE")
  /\ current_epoch' = [current_epoch EXCEPT ![0] = @ + 1]
  /\ pc' = IF pc[0] = "closing" THEN pc ELSE [pc EXCEPT ![0] = "running"]
  /\ UNCHANGED <<outstanding_messages, terminated, msg_buffer, sent>>

\* A receive takes no entry of a later epoch.
WithinMutant(i, m) == TRUE   \* mutant: any entry will do
Within(i, m) == m.epoch <= current_epoch[i]

\* The loop of either function takes the first entry, which has the given type.
Pop(i, type) ==
  /\ msg_buffer[i] # <<>>
  /\ \/ pc[i] = "receive_data" /\ ~Abandoned(i) /\ Within(i, Head(msg_buffer[i]))
     \/ pc[i] = "closing" /\ ~AllTerminated(i)
  /\ ~(i = 0 /\ AllInWaitingState)
  /\ Head(msg_buffer[i]).msg_type = type
  /\ msg_buffer' = [msg_buffer EXCEPT ![i] = Tail(@)]

\* Mutant: the control node does not count what it receives itself.
GotMutant(i) == 0
Got(i) == IF i = 0 THEN 1 ELSE 0

\* receive_data() returns true.
PopContent(i) ==
  /\ pc[i] = "receive_data" /\ Pop(i, "MESSAGE_HEADER")
  /\ outstanding_messages' = outstanding_messages - Got(i)
  /\ Writes(ToControl(i), "GOT_MESSAGE")
  /\ Goes(i, "running")
  /\ UNCHANGED <<num_waiting_nodes, terminated, current_epoch, sent>>

PopNotice(i) ==
  /\ \/ /\ Pop(i, "IN_WAITING_STATE")
        /\ num_waiting_nodes' = num_waiting_nodes + 1
        /\ UNCHANGED outstanding_messages
     \/ /\ Pop(i, "GOT_MESSAGE")
        /\ num_waiting_nodes' = num_waiting_nodes - 1
        /\ outstanding_messages' = outstanding_messages - 1
     \/ /\ Pop(i, "SENT_MESSAGE")
        /\ outstanding_messages' = outstanding_messages + 1
        /\ UNCHANGED num_waiting_nodes
  /\ UNCHANGED <<terminated, current_epoch, stream, pc, sent, written>>

PopTerminate(i) ==
  /\ Pop(i, "NODE_TERMINATE")
  /\ terminated' = [terminated EXCEPT ![i] = @ \cup {Head(msg_buffer[i]).sender_id}]
  /\ UNCHANGED <<counters, current_epoch, stream, pc, sent, written>>

\* receive_data() returns false; who closes takes no notice.
PopSeeAll(i) ==
  /\ Pop(i, "SEE_ALL_IN_WAITING_STATE")
  /\ IF pc[i] = "closing" THEN UNCHANGED <<current_epoch, pc>>
     ELSE /\ current_epoch' = [current_epoch EXCEPT ![i] = @ + 1]
          /\ Goes(i, "running")
  /\ UNCHANGED <<counters, terminated, stream, sent, written>>

\* An exception: a stream broke, or content comes when it is too late.
PopFatal(i) ==
  /\ \/ Pop(i, "READ_ERROR") /\ Goes(i, "failed")
     \/ pc[i] = "closing" /\ Pop(i, "MESSAGE_HEADER") /\ Goes(i, "refused")
  /\ Writes(BrokenBy(i), "READ_ERROR")
  /\ UNCHANGED <<counters, terminated, current_epoch, sent>>

\* Everybody has terminated; the control node says so last, and throws if
\* messages were not received.
Close(i) ==
  /\ pc[i] = "closing" /\ AllTerminated(i)
  /\ Goes(i, IF i = 0 /\ outstanding_messages # 0 THEN "failed" ELSE "closed")
  /\ Writes(IF i # 0 THEN {} ELSE Outgoing(i, Nodes), "NODE_TERMINATE")
  /\ UNCHANGED <<counters, terminated, current_epoch, msg_buffer, sent>>

Continue(i) ==
  \/ ReceiveAlone(i) \/ (i = 0 /\ EndEpoch)
  \/ PopContent(i) \/ PopNotice(i) \/ PopTerminate(i) \/ PopSeeAll(i) \/ PopFatal(i)
  \/ Close(i)

Next ==
  \/ \E l \in Links : read_thread(l) \/ send_data(l)
  \/ \E i \in Nodes : EnterReceive(i) \/ EnterClose(i) \/ Crash(i) \/ Continue(i)

\* Read threads and nodes go on when they can, and each program comes to its
\* next receive or to its end.
Fairness ==
  /\ \A l \in Links : WF_vars(read_thread(l))
  /\ \A i \in Nodes : WF_vars(Continue(i))
  /\ \A i \in Nodes : WF_vars(EnterReceive(i) \/ EnterClose(i) \/ Crash(i))

Spec == Init /\ [][Next]_vars
FairSpec == Spec /\ Fairness

-----------------------------------------------------------------------------
(* Properties *)

Messages == [msg_type : Types, sender_id : Nodes, receiver_id : Nodes, epoch : Nat, num : Nat]

TypeOK ==
  /\ outstanding_messages \in Int /\ num_waiting_nodes \in Int
  /\ terminated \in [Nodes -> SUBSET Nodes]
  /\ current_epoch \in [Nodes -> Nat]
  /\ stream \in [Links -> Seq(Messages)]
  /\ msg_buffer \in [Nodes -> Seq(Messages)]
  /\ pc \in [Nodes -> {"running", "receive_data", "closing", "closed", "failed", "refused"}]
  /\ sent \in Nat /\ written \in [Links -> Nat]

\* The messages on their way along a link: those that wait in the buffer at
\* its end, and those in the stream.
Entries(q) == {q[k] : k \in DOMAIN q}
Way(l) == {m \in Entries(msg_buffer[l[2]]) : m.sender_id = l[1]} \cup Entries(stream[l])
Of(type, S) == {m \in S : m.msg_type = type}
OnTheWay(type) == Of(type, UNION {Way(l) : l \in Links})
Told(i) == i # 0 /\ Of("SEE_ALL_IN_WAITING_STATE", Way(<<0, i>>)) # {}

\* Until some node dies, the control node's counters and the notices on their
\* way to it agree with the messages on their way and with the nodes that wait.
CountersExact ==
  LET pending(type) == Cardinality(OnTheWay(type)) IN
  /\ TypeOK
  /\ (\A i \in Nodes : pc[i] \notin {"failed", "refused"}) =>
    /\ outstanding_messages + pending("SENT_MESSAGE") - pending("GOT_MESSAGE")
         = pending("MESSAGE_HEADER")
    /\ num_waiting_nodes + pending("IN_WAITING_STATE") - pending("GOT_MESSAGE")
         = Cardinality({i \in Workers : pc[i] = "receive_data" /\ ~Told(i)})

\* What the programs of a job see is what bsp_abstract.h promises.
State(i) ==
  CASE pc[i] = "running" -> "computing"
    [] pc[i] = "receive_data" -> IF Told(i) THEN "released" ELSE "waiting"
    [] OTHER -> "done"
Transit(l) == {m.num : m \in Of("MESSAGE_HEADER", Way(l))}
Abstract == INSTANCE Supersteps WITH
  state <- [i \in Nodes |-> State(i)],
  transit <- [l \in Links |-> Transit(l)]
ImplementsSupersteps == Abstract!Spec

\* No receive hangs for ever, also when nodes die, unless a message came to a
\* node that had terminated, which nobody else is told.
ReceiveReturns ==
  \A i \in Nodes : (pc[i] = "receive_data")
    ~> (pc[i] # "receive_data" \/ \E j \in Nodes : pc[j] = "refused")

\* "The following must have been true for this function to return false: All
\* other nodes were blocked on calls to receive(), try_receive(), or have
\* terminated. There were not any messages in flight" (bsp_abstract.h).
BarrierIsQuiet ==
  [][current_epoch'[0] # current_epoch[0] =>
       /\ \A i \in Workers : State(i) # "computing"
       /\ OnTheWay("MESSAGE_HEADER") = {}]_vars
=============================================================================
