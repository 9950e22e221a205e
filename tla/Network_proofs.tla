---------------------------- MODULE Network_proofs ----------------------------
(***************************************************************************)
(* The safety properties of the two components that use connections.       *)
(*                                                                         *)
(* Bridge, for pipes of any size: the inductive invariant adds that the    *)
(* two flags are raised only while connect_thread() waits, which hands the *)
(* connection to the other threads and back, and what the last entry of    *)
(* the stream of statuses and objects is then.                             *)
(*                                                                         *)
(* Server, for any number of connections and of callers of clear(), and    *)
(* every limit: the inductive invariant adds where a connection can be     *)
(* that the listener has accepted and not yet given away.  What was true   *)
(* when the listener compared thread_count with the limit stays true: in   *)
(* accept() of the number of threads, asleep of thread_count.              *)
(***************************************************************************)
EXTENDS Bridge, Server, FiniteSetTheorems, SequenceTheorems, TLAPS

-----------------------------------------------------------------------------
(* Bridge *)

Parts == {"connect", "receive", "transmit", "destructor"}
Marks == {"on", "off", "item"}

BridgeType ==
  /\ place = [p \in Parts |-> place[p]]
  /\ receive_thread_active \in BOOLEAN /\ transmit_thread_active \in BOOLEAN
  /\ enqueue_enabled \in BOOLEAN
  /\ receive_pipe \in Seq(Marks) /\ seen \in Marks

\* connect_thread() lends the connection while it waits, and only then.
Lent ==
  /\ place["connect"] # "wait" => ~receive_thread_active /\ ~transmit_thread_active
  /\ place["connect"] \in {"connected", "tell", "wait", "untell"} => con # "none"
  /\ Working("receive") => receive_thread_active
  /\ Working("transmit") => transmit_thread_active

Ended == place["destructor"] = "done" => AllEnded

ControlInv == BridgeType /\ Lent /\ Ended

\* The newest entry, also when the user has taken it.
Newest == IF receive_pipe = <<>> THEN seen ELSE receive_pipe[Len(receive_pipe)]

Bracketed ==
  \A i \in 1..Len(receive_pipe) :
    (IF i = 1 THEN seen ELSE receive_pipe[i - 1]) = "off" <=> receive_pipe[i] = "on"

\* As long as statuses go into the pipe the newest one tells whether there is a
\* connection.
NewestTells ==
  "receive" \in pipes /\ enqueue_enabled /\ place["destructor"] # "done" =>
    (Newest = "off" <=> place["connect"] \notin {"wait", "untell"})

BridgeInv == ControlInv /\ NewestTells /\ Bracketed

-----------------------------------------------------------------------------
(* Control *)

LEMMA InitControl == BridgeInit => ControlInv
<1> SUFFICES ASSUME BridgeInit PROVE ControlInv
  OBVIOUS
<1>1. /\ place = [p \in Parts |-> place[p]]
      /\ place["connect"] = "top" /\ place["receive"] = "idle" /\ place["transmit"] = "idle"
      /\ place["destructor"] = "alive"
  BY DEF BridgeInit, Parts
<1>2. BridgeType
  <2>1. receive_pipe \in Seq(Marks) /\ seen \in Marks
    BY DEF BridgeInit, Marks
  <2>2. receive_thread_active \in BOOLEAN /\ transmit_thread_active \in BOOLEAN /\ enqueue_enabled \in BOOLEAN
    BY DEF BridgeInit
  <2> QED
    BY <1>1, <2>1, <2>2 DEF BridgeType
<1>3. Lent /\ Ended
  BY <1>1 DEF BridgeInit, Lent, Ended, Working
<1> QED
  BY <1>2, <1>3 DEF ControlInv

\* The type of what an action writes into receive_pipe.
LEMMA EnqueueTyped ==
  ASSUME BridgeType, NEW x \in Marks, Enqueue(x)
  PROVE  receive_pipe' \in Seq(Marks) /\ seen' \in Marks /\ enqueue_enabled' = enqueue_enabled
<1>1. Append(receive_pipe, x) \in Seq(Marks)
  BY DEF BridgeType
<1> QED
  BY <1>1 DEF Enqueue, BridgeType

\* Steps of connect_thread() that lend no connection and take none back.
LEMMA ConnectControl ==
  ASSUME ControlInv, ConnectTop \/ TryConnect \/ AfterTry \/ PauseEnds
  PROVE  ControlInv'
<1> USE DEF ControlInv, BridgeType, Lent, Ended, AllEnded, Working, Parts, active, receives, Passes
<1>1. CASE ConnectTop
  BY <1>1 DEF ConnectTop
<1>2. CASE TryConnect
  BY <1>2 DEF TryConnect
<1>3. CASE AfterTry
  BY <1>3 DEF AfterTry
<1>4. CASE PauseEnds
  BY <1>4 DEF PauseEnds
<1> QED
  BY <1>1, <1>2, <1>3, <1>4

LEMMA LendControl ==
  ASSUME ControlInv, TellConnected \/ AwaitThreads \/ TellDisconnected
  PROVE  ControlInv'
<1> USE DEF ControlInv, BridgeType, Lent, Ended, AllEnded, Working, Parts, active, receives, Passes
<1>1. CASE TellConnected
  <2>1. receive_pipe' \in Seq(Marks) /\ seen' \in Marks /\ enqueue_enabled' = enqueue_enabled
    BY <1>1, EnqueueTyped DEF TellConnected, Marks
  <2> QED
    BY <1>1, <2>1 DEF TellConnected
<1>2. CASE AwaitThreads
  BY <1>2 DEF AwaitThreads, InUse
<1>3. CASE TellDisconnected
  <2>1. receive_pipe' \in Seq(Marks) /\ seen' \in Marks /\ enqueue_enabled' = enqueue_enabled
    BY <1>3, EnqueueTyped DEF TellDisconnected, Marks
  <2> QED
    BY <1>3, <2>1 DEF TellDisconnected
<1> QED
  BY <1>1, <1>2, <1>3

LEMMA ReceiveControl == ASSUME ControlInv, Receive PROVE ControlInv'
<1> USE DEF ControlInv, BridgeType, Lent, Ended, AllEnded, Working, Parts, active, receives, Passes
<1>1. CASE Idle("receive", "read")
  BY <1>1 DEF Idle, Active
<1>2. CASE Read
  BY <1>2 DEF Read
<1>3. CASE EnqueueReceived
  <2>1. receive_pipe' \in Seq(Marks) /\ seen' \in Marks /\ enqueue_enabled' = enqueue_enabled
    BY <1>3, EnqueueTyped DEF EnqueueReceived, Marks
  <2> QED
    BY <1>3, <2>1 DEF EnqueueReceived
<1>4. CASE Shutdown("receive")
  BY <1>4 DEF Shutdown
<1>5. CASE LetGo("receive")
  BY <1>5 DEF LetGo, SetInactive
<1> QED
  BY <1>1, <1>2, <1>3, <1>4, <1>5 DEF Receive

LEMMA TransmitControl == ASSUME ControlInv, Transmit \/ WriteSucceeds PROVE ControlInv'
<1> USE DEF ControlInv, BridgeType, Lent, Ended, AllEnded, Working, Parts, active, receives, Passes
<1>1. CASE Idle("transmit", "take")
  BY <1>1 DEF Idle, Active
<1>2. CASE Take
  BY <1>2 DEF Take
<1>3. CASE Pause
  BY <1>3 DEF Pause
<1>4. CASE WriteSucceeds \/ WriteFails
  BY <1>4 DEF WriteSucceeds, WriteFails
<1>5. CASE Shutdown("transmit")
  BY <1>5 DEF Shutdown
<1>6. CASE LetGo("transmit")
  BY <1>6 DEF LetGo, SetInactive
<1> QED
  BY <1>1, <1>2, <1>3, <1>4, <1>5, <1>6 DEF Transmit

LEMMA DestructorControl == ASSUME ControlInv, Stop \/ Destructor PROVE ControlInv'
<1> USE DEF ControlInv, BridgeType, Lent, Ended, AllEnded, Working, Parts, active, receives, Passes
<1>1. CASE Stop
  BY <1>1 DEF Stop
<1>2. CASE DisablePipes
  BY <1>2 DEF DisablePipes, StillEnabled
<1>3. CASE ShutdownConnection
  BY <1>3 DEF ShutdownConnection
<1>4. CASE DestructorEnds
  BY <1>4 DEF DestructorEnds
<1> QED
  BY <1>1, <1>2, <1>3, <1>4 DEF Destructor

LEMMA OutsideControl == ASSUME ControlInv, UserTransmits \/ Other \/ UNCHANGED bridge PROVE ControlInv'
  BY DEF UserTransmits, Other, bridge, given, ControlInv, BridgeType, Lent, Ended, AllEnded, Working, Parts,
         active, receives

-----------------------------------------------------------------------------
(* The stream *)

LEMMA BracketedIs == BridgeType => (StatusesBracketObjects <=> Bracketed)
<1> SUFFICES ASSUME BridgeType PROVE StatusesBracketObjects <=> Bracketed
  OBVIOUS
<1> DEFINE stream == <<seen>> \o receive_pipe
<1>1. <<seen>> \in Seq(Marks) /\ Len(<<seen>>) = 1 /\ receive_pipe \in Seq(Marks)
      /\ Len(receive_pipe) \in Nat /\ <<seen>>[1] = seen
  BY DEF BridgeType
<1>2. \A i \in 1..1 + Len(receive_pipe) :
        stream[i] = IF i <= 1 THEN <<seen>>[i] ELSE receive_pipe[i - 1]
  BY <1>1, ConcatProperties
<1>3. ASSUME NEW i \in 1..Len(receive_pipe)
      PROVE  /\ stream[i] = IF i = 1 THEN seen ELSE receive_pipe[i - 1]
             /\ stream[i + 1] = receive_pipe[i]
  <2>1. i \in Nat \ {0} /\ i \in 1..1 + Len(receive_pipe) /\ i + 1 \in 1..1 + Len(receive_pipe)
        /\ (i + 1) - 1 = i /\ ~(i + 1 <= 1)
    BY <1>1
  <2>2. stream[i + 1] = receive_pipe[(i + 1) - 1]
    BY <1>2, <2>1
  <2>3. stream[i] = IF i = 1 THEN seen ELSE receive_pipe[i - 1]
    BY <1>1, <1>2, <2>1
  <2> QED
    BY <2>1, <2>2, <2>3
<1> QED
  BY <1>3 DEF StatusesBracketObjects, Bracketed

\* An entry that fits the newest one.
LEMMA AppendKeeps ==
  ASSUME BridgeType, Bracketed, NEW x \in Marks, Newest = "off" <=> x = "on",
         receive_pipe' = Append(receive_pipe, x), seen' = seen
  PROVE  Bracketed' /\ Newest' = x
<1>1. Len(receive_pipe) \in Nat /\ receive_pipe \in Seq(Marks)
  BY DEF BridgeType
<1>2. /\ Len(receive_pipe') = Len(receive_pipe) + 1
      /\ \A i \in 1..Len(receive_pipe) : receive_pipe'[i] = receive_pipe[i]
      /\ receive_pipe'[Len(receive_pipe) + 1] = x
  BY <1>1
<1>3. receive_pipe = <<>> <=> Len(receive_pipe) = 0
  BY <1>1
<1>4. receive_pipe' # <<>> /\ Newest' = x
  BY <1>1, <1>2 DEF Newest
<1>5. ASSUME NEW i \in 1..Len(receive_pipe')
      PROVE  (IF i = 1 THEN seen' ELSE receive_pipe'[i - 1]) = "off" <=> receive_pipe'[i] = "on"
  <2>1. CASE i \in 1..Len(receive_pipe)
    <3>1. i # 1 => i - 1 \in 1..Len(receive_pipe)
      BY <1>1, <2>1
    <3> QED
      BY <1>2, <2>1, <3>1 DEF Bracketed
  <2>2. CASE i = Len(receive_pipe) + 1
    <3>1. receive_pipe'[i] = x
      BY <1>2, <2>2
    <3>2. (IF i = 1 THEN seen' ELSE receive_pipe'[i - 1]) = Newest
      <4>1. CASE Len(receive_pipe) = 0
        BY <1>3, <2>2, <4>1 DEF Newest
      <4>2. CASE Len(receive_pipe) # 0
        <5>1. i # 1 /\ i - 1 = Len(receive_pipe) /\ Len(receive_pipe) \in 1..Len(receive_pipe)
          BY <1>1, <2>2, <4>2
        <5> QED
          BY <1>2, <1>3, <4>2, <5>1 DEF Newest
      <4> QED
        BY <4>1, <4>2
    <3> QED
      BY <3>1, <3>2
  <2> QED
    BY <1>1, <1>2, <2>1, <2>2
<1> QED
  BY <1>4, <1>5 DEF Bracketed

LEMMA DequeueKeeps ==
  ASSUME BridgeType, Bracketed, receive_pipe # <<>>,
         seen' = Head(receive_pipe), receive_pipe' = Tail(receive_pipe)
  PROVE  /\ Bracketed' /\ Newest' = Newest
         /\ receive_pipe' \in Seq(Marks) /\ seen' \in Marks
<1>1. /\ Len(receive_pipe) \in Nat \ {0} /\ receive_pipe \in Seq(Marks)
      /\ seen' = receive_pipe[1]
  BY DEF BridgeType
<1>2. /\ receive_pipe' \in Seq(Marks) /\ seen' \in Marks
      /\ Len(receive_pipe') = Len(receive_pipe) - 1
      /\ \A i \in 1..Len(receive_pipe') : receive_pipe'[i] = receive_pipe[i + 1]
  BY <1>1, HeadTailProperties
<1>3. receive_pipe' = <<>> <=> Len(receive_pipe') = 0
  BY <1>2
<1>4. Newest' = Newest
  <2>1. CASE Len(receive_pipe') = 0
    BY <1>1, <1>2, <1>3, <2>1 DEF Newest
  <2>2. CASE Len(receive_pipe') # 0
    <3>1. Len(receive_pipe') \in 1..Len(receive_pipe') /\ Len(receive_pipe') + 1 = Len(receive_pipe)
      BY <1>1, <1>2, <2>2
    <3> QED
      BY <1>2, <1>3, <2>2, <3>1 DEF Newest
  <2> QED
    BY <2>1, <2>2
<1>5. ASSUME NEW i \in 1..Len(receive_pipe')
      PROVE  (IF i = 1 THEN seen' ELSE receive_pipe'[i - 1]) = "off" <=> receive_pipe'[i] = "on"
  <2>1. i + 1 \in 1..Len(receive_pipe) /\ i \in Nat \ {0} /\ i + 1 # 1 /\ (i + 1) - 1 = i
    BY <1>1, <1>2
  <2>2. receive_pipe[i] = "off" <=> receive_pipe[i + 1] = "on"
    BY <2>1 DEF Bracketed
  <2>3. receive_pipe'[i] = receive_pipe[i + 1]
    BY <1>2
  <2>4. (IF i = 1 THEN seen' ELSE receive_pipe'[i - 1]) = receive_pipe[i]
    <3>1. i # 1 => i - 1 \in 1..Len(receive_pipe') /\ (i - 1) + 1 = i
      BY <1>1, <1>2, <2>1
    <3> QED
      BY <1>1, <1>2, <3>1
  <2> QED
    BY <2>2, <2>3, <2>4
<1> QED
  BY <1>2, <1>4, <1>5 DEF Bracketed

-----------------------------------------------------------------------------
(* Both together *)

\* Steps that put nothing into the pipe and keep what NewestTells speaks of.
LEMMA StreamStays ==
  ASSUME BridgeInv, receive_pipe' = receive_pipe, seen' = seen, pipes' = pipes,
         \/ enqueue_enabled' = enqueue_enabled /\ place'["destructor"] # "done"
         \/ enqueue_enabled' = FALSE \/ "receive" \notin pipes
         \/ place'["destructor"] = "done",
         place["destructor"] = "done" => place'["destructor"] = "done",
         place'["connect"] \in {"wait", "untell"} <=> place["connect"] \in {"wait", "untell"}
  PROVE  NewestTells' /\ Bracketed'
<1>1. Newest' = Newest /\ Bracketed'
  BY DEF Newest, Bracketed, BridgeInv
<1> QED
  BY <1>1 DEF NewestTells, BridgeInv

\* Steps that put x into the pipe, if it takes it.
LEMMA StreamGrows ==
  ASSUME BridgeInv, NEW x \in Marks, Enqueue(x), pipes' = pipes,
         place["connect"] # "ended", place'["destructor"] = place["destructor"],
         x = "on" <=> place["connect"] \notin {"wait", "untell"},
         x = "off" <=> place'["connect"] \notin {"wait", "untell"}
  PROVE  NewestTells' /\ Bracketed'
<1>1. place["destructor"] # "done"
  BY DEF BridgeInv, ControlInv, Ended, AllEnded
<1>2. CASE "receive" \in pipes /\ enqueue_enabled
  <2>1. Newest = "off" <=> x = "on"
    BY <1>1, <1>2 DEF BridgeInv, NewestTells
  <2>2. receive_pipe' = Append(receive_pipe, x) /\ seen' = seen
    BY <1>2 DEF Enqueue
  <2>3. Bracketed' /\ Newest' = x
    BY <2>1, <2>2, AppendKeeps DEF BridgeInv, ControlInv
  <2> QED
    BY <2>3 DEF NewestTells
<1>3. CASE ~("receive" \in pipes /\ enqueue_enabled)
  <2>1. UNCHANGED <<receive_pipe, seen, enqueue_enabled>>
    BY <1>3 DEF Enqueue
  <2> QED
    BY <1>3, <2>1 DEF NewestTells, Bracketed, BridgeInv
<1> QED
  BY <1>2, <1>3

LEMMA ControlStep == BridgeInv /\ [BridgeNext]_bridge => ControlInv'
<1> SUFFICES ASSUME BridgeInv, [BridgeNext]_bridge PROVE ControlInv'
  OBVIOUS
<1>1. ControlInv
  BY DEF BridgeInv
<1>2. CASE UserDequeues
  <2>1. receive_pipe' \in Seq(Marks) /\ seen' \in Marks
    BY <1>1, <1>2, DequeueKeeps DEF UserDequeues, BridgeInv, ControlInv
  <2> QED
    BY <1>1, <1>2, <2>1 DEF UserDequeues, ControlInv, BridgeType, Lent, Ended, AllEnded, Working, active
<1> QED
  BY <1>1, <1>2, ConnectControl, LendControl, ReceiveControl, TransmitControl, DestructorControl, OutsideControl
     DEF BridgeNext, Connect

LEMMA StreamStep == BridgeInv /\ [BridgeNext]_bridge => NewestTells' /\ Bracketed'
<1> SUFFICES ASSUME BridgeInv, [BridgeNext]_bridge PROVE NewestTells' /\ Bracketed'
  OBVIOUS
<1>0. /\ place = [p \in Parts |-> place[p]]
      /\ place["destructor"] = "done" => AllEnded
      /\ Working("receive") => place["connect"] = "wait"
  BY DEF BridgeInv, ControlInv, BridgeType, Ended, Lent
<1> USE DEF Passes, receives, given, Parts
<1>1. CASE ConnectTop \/ TryConnect \/ AfterTry \/ PauseEnds \/ AwaitThreads
  <2>1. /\ UNCHANGED <<receive_pipe, seen, pipes, enqueue_enabled>>
        /\ place'["destructor"] = place["destructor"]
        /\ place'["connect"] \in {"wait", "untell"} <=> place["connect"] \in {"wait", "untell"}
    BY <1>0, <1>1 DEF ConnectTop, TryConnect, AfterTry, PauseEnds, AwaitThreads
  <2> QED
    BY <2>1, StreamStays
<1>2. CASE TellConnected
  <2>1. /\ place["connect"] = "tell" /\ place'["connect"] = "wait" /\ place'["destructor"] = place["destructor"]
        /\ Enqueue("on") /\ pipes' = pipes
    BY <1>0, <1>2 DEF TellConnected
  <2> QED
    BY <2>1, StreamGrows DEF Marks
<1>3. CASE TellDisconnected
  <2>1. /\ place["connect"] = "untell" /\ place'["connect"] = "top" /\ place'["destructor"] = place["destructor"]
        /\ Enqueue("off") /\ pipes' = pipes
    BY <1>0, <1>3 DEF TellDisconnected
  <2> QED
    BY <2>1, StreamGrows DEF Marks
<1>4. CASE EnqueueReceived
  <2>1. /\ place["connect"] = "wait" /\ place'["connect"] = "wait" /\ place'["destructor"] = place["destructor"]
        /\ Enqueue("item") /\ pipes' = pipes
    BY <1>0, <1>4 DEF EnqueueReceived, Working
  <2> QED
    BY <2>1, StreamGrows DEF Marks
<1>5. CASE \/ Idle("receive", "read") \/ Read \/ Shutdown("receive") \/ LetGo("receive")
           \/ Transmit \/ WriteSucceeds \/ UserTransmits \/ Other \/ Stop \/ ShutdownConnection
           \/ UNCHANGED bridge
  <2>1. UNCHANGED <<receive_pipe, seen, pipes, enqueue_enabled>>
    BY <1>5 DEF Idle, Read, Shutdown, LetGo, Transmit, Take, Pause, WriteSucceeds, WriteFails,
                UserTransmits, Other, Stop, ShutdownConnection, bridge
  <2>2. place'["connect"] = place["connect"] /\ (place["destructor"] = "done" => place'["destructor"] = "done")
    BY <1>0, <1>5 DEF Idle, Read, Shutdown, LetGo, Transmit, Take, Pause, WriteSucceeds, WriteFails,
                UserTransmits, Other, Stop, ShutdownConnection, bridge
  <2> QED
    BY <2>1, <2>2, StreamStays
<1>6. CASE DisablePipes
  <2>1. /\ UNCHANGED <<receive_pipe, seen, pipes>> /\ place'["connect"] = place["connect"]
        /\ enqueue_enabled' = FALSE \/ "receive" \notin pipes
        /\ place["destructor"] # "done"
    BY <1>0, <1>6 DEF DisablePipes, StillEnabled
  <2> QED
    BY <2>1, StreamStays
<1>7. CASE DestructorEnds
  <2>1. /\ UNCHANGED <<receive_pipe, seen, pipes>> /\ place'["connect"] = place["connect"]
        /\ place'["destructor"] = "done"
    BY <1>0, <1>7 DEF DestructorEnds
  <2> QED
    BY <2>1, StreamStays
<1>8. CASE UserDequeues
  <2>1. /\ seen' = Head(receive_pipe) /\ receive_pipe' = Tail(receive_pipe) /\ receive_pipe # <<>>
        /\ UNCHANGED <<pipes, place, enqueue_enabled>>
    BY <1>8 DEF UserDequeues
  <2>2. Bracketed' /\ Newest' = Newest
    BY <2>1, DequeueKeeps DEF BridgeInv, ControlInv
  <2> QED
    BY <2>1, <2>2 DEF NewestTells, BridgeInv
<1> QED
  BY <1>1, <1>2, <1>3, <1>4, <1>5, <1>6, <1>7, <1>8 DEF BridgeNext, Connect, Receive, Destructor

LEMMA BridgeInitHolds == BridgeInit => BridgeInv
<1> SUFFICES ASSUME BridgeInit PROVE BridgeInv
  OBVIOUS
<1>1. receive_pipe = <<>> /\ seen = "off" /\ place["connect"] = "top"
  BY DEF BridgeInit
<1>2. NewestTells
  BY <1>1 DEF NewestTells, Newest
<1>3. Bracketed
  <2>1. Len(receive_pipe) = 0
    BY <1>1
  <2> QED
    BY <2>1 DEF Bracketed
<1> QED
  BY <1>2, <1>3, InitControl DEF BridgeInv

THEOREM BridgeInvariant == BridgeSpec => []BridgeInv
<1>1. BridgeInv /\ [BridgeNext]_bridge => BridgeInv'
  BY ControlStep, StreamStep DEF BridgeInv
<1> QED
  BY BridgeInitHolds, <1>1, PTL DEF BridgeSpec

\* The user of the receive pipe sees each object between the statuses of its
\* connection, for pipes of any size.
THEOREM ObjectsInBrackets == BridgeSpec => []StatusesBracketObjects
<1>1. BridgeInv => StatusesBracketObjects
  BY BracketedIs DEF BridgeInv, ControlInv
<1> QED
  BY <1>1, BridgeInvariant, PTL

\* connect_thread() does not replace a connection that a thread still uses.
THEOREM ConnectionsKept == BridgeSpec => []ConnectionIsStable
<1>1. BridgeInv => ConnectionIsStable
  BY DEF BridgeInv, ControlInv, BridgeType, Lent, ConnectionIsStable, Active
<1> QED
  BY <1>1, BridgeInvariant, PTL

-----------------------------------------------------------------------------
(* Server *)

ServerType ==
  /\ running \in BOOLEAN /\ shutting_down \in BOOLEAN /\ failed \in BOOLEAN
  /\ cons \subseteq Conns /\ shut \subseteq Conns
  /\ thread_count \in Int /\ max_connections \in Nat
  /\ conn \in [Conns -> {"none", "accepted", "served", "closing"}]
  /\ at \in {"off", "accept", "check", "add", "create", "count", "limit", "wait", "close"}
  /\ at # "off" => running
  /\ client \in Conns \cup {None}
  /\ tested \in Nat

\* A new connection is in cons or swept when it is given its thread, not before.
ClientOpen ==
  /\ at \in {"add", "create"} => client # None
  /\ at \in {"check", "add", "create"} /\ client # None => conn[client] = "accepted"
  /\ at \in {"check", "add"} => client \notin cons
  /\ at = "create" => client \in cons \cup shut

Threads == {k \in Conns : HasThread(k)}

ServerInv == ServerType /\ ClientOpen /\ ThreadCountExact /\ ConsAreOpen

USE ServerAssumption

LEMMA ThreadsFinite ==
  /\ IsFiniteSet(Threads) /\ Cardinality(Threads) \in Nat
  /\ ThreadCountExact <=>
       thread_count = Cardinality(Threads) - (IF at = "count" THEN 1 ELSE 0)
<1>1. Threads \subseteq Conns /\ IsFiniteSet(Conns)
  BY DEF Threads
<1>2. IsFiniteSet(Threads) /\ Cardinality(Threads) \in Nat
  BY <1>1, FS_Subset, FS_CardinalityType
<1> QED
  BY <1>2 DEF ThreadCountExact, Threads

LEMMA InitHolds == Init => ServerInv
<1> SUFFICES ASSUME Init PROVE ServerInv
  OBVIOUS
<1>1. ServerType
  <2>1. conn \in [Conns -> {"none", "accepted", "served", "closing"}]
    BY DEF Init
  <2>2. /\ running \in BOOLEAN /\ shutting_down \in BOOLEAN /\ failed \in BOOLEAN
        /\ at = "off" /\ client = None /\ cons = {} /\ shut = {}
        /\ thread_count = 0 /\ max_connections = DefaultMax /\ tested = 0
    BY DEF Init
  <2> QED
    BY <2>1, <2>2 DEF ServerType
<1>2. ClientOpen /\ ConsAreOpen
  BY DEF Init, ClientOpen, ConsAreOpen
<1>3. Threads = {}
  BY DEF Init, Threads, HasThread
<1>4. ThreadCountExact
  BY <1>3, FS_EmptySet, ThreadsFinite DEF Init
<1> QED
  BY <1>1, <1>2, <1>4 DEF ServerInv

\* A step that neither gives a connection a thread nor takes it away.
LEMMA CountStays ==
  ASSUME ServerInv, Threads' = Threads, thread_count' = thread_count,
         (at # "count" /\ at' # "count") \/ at' = at
  PROVE  ThreadCountExact'
<1>1. ThreadCountExact' <=>
        thread_count' = Cardinality(Threads') - (IF at' = "count" THEN 1 ELSE 0)
  BY ThreadsFinite DEF ThreadCountExact, Threads
<1> QED
  BY <1>1, ThreadsFinite DEF ServerInv

\* A connection goes from one state to another.
LEMMA BecomesMoves ==
  ASSUME ServerType, NEW k \in Conns, NEW state, Becomes(k, state)
  PROVE  /\ conn' = [conn EXCEPT ![k] = state]
         /\ shut' = IF state \in {"closing", "none"} THEN shut \ {k} ELSE shut
         /\ Threads' = IF state \in {"served", "closing"} THEN Threads \cup {k} ELSE Threads \ {k}
  BY DEF Becomes, ServerType, Threads, HasThread

-----------------------------------------------------------------------------
(* The listener *)

LEMMA AcceptStep == ASSUME ServerInv, Accept PROVE ServerInv'
<1>1. at = "accept" /\ at' \in {"check", "close"}
      /\ UNCHANGED <<running, shutting_down, cons, thread_count, max_connections, tested>>
  BY DEF Accept
<1>2. ASSUME NEW k \in Conns, conn[k] = "none", Becomes(k, "accepted"), client' = k, UNCHANGED failed
      PROVE  ServerInv'
  <2>1. /\ conn' = [conn EXCEPT ![k] = "accepted"] /\ shut' = shut
        /\ Threads' = Threads \ {k}
    BY <1>2, BecomesMoves DEF ServerInv
  <2>2. k \notin Threads /\ k \notin cons
    BY <1>2 DEF Threads, HasThread, ServerInv, ConsAreOpen
  <2>3. ThreadCountExact'
    BY <1>1, <2>1, <2>2, CountStays
  <2>4. ServerType' /\ ClientOpen' /\ ConsAreOpen'
    BY <1>1, <1>2, <2>1, <2>2 DEF ServerInv, ServerType, ClientOpen, ConsAreOpen
  <2> QED
    BY <2>3, <2>4 DEF ServerInv
<1>3. ASSUME UNCHANGED <<conn, shut>>,
             \/ at' = "check" /\ client' = None /\ failed' = failed
             \/ at' = "close" /\ client' = client /\ failed' = TRUE
      PROVE  ServerInv'
  <2>1. Threads' = Threads
    BY <1>3 DEF Threads, HasThread
  <2>2. ThreadCountExact'
    BY <1>1, <2>1, CountStays
  <2>3. ServerType' /\ ClientOpen' /\ ConsAreOpen'
    BY <1>1, <1>3 DEF ServerInv, ServerType, ClientOpen, ConsAreOpen
  <2> QED
    BY <2>2, <2>3 DEF ServerInv
<1>4. CASE \E k \in Conns : conn[k] = "none" /\ Becomes(k, "accepted") /\ client' = k /\ UNCHANGED failed
  BY <1>2, <1>4
<1>5. CASE UNCHANGED <<conn, shut, failed>> /\ at' = "check" /\ client' = None
  BY <1>3, <1>5
<1>6. CASE at' = "close" /\ failed' = TRUE /\ UNCHANGED <<conn, shut, client>>
  BY <1>3, <1>6
<1> QED
  BY <1>4, <1>5, <1>6 DEF Accept

LEMMA CheckStep == ASSUME ServerInv, Check PROVE ServerInv'
<1>1. /\ at = "check"
      /\ at' = IF shutting_down THEN "close" ELSE IF client = None THEN "accept" ELSE "add"
      /\ UNCHANGED <<running, shutting_down, cons, thread_count, max_connections, failed, tested>>
  BY DEF Check
<1>2. CASE shutting_down /\ client # None
  <2>1. client \in Conns /\ Becomes(client, "none") /\ client' = None
    BY <1>2 DEF Check, ServerInv, ServerType
  <2>2. /\ conn' = [conn EXCEPT ![client] = "none"] /\ shut' = shut \ {client}
        /\ Threads' = Threads \ {client}
    BY <2>1, BecomesMoves DEF ServerInv
  <2>3. client \notin Threads /\ client \notin cons
    BY <1>1, <1>2 DEF Threads, HasThread, ServerInv, ClientOpen
  <2>4. ThreadCountExact'
    BY <1>1, <2>2, <2>3, CountStays
  <2>5. ServerType' /\ ClientOpen'
    BY <1>1, <1>2, <2>1, <2>2 DEF ServerInv, ServerType, ClientOpen
  <2>6. ConsAreOpen'
    BY <1>1, <2>2, <2>3 DEF ServerInv, ServerType, ConsAreOpen
  <2> QED
    BY <2>4, <2>5, <2>6 DEF ServerInv
<1>3. CASE ~(shutting_down /\ client # None)
  <2>1. UNCHANGED <<conn, shut, client>>
    BY <1>3 DEF Check
  <2>2. Threads' = Threads
    BY <2>1 DEF Threads, HasThread
  <2>3. ThreadCountExact'
    BY <1>1, <2>2, CountStays
  <2>4. ServerType' /\ ClientOpen' /\ ConsAreOpen'
    BY <1>1, <2>1 DEF ServerInv, ServerType, ClientOpen, ConsAreOpen
  <2> QED
    BY <2>3, <2>4 DEF ServerInv
<1> QED
  BY <1>2, <1>3

LEMMA AddStep == ASSUME ServerInv, Add PROVE ServerInv'
<1>1. /\ at = "add" /\ at' = "create" /\ cons' = cons \cup {client}
      /\ UNCHANGED <<running, shutting_down, thread_count, max_connections, conn, shut, client, failed, tested>>
  BY DEF Add
<1>2. client \in Conns /\ conn[client] = "accepted"
  BY <1>1 DEF ServerInv, ServerType, ClientOpen
<1>3. Threads' = Threads
  BY <1>1 DEF Threads, HasThread
<1>4. ThreadCountExact'
  BY <1>1, <1>3, CountStays
<1>5. ServerType' /\ ClientOpen' /\ ConsAreOpen'
  BY <1>1, <1>2 DEF ServerInv, ServerType, ClientOpen, ConsAreOpen
<1> QED
  BY <1>4, <1>5 DEF ServerInv

LEMMA CreateThreadStep == ASSUME ServerInv, CreateThread PROVE ServerInv'
<1>1. /\ at = "create" /\ client' = None
      /\ UNCHANGED <<running, shutting_down, thread_count, max_connections, tested>>
  BY DEF CreateThread
<1>2. client \in Conns /\ conn[client] = "accepted" /\ client \in cons \cup shut /\ client \notin Threads
  BY <1>1 DEF ServerInv, ServerType, ClientOpen, Threads, HasThread
<1>3. CASE Becomes(client, "served") /\ at' = "count" /\ UNCHANGED <<cons, failed>>
  <2>1. /\ conn' = [conn EXCEPT ![client] = "served"] /\ shut' = shut
        /\ Threads' = Threads \cup {client}
    BY <1>2, <1>3, BecomesMoves DEF ServerInv
  <2>2. Cardinality(Threads') = Cardinality(Threads) + 1
    BY <1>2, <2>1, ThreadsFinite, FS_AddElement
  <2>3. ThreadCountExact'
    BY <1>1, <1>3, <2>2, ThreadsFinite DEF ServerInv, ThreadCountExact, Threads
  <2>4. ServerType' /\ ClientOpen' /\ ConsAreOpen'
    BY <1>1, <1>2, <1>3, <2>1 DEF ServerInv, ServerType, ClientOpen, ConsAreOpen
  <2> QED
    BY <2>3, <2>4 DEF ServerInv
<1>4. CASE Becomes(client, "none") /\ cons' = Forget(client) /\ at' = "close" /\ failed' = TRUE
  <2>1. /\ conn' = [conn EXCEPT ![client] = "none"] /\ shut' = shut \ {client}
        /\ Threads' = Threads \ {client} /\ cons' = cons \ {client}
    BY <1>2, <1>4, BecomesMoves DEF ServerInv, Forget
  <2>2. ThreadCountExact'
    BY <1>1, <1>2, <1>4, <2>1, CountStays
  <2>3. ServerType' /\ ClientOpen' /\ ConsAreOpen'
    BY <1>1, <1>4, <2>1 DEF ServerInv, ServerType, ClientOpen, ConsAreOpen
  <2> QED
    BY <2>2, <2>3 DEF ServerInv
<1> QED
  BY <1>3, <1>4 DEF CreateThread

LEMMA CountThreadStep == ASSUME ServerInv, CountThread PROVE ServerInv'
<1>1. /\ at = "count" /\ at' = "limit" /\ thread_count' = thread_count + 1
      /\ UNCHANGED <<running, shutting_down, max_connections, conn, shut, cons, client, failed, tested>>
  BY DEF CountThread, Counted, connections
<1>2. Threads' = Threads
  BY <1>1 DEF Threads, HasThread
<1>3. ThreadCountExact'
  <2>1. thread_count = Cardinality(Threads) - 1 /\ thread_count \in Int
    BY <1>1, ThreadsFinite DEF ServerInv, ServerType
  <2>2. thread_count' = Cardinality(Threads')
    BY <1>1, <1>2, <2>1, ThreadsFinite
  <2> QED
    BY <1>1, <1>2, <2>2, ThreadsFinite DEF ThreadCountExact, Threads
<1>4. ServerType' /\ ClientOpen' /\ ConsAreOpen'
  BY <1>1 DEF ServerInv, ServerType, ClientOpen, ConsAreOpen
<1> QED
  BY <1>3, <1>4 DEF ServerInv

\* The other steps of the listener and those of clear() move no connection, but
\* clear() empties cons.
LEMMA OthersKeep ==
  ASSUME ServerInv,
         \/ at' = at
         \/ at \notin {"check", "add", "create", "count"} /\ at' \in {"off", "accept", "wait", "close"},
         thread_count' = thread_count, conn' = conn, client' = client,
         UNCHANGED <<shut, cons>> \/ (shut' = shut \cup cons /\ cons' = {}),
         at' # "off" => running',
         running' \in BOOLEAN, shutting_down' \in BOOLEAN, failed' \in BOOLEAN,
         max_connections' \in Nat, tested' \in Nat
  PROVE  ServerInv'
<1>1. Threads' = Threads
  BY DEF Threads, HasThread
<1>2. ThreadCountExact'
  BY <1>1, CountStays
<1>3. ServerType' /\ ClientOpen' /\ ConsAreOpen'
  BY DEF ServerInv, ServerType, ClientOpen, ConsAreOpen
<1> QED
  BY <1>2, <1>3 DEF ServerInv

-----------------------------------------------------------------------------
(* The threads of connections *)

LEMMA OnConnectReturnsStep ==
  ASSUME ServerInv, NEW k \in Conns, OnConnectReturns(k)
  PROVE  ServerInv'
<1>1. /\ conn[k] = "served" /\ Becomes(k, "closing") /\ cons' = cons \ {k}
      /\ UNCHANGED <<running, shutting_down, thread_count, max_connections, at, client, failed, tested>>
  BY DEF OnConnectReturns, Forget, listener
<1>2. /\ conn' = [conn EXCEPT ![k] = "closing"] /\ shut' = shut \ {k} /\ Threads' = Threads \cup {k}
      /\ k \in Threads
  BY <1>1, BecomesMoves DEF ServerInv, Threads, HasThread
<1>3. ThreadCountExact'
  BY <1>1, <1>2, CountStays
<1>4. ServerType' /\ ClientOpen' /\ ConsAreOpen'
  BY <1>1, <1>2 DEF ServerInv, ServerType, ClientOpen, ConsAreOpen
<1> QED
  BY <1>3, <1>4 DEF ServerInv

LEMMA ThreadEndsStep ==
  ASSUME ServerInv, NEW k \in Conns, ThreadEnds(k)
  PROVE  ServerInv'
<1>1. /\ conn[k] = "closing" /\ Becomes(k, "none") /\ thread_count' = thread_count - 1
      /\ UNCHANGED <<running, shutting_down, max_connections, cons, at, client, failed, tested>>
  BY DEF ThreadEnds, listener
<1>2. /\ conn' = [conn EXCEPT ![k] = "none"] /\ shut' = shut \ {k} /\ Threads' = Threads \ {k}
      /\ k \in Threads /\ k \notin cons
  BY <1>1, BecomesMoves DEF ServerInv, Threads, HasThread, ConsAreOpen
<1>3. Cardinality(Threads') = Cardinality(Threads) - 1
  BY <1>2, ThreadsFinite, FS_RemoveElement
<1>4. ThreadCountExact'
  BY <1>1, <1>3, ThreadsFinite DEF ServerInv, ServerType, ThreadCountExact, Threads
<1>5. ServerType' /\ ClientOpen' /\ ConsAreOpen'
  BY <1>1, <1>2 DEF ServerInv, ServerType, ClientOpen, ConsAreOpen
<1> QED
  BY <1>4, <1>5 DEF ServerInv

-----------------------------------------------------------------------------

LEMMA ClearStepKeeps ==
  ASSUME ServerInv, NEW x \in Callers, ClearStep(x)
  PROVE  ServerInv'
<1>1. /\ UNCHANGED <<thread_count, conn, at, client, failed, tested, running>>
      /\ UNCHANGED <<shut, cons>> \/ (shut' = shut \cup cons /\ cons' = {})
      /\ shutting_down' \in {shutting_down, TRUE, FALSE}
      /\ max_connections' \in {max_connections, DefaultMax}
  BY DEF ClearStep, ClearBegins, ClearResets, ClearSweeps, AwaitZero, AwaitListener, ClearEnds,
         connections, listener, sigs, Goes
<1> QED
  BY <1>1, OthersKeep DEF ServerInv, ServerType

LEMMA StepKeeps == ServerInv /\ [Next]_vars => ServerInv'
<1> SUFFICES ASSUME ServerInv, [Next]_vars PROVE ServerInv'
  OBVIOUS
<1> USE DEF connections, listener, starting
<1>1. CASE NoThread \/ StartFails \/ AsyncStarted \/ Limit \/ CloseListener
  <2>1. /\ UNCHANGED <<thread_count, conn, client, shut, cons>>
        /\ at' = at \/ (at \in {"limit", "wait", "close"} /\ at' \in {"off", "accept", "wait", "close"})
        /\ at' # "off" => running'
        /\ running' \in BOOLEAN /\ shutting_down' \in BOOLEAN /\ failed' \in BOOLEAN
        /\ max_connections' \in Nat /\ tested' \in Nat
    <3>1. CASE NoThread \/ StartFails \/ AsyncStarted
      BY <3>1 DEF NoThread, StartFails, AsyncStarted, ServerInv, ServerType
    <3>2. CASE Limit
      BY <3>2 DEF Limit, ServerInv, ServerType
    <3>3. CASE CloseListener
      BY <3>3 DEF CloseListener, ServerInv, ServerType
    <3> QED
      BY <1>1, <3>1, <3>2, <3>3
  <2> QED
    BY <2>1, OthersKeep
<1>2. CASE Accept \/ Check \/ Add \/ CreateThread \/ CountThread
  BY <1>2, AcceptStep, CheckStep, AddStep, CreateThreadStep, CountThreadStep
<1>3. ASSUME NEW k \in Conns, OnConnectReturns(k) \/ ThreadEnds(k) PROVE ServerInv'
  BY <1>3, OnConnectReturnsStep, ThreadEndsStep
<1>4. ASSUME NEW n \in Maxima, set_max_connections(n) PROVE ServerInv'
  BY <1>4, OthersKeep DEF set_max_connections, ServerInv, ServerType
<1>5. ASSUME NEW x \in Callers, clear(x) PROVE ServerInv'
  BY <1>5, OthersKeep DEF clear, ServerInv, ServerType
<1>6. ASSUME NEW x \in Callers, ClearStep(x) PROVE ServerInv'
  BY <1>6, ClearStepKeeps
<1>7. CASE UNCHANGED vars
  BY <1>7, OthersKeep DEF vars, ServerInv, ServerType
<1>8. ASSUME NEW l \in Listeners, Start(l) \/ StartAsync(l) PROVE ServerInv'
  <2>1. /\ UNCHANGED <<shutting_down, thread_count, max_connections, conn, shut, cons, client, failed>>
        /\ at = "off" /\ at' = "accept" /\ running' = TRUE /\ tested' \in Nat
    BY <1>8 DEF Start, StartAsync, Begin, ServerInv, ServerType
  <2> QED
    BY <2>1, OthersKeep DEF ServerInv, ServerType
<1> QED
  BY <1>1, <1>2, <1>3, <1>4, <1>5, <1>6, <1>7, <1>8 DEF Next, ListenerStep

THEOREM ServerInvariant == Spec => []ServerInv
  BY InitHolds, StepKeeps, PTL DEF Spec

\* thread_count is what clear() and the limit take it for, but for the one
\* thread that has been made and not yet counted.
THEOREM CountIsExact == Spec => []ThreadCountExact
<1>1. ServerInv => ThreadCountExact
  BY DEF ServerInv
<1> QED
  BY <1>1, ServerInvariant, PTL

\* clear() never shuts down a connection that has been deleted, and misses none
\* that is served.
THEOREM OnlyOpenConnections == Spec => []ConsAreOpen
<1>1. ServerInv => ConsAreOpen
  BY DEF ServerInv
<1> QED
  BY <1>1, ServerInvariant, PTL

-----------------------------------------------------------------------------
(* The limit *)

\* What the listener found when it compared: as long as it goes on accepting the
\* number of threads stays below, as long as it sleeps thread_count does not fall
\* below.
StaysBelow == at \in {"accept", "check"} => tested = 0 \/ Cardinality(Threads) < tested

SleepInv ==
  /\ zero_sig # {} => thread_count > 0
  /\ running_sig # {} => running
  /\ limit_sig # {} => at = "wait" /\ thread_count >= tested

LEMMA BelowStep ==
  ASSUME ServerInv, StaysBelow, [Next]_vars
  PROVE  StaysBelow'
<1> USE DEF StaysBelow, connections, listener, starting
<1>0. Cardinality(Threads) \in Nat /\ tested \in Nat /\ max_connections \in Nat /\ DefaultMax \in Nat
  BY ThreadsFinite DEF ServerInv, ServerType
<1>1. ASSUME UNCHANGED <<conn, tested, at>> PROVE StaysBelow'
  BY <1>1 DEF Threads, HasThread
<1>2. ASSUME NEW l \in Listeners, Begin(l) PROVE StaysBelow'
  <2>1. Threads' = Threads
    BY <1>2 DEF Begin, Threads, HasThread
  <2>2. CASE \E k \in Conns : HasThread(k)
    BY <1>2, <2>2 DEF Begin
  <2>3. CASE ~\E k \in Conns : HasThread(k)
    <3>1. Threads = {} /\ Cardinality(Threads) = 0
      BY <2>3, FS_EmptySet DEF Threads
    <3> QED
      BY <1>0, <1>2, <2>1, <2>3, <3>1 DEF Begin
  <2> QED
    BY <2>2, <2>3
<1>3. ASSUME NEW k \in Conns, NEW state \in {"accepted", "none"}, Becomes(k, state), ~HasThread(k)
      PROVE  Threads' = Threads
  BY <1>3, BecomesMoves DEF ServerInv, Threads
<1>4. CASE Accept
  <2>1. Threads' = Threads
    BY <1>3, <1>4 DEF Accept, Threads, HasThread
  <2> QED
    BY <1>4, <2>1 DEF Accept
<1>5. CASE Check
  <2>1. Threads' = Threads
    BY <1>3, <1>5 DEF Check, Threads, HasThread, ServerInv, ServerType, ClientOpen
  <2> QED
    BY <1>5, <2>1 DEF Check
<1>6. CASE Add \/ CreateThread \/ CountThread \/ CloseListener
  BY <1>6 DEF Add, CreateThread, CountThread, CloseListener
<1>7. CASE Limit
  <2>1. thread_count = Cardinality(Threads) /\ Threads' = Threads
    BY <1>7, ThreadsFinite DEF Limit, ServerInv, Threads, HasThread
  <2> QED
    BY <1>0, <1>7, <2>1 DEF Limit, AtLimit
<1>8. ASSUME NEW k \in Conns, OnConnectReturns(k) \/ ThreadEnds(k) PROVE StaysBelow'
  <2>1. Threads' \subseteq Threads /\ UNCHANGED <<at, tested>>
    BY <1>8 DEF OnConnectReturns, ThreadEnds, Becomes, Threads, HasThread, ServerInv, ServerType
  <2>2. Cardinality(Threads') \in Nat /\ Cardinality(Threads') <= Cardinality(Threads)
    BY <2>1, ThreadsFinite, FS_Subset, FS_CardinalityType
  <2> QED
    BY <1>0, <2>1, <2>2
<1>9. CASE AsyncStarted \/ NoThread \/ StartFails
  BY <1>1, <1>9 DEF AsyncStarted, NoThread, StartFails
<1>10. ASSUME NEW n \in Maxima, set_max_connections(n) PROVE StaysBelow'
  BY <1>1, <1>10 DEF set_max_connections
<1>11. ASSUME NEW x \in Callers, clear(x) \/ ClearStep(x) PROVE StaysBelow'
  BY <1>1, <1>11 DEF clear, ClearStep, ClearBegins, ClearResets, ClearSweeps, AwaitZero, AwaitListener, ClearEnds
<1>12. CASE UNCHANGED vars
  BY <1>1, <1>12 DEF vars
<1> QED
  BY <1>2, <1>4, <1>5, <1>6, <1>7, <1>8, <1>9, <1>10, <1>11, <1>12 DEF Next, ListenerStep, Start, StartAsync

\* While the listener is in accept() fewer connections have a thread than the
\* limit allows, after a timeout as well, unless the limit was lowered since the
\* listener compared or it began beside connections of an earlier start.
THEOREM BelowLimit == Spec => []AcceptsBelowLimit
<1>1. Init => StaysBelow
  BY DEF Init, StaysBelow
<1>2. ServerInv /\ StaysBelow /\ [Next]_vars => StaysBelow'
  BY BelowStep
<1>3. ServerInv /\ StaysBelow => AcceptsBelowLimit
  BY ThreadsFinite DEF ServerInv, ServerType, StaysBelow, AcceptsBelowLimit, Lowered, Threads
<1> QED
  BY <1>1, <1>2, <1>3, ServerInvariant, PTL DEF Spec

-----------------------------------------------------------------------------
(* Wakeups *)

LEMMA SleepStep ==
  ASSUME ServerInv, SleepInv, [Next]_vars
  PROVE  SleepInv'
<1> USE DEF SleepInv, connections, listener, starting, sigs
<1>0. thread_count \in Int /\ max_connections \in Nat /\ tested \in Nat /\ (at # "off" => running)
  BY DEF ServerInv, ServerType
<1>1. CASE Accept \/ Check \/ Add \/ CreateThread \/ AsyncStarted \/ NoThread \/ StartFails
  BY <1>1, <1>0 DEF Accept, Check, Add, CreateThread, AsyncStarted, NoThread, StartFails
<1>2. CASE CountThread
  BY <1>2, <1>0 DEF CountThread, Counted, TellsZero
<1>3. CASE Limit
  BY <1>3, <1>0 DEF Limit, AtLimit
<1>4. CASE CloseListener
  BY <1>4, <1>0 DEF CloseListener
<1>5. ASSUME NEW k \in Conns, OnConnectReturns(k) \/ ThreadEnds(k) PROVE SleepInv'
  BY <1>5, <1>0 DEF OnConnectReturns, ThreadEnds, TellsZero
<1>6. ASSUME NEW n \in Maxima, set_max_connections(n) PROVE SleepInv'
  BY <1>6, <1>0 DEF set_max_connections
<1>7. ASSUME NEW x \in Callers, clear(x) \/ ClearBegins(x) \/ ClearResets(x) \/ ClearSweeps(x) \/ ClearEnds(x)
      PROVE  SleepInv'
  BY <1>7, <1>0 DEF clear, ClearBegins, ClearResets, ClearSweeps, ClearEnds, Goes
<1>8. ASSUME NEW x \in Callers, AwaitZero(x) \/ AwaitListener(x) PROVE SleepInv'
  BY <1>8, <1>0 DEF AwaitZero, AwaitListener, Goes
<1>9. CASE UNCHANGED vars
  BY <1>9 DEF vars
<1>10. ASSUME NEW l \in Listeners, Start(l) \/ StartAsync(l) PROVE SleepInv'
  BY <1>10, <1>0 DEF Start, StartAsync, Begin
<1> QED
  BY <1>1, <1>2, <1>3, <1>4, <1>5, <1>6, <1>7, <1>8, <1>9, <1>10 DEF Next, ListenerStep, ClearStep

\* clear() never sleeps on after the last thread or the listener has ended, nor
\* the listener below its limit, unless the limit was raised or removed since the
\* listener compared thread_count with it.
THEOREM ServerWakeups == Spec => []NoLostWakeup
<1>1. Init => SleepInv
  BY DEF Init, SleepInv
<1>2. ServerInv /\ SleepInv /\ [Next]_vars => SleepInv'
  BY SleepStep
<1>3. ServerInv /\ SleepInv => NoLostWakeup
  BY DEF ServerInv, ServerType, SleepInv, NoLostWakeup, Raised
<1> QED
  BY <1>1, <1>2, <1>3, ServerInvariant, PTL DEF Spec
=============================================================================
