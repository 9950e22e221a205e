-------------------------------- MODULE Bridge --------------------------------
(***************************************************************************)
(* dlib::bridge (bridge/bridge.h): one connection that carries the objects *)
(* of a transmit pipe to another program and puts what comes back into a   *)
(* receive pipe.                                                           *)
(*                                                                         *)
(* Three threads of a multithreaded_object share the connection `con`, two *)
(* flags, the mutex m and the signaler s.  connect_thread() holds m while  *)
(* it connects and while it enqueues a status, everybody else only for the *)
(* length of an action.  The pipes are what Channel promises: a bounded    *)
(* queue whose calls block until they are possible or disabled.  Of        *)
(* MultithreadedObject the bridge needs that stop() is seen by             *)
(* should_stop() and that wait() returns when all threads have ended.      *)
(*                                                                         *)
(* The other program and the network are external: they accept, refuse,    *)
(* send, stop reading and break off at any time.  A write to a connection  *)
(* that is broken fails.  The bytes that frame an object and the keepalive *)
(* byte are left out.  reconfigure() and clear() of class bridge are the   *)
(* destructor of impl_bridge, and another constructor.                     *)
(***************************************************************************)
EXTENDS Integers, Sequences

CONSTANTS
  ReceiveMax, TransmitMax,   \* max_size() of the pipes
  WireMax,                   \* objects the other program has under way
  BufferMax                  \* objects that fit into the stream buffer

ASSUME BridgeAssumption ==
  /\ ReceiveMax \in Nat \ {0} /\ TransmitMax \in Nat \ {0} /\ WireMax \in Nat /\ BufferMax \in Nat

VARIABLES
  listens,          \* made with listen_on_port, or with connect_to_ip_and_port
  pipes,            \* which of its two pipes the bridge was given
  con,              \* "none", "up" or "down"
  receive_thread_active, transmit_thread_active,
  should_stop, m, s,   \* the flag of stop(); connect_thread() holds m; the sleepers
  place,            \* where the threads and the destructor are
  receive_pipe, enqueue_enabled,
  transmit_pipe, dequeue_enabled,   \* the number of objects in it
  buffered,         \* objects written but not flushed
  saved,            \* dequeue_enabled when the destructor looked
  incoming,         \* how many objects are on their way to us
  seen              \* history: the last object dequeued from receive_pipe

active == <<receive_thread_active, transmit_thread_active>>
transmits == <<transmit_pipe, dequeue_enabled, buffered, saved>>
receives == <<receive_pipe, enqueue_enabled, seen>>
given == <<listens, pipes>>
bridge == <<given, con, active, should_stop, m, s, place, receives, transmits, incoming>>

BridgeInit ==
  /\ listens \in BOOLEAN
  /\ pipes \in {{"receive"}, {"transmit"}, {"receive", "transmit"}}
  /\ con = "none" /\ incoming = 0
  /\ receive_thread_active = FALSE /\ transmit_thread_active = FALSE
  /\ should_stop = FALSE /\ m = FALSE /\ s = {}
  /\ place = [connect |-> "top", receive |-> "idle", transmit |-> "idle", destructor |-> "alive"]
  /\ receive_pipe = <<>> /\ enqueue_enabled = TRUE /\ seen = "off"
  /\ transmit_pipe = 0 /\ dequeue_enabled = TRUE /\ saved = TRUE /\ buffered = 0

Passes(t, from, to) == place[t] = from /\ place' = [place EXCEPT ![t] = to]

\* receive_pipe->enqueue(): blocks while the pipe is full and enabled.
CanReturn == "receive" \notin pipes \/ ~enqueue_enabled \/ Len(receive_pipe) < ReceiveMax
Enqueue(x) ==
  /\ CanReturn
  /\ receive_pipe' = IF "receive" \in pipes /\ enqueue_enabled THEN Append(receive_pipe, x) ELSE receive_pipe
  /\ UNCHANGED <<enqueue_enabled, seen>>

-----------------------------------------------------------------------------
(* connect_thread() *)

ConnectTop ==
  /\ \/ Passes("connect", "top", IF should_stop THEN "ended" ELSE "enter") /\ UNCHANGED m
     \/ ~m /\ Passes("connect", "enter", "try") /\ m' = TRUE
  /\ UNCHANGED <<given, con, active, should_stop, s, receives, transmits, incoming>>

\* accept(), again and again until a second has brought a connection, or
\* create_connection().  The old connection is replaced when there is a new one.
TryConnect ==
  /\ \/ /\ Passes("connect", "try", "connected")
        /\ con' = "up" /\ incoming' = 0
     \/ /\ Passes("connect", "try", "refused")
        /\ UNCHANGED <<con, incoming>>
     \/ /\ listens
        /\ Passes("connect", "try", IF should_stop THEN "refused" ELSE "try")
        /\ UNCHANGED <<con, incoming>>
  /\ UNCHANGED <<given, active, should_stop, m, s, receives, transmits>>

\* Mutant: the question is not asked again.
MustStopMutant == FALSE
MustStop == should_stop

AfterTry ==
  /\ place["connect"] \in {"connected", "refused"}
  /\ IF ~MustStop /\ place["connect"] = "connected"
     THEN Passes("connect", "connected", "tell") /\ UNCHANGED m
     ELSE /\ place' = [place EXCEPT !["connect"] = IF MustStop THEN "ended" ELSE "pause"]
          /\ m' = FALSE
  /\ UNCHANGED <<given, con, active, should_stop, s, receives, transmits, incoming>>

\* After s.wait_or_timeout(2000), which a broadcast may end early.
PauseEnds ==
  /\ ~m /\ Passes("connect", "pause", "top")
  /\ UNCHANGED <<given, con, active, should_stop, m, s, receives, transmits, incoming>>

\* The status goes into the pipe before the threads are let loose.
TellConnected ==
  /\ Enqueue("on")
  /\ Passes("connect", "tell", "wait")
  /\ receive_thread_active' = TRUE /\ transmit_thread_active' = TRUE
  /\ s' = {"connect"} /\ m' = FALSE
  /\ UNCHANGED <<given, con, should_stop, transmits, incoming>>

\* Mutant: one of the threads is forgotten.
InUseMutant == transmit_thread_active
InUse == receive_thread_active \/ transmit_thread_active

AwaitThreads ==
  /\ ~m /\ "connect" \notin s
  /\ \/ InUse /\ Passes("connect", "wait", "wait") /\ s' = s \cup {"connect"} /\ UNCHANGED m
     \/ ~InUse /\ Passes("connect", "wait", "untell") /\ m' = TRUE /\ UNCHANGED s
  /\ UNCHANGED <<given, con, active, should_stop, receives, transmits, incoming>>

TellDisconnected ==
  /\ Enqueue("off")
  /\ Passes("connect", "untell", "top")
  /\ m' = FALSE
  /\ UNCHANGED <<given, con, active, should_stop, s, transmits, incoming>>

Connect ==
  ConnectTop \/ TryConnect \/ AfterTry \/ PauseEnds \/ TellConnected \/ AwaitThreads \/ TellDisconnected

-----------------------------------------------------------------------------
(* What receive_thread() and transmit_thread() have in common *)

Active(t) == IF t = "receive" THEN receive_thread_active ELSE transmit_thread_active
SetInactive(t) ==
  /\ receive_thread_active' = (receive_thread_active /\ t # "receive")
  /\ transmit_thread_active' = (transmit_thread_active /\ t # "transmit")

\* Wait for a connection.
Idle(t, work) ==
  /\ ~m /\ t \notin s
  /\ \/ should_stop /\ Passes(t, "idle", "leaving") /\ UNCHANGED s
     \/ ~should_stop /\ Active(t) /\ Passes(t, "idle", work) /\ UNCHANGED s
     \/ ~should_stop /\ ~Active(t) /\ Passes(t, "idle", "idle") /\ s' = s \cup {t}
  /\ UNCHANGED <<given, con, active, should_stop, m, receives, transmits, incoming>>

\* con->shutdown() so that the other thread finds out as well.
Shutdown(t) ==
  /\ Passes(t, "shutdown", "unset")
  /\ con' = "down"
  /\ UNCHANGED <<given, active, should_stop, m, s, receives, transmits, incoming>>

\* Mutant: the broadcast is forgotten.
WokenMutant == s
Woken == {}

LetGo(t) ==
  /\ ~m
  /\ Passes(t, "unset", "idle") \/ Passes(t, "leaving", "ended")
  /\ SetInactive(t)
  /\ s' = Woken
  /\ UNCHANGED <<given, con, should_stop, m, receives, transmits, incoming>>

-----------------------------------------------------------------------------
(* receive_thread() *)

\* in.peek() blocks until something comes or the connection is broken; an object
\* that cannot be deserialized ends the connection.
Read ==
  /\ \/ incoming > 0 /\ incoming' = incoming - 1
        /\ Passes("receive", "read", IF "receive" \in pipes THEN "enqueue" ELSE "read")
     \/ incoming > 0 /\ incoming' = incoming - 1
        /\ "receive" \in pipes /\ Passes("receive", "read", "shutdown")
     \/ con = "down" /\ Passes("receive", "read", "shutdown") /\ UNCHANGED incoming
  /\ UNCHANGED <<given, con, active, should_stop, m, s, receives, transmits>>

EnqueueReceived ==
  /\ Enqueue("item")
  /\ Passes("receive", "enqueue", "read")
  /\ UNCHANGED <<given, con, active, should_stop, m, s, transmits, incoming>>

Receive ==
  Idle("receive", "read") \/ Read \/ EnqueueReceived \/ Shutdown("receive") \/ LetGo("receive")

-----------------------------------------------------------------------------
(* transmit_thread() *)

\* dequeue_or_timeout(): an object is flushed unless others wait behind it; an
\* object that cannot be serialized ends the connection.  Without one a keepalive
\* byte is sent, after a pause if dequeue_or_timeout() does not take its time.
Take ==
  LET takes == "transmit" \in pipes /\ dequeue_enabled /\ transmit_pipe > 0 IN
  /\ transmit_pipe' = IF takes THEN transmit_pipe - 1 ELSE transmit_pipe
  /\ \/ takes /\ Passes("transmit", "take", "write") /\ UNCHANGED buffered
     \/ takes /\ Passes("transmit", "take", "last") /\ UNCHANGED buffered
     \/ takes /\ transmit_pipe' > 0 /\ buffered < BufferMax
        /\ Passes("transmit", "take", "take") /\ buffered' = buffered + 1
     \/ ~takes /\ UNCHANGED buffered
        /\ Passes("transmit", "take",
                  IF "transmit" \in pipes /\ dequeue_enabled THEN "write" ELSE "pause")
  /\ UNCHANGED <<given, con, active, should_stop, m, s, receives, dequeue_enabled, saved, incoming>>

\* The pause, timed, begins under m with the question whether to stop.
Pause ==
  /\ ~m
  /\ Passes("transmit", "pause", IF should_stop THEN "last" ELSE "write")
  /\ UNCHANGED <<given, con, active, should_stop, m, s, receives, transmits, incoming>>

\* Flushes block while the other program does not read.  "last" is the flush when
\* the stream buffer is destroyed.
WriteSucceeds ==
  /\ con = "up"
  /\ Passes("transmit", "write", "take") \/ Passes("transmit", "last", "shutdown")
  /\ buffered' = 0
  /\ UNCHANGED <<given, con, active, should_stop, m, s, receives, transmit_pipe, dequeue_enabled, saved, incoming>>

WriteFails ==
  /\ con = "down"
  /\ Passes("transmit", "write", "shutdown") \/ Passes("transmit", "last", "shutdown")
  /\ buffered' = 0
  /\ UNCHANGED <<given, con, active, should_stop, m, s, receives, transmit_pipe, dequeue_enabled, saved, incoming>>

Transmit ==
  Idle("transmit", "take") \/ Take \/ Pause \/ WriteFails \/ Shutdown("transmit") \/ LetGo("transmit")

-----------------------------------------------------------------------------
(* ~impl_bridge() *)

Stop ==
  /\ Passes("destructor", "alive", "disable")
  /\ should_stop' = TRUE
  /\ UNCHANGED <<given, con, active, m, s, receives, transmits, incoming>>

\* Mutant: the pipe that the connection thread may be blocked on stays enabled.
StillEnabledMutant == enqueue_enabled
StillEnabled == enqueue_enabled /\ "receive" \notin pipes

\* Only then is m taken: connect_thread() may hold it while it enqueues.
DisablePipes ==
  /\ Passes("destructor", "disable", "lock")
  /\ saved' = dequeue_enabled
  /\ dequeue_enabled' = (dequeue_enabled /\ "transmit" \notin pipes)
  /\ enqueue_enabled' = StillEnabled
  /\ UNCHANGED <<given, con, active, should_stop, m, s, receive_pipe, seen, transmit_pipe, buffered, incoming>>

ShutdownConnection ==
  /\ ~m
  /\ Passes("destructor", "lock", "wait")
  /\ s' = {}
  /\ con' = IF con = "up" THEN "down" ELSE con
  /\ UNCHANGED <<given, active, should_stop, m, receives, transmits, incoming>>

AllEnded == \A t \in {"connect", "receive", "transmit"} : place[t] = "ended"

DestructorEnds ==
  /\ AllEnded
  /\ Passes("destructor", "wait", "done")
  /\ dequeue_enabled' = saved /\ enqueue_enabled' = TRUE
  /\ UNCHANGED <<given, con, active, should_stop, m, s, receive_pipe, seen, transmit_pipe, buffered, saved, incoming>>

Destructor == DisablePipes \/ ShutdownConnection \/ DestructorEnds

-----------------------------------------------------------------------------
(* The user of the pipes, until the bridge is destroyed, and the other program *)

UserDequeues ==
  /\ place["destructor"] = "alive" /\ receive_pipe # <<>>
  /\ seen' = Head(receive_pipe) /\ receive_pipe' = Tail(receive_pipe)
  /\ UNCHANGED <<given, con, active, should_stop, m, s, place, enqueue_enabled, transmits, incoming>>

\* The receive pipe stays enabled, or the user would not see every status.
UserTransmits ==
  /\ place["destructor"] = "alive" /\ "transmit" \in pipes
  /\ \/ transmit_pipe < TransmitMax /\ transmit_pipe' = transmit_pipe + 1 /\ UNCHANGED dequeue_enabled
     \/ dequeue_enabled' = ~dequeue_enabled /\ UNCHANGED transmit_pipe
  /\ UNCHANGED <<given, con, active, should_stop, m, s, place, receives, buffered, saved, incoming>>

Other ==
  /\ con = "up"
  /\ \/ incoming < WireMax /\ incoming' = incoming + 1 /\ UNCHANGED con
     \/ con' = "down" /\ UNCHANGED incoming
  /\ UNCHANGED <<given, active, should_stop, m, s, place, receives, transmits>>

BridgeNext ==
  \/ Connect \/ Receive \/ Transmit \/ WriteSucceeds
  \/ Stop \/ Destructor
  \/ UserDequeues \/ UserTransmits \/ Other

\* Threads go on, the user empties the receive pipe while there is a bridge.  The
\* other program need not read: a write returns only if it does, or breaks off.
BridgeFairness ==
  /\ WF_bridge(Connect) /\ WF_bridge(Receive) /\ WF_bridge(Transmit)
  /\ WF_bridge(Destructor) /\ WF_bridge(UserDequeues)

BridgeSpec == BridgeInit /\ [][BridgeNext]_bridge
BridgeFairSpec == BridgeSpec /\ BridgeFairness

-----------------------------------------------------------------------------
(* Properties *)

\* The user sees connected, objects, disconnected, connected, ...: each object
\* between the statuses of its connection, although two threads enqueue them.
StatusesBracketObjects ==
  LET stream == <<seen>> \o receive_pipe IN
  \A i \in 1..Len(receive_pipe) : (stream[i] = "off") <=> (stream[i + 1] = "on")

Working(t) == place[t] \in {"read", "enqueue", "take", "pause", "write", "last", "shutdown"}

\* "This way we don't invalidate the con pointer while it is in use" (bridge.h):
\* a connection is not replaced under a thread, and no thread works without one.
ConnectionIsStable ==
  /\ place["connect"] \in {"connected", "tell", "untell"} => ~Working("receive") /\ ~Working("transmit")
  /\ \A t \in {"receive", "transmit"} : Working(t) => Active(t) /\ con # "none"

\* The destructor ends all threads, whatever they are blocked on, although the
\* other program may have stopped reading and nobody empties the receive pipe.
DestructorReturns ==
  (place["destructor"] # "alive") ~> (place["destructor"] = "done")

\* A broken connection is given up by both threads, so that another can be made.
BrokenIsGivenUp ==
  (place["connect"] = "wait" /\ con = "down") ~> (place["connect"] # "wait")
=============================================================================
