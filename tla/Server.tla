-------------------------------- MODULE Server --------------------------------
(***************************************************************************)
(* dlib::server (server/server_kernel.h and .cpp): a listener that gives   *)
(* every connection a thread, up to a limit, and clear(), which ends all   *)
(* of it and may be called from any thread, and by the listener when it    *)
(* fails.                                                                  *)
(*                                                                         *)
(* Five mutexes guard five parts of the state and none is held for long:   *)
(* an action is what happens under one of them.  The threads in start(),   *)
(* and those that start_async() makes, are the Listeners: one is in the    *)
(* loop, and those that failed before may still be in clear().  Sockets    *)
(* are external: accept() delivers a connection, times out or fails.       *)
(* Failures of memory allocation are left out.                             *)
(***************************************************************************)
EXTENDS Integers, FiniteSets

CONSTANTS
  Conns,         \* connection objects
  Clients, Listeners,
  None,
  Maxima,        \* arguments of set_max_connections()
  DefaultMax     \* 1000 in the code

ASSUME ServerAssumption ==
  /\ IsFiniteSet(Conns) /\ None \notin Conns
  /\ Listeners \cap Clients = {} /\ None \notin Listeners
  /\ Maxima \subseteq Nat /\ DefaultMax \in Nat \ {0}

Callers == Clients \cup Listeners   \* of clear()

VARIABLES
  running, shutting_down, cons, thread_count, max_connections,
  conn,          \* the life of each connection object
  shut,          \* history: those that were shutdown() before on_connect() returned
  thread,        \* the listener in the loop, which is `at` a place in it
  at, client,    \* with its variable `client`, None once it is given away
  failed,        \* and will throw
  tested,        \* history: the limit it last compared with, 0 for none
  async,         \* the listener that async_start_thread owns, until it ends
  joining,       \* the one start_async() waits for, with running_mutex held
  clearing,      \* where each caller is in clear()
  limit_sig, zero_sig, running_sig   \* who sleeps on each signaler

sigs == <<limit_sig, zero_sig, running_sig>>
starting == <<async, joining>>
listener == <<thread, at, client, failed, tested, starting>>
connections == <<conn, shut, cons>>
vars == <<running, shutting_down, thread_count, max_connections, connections, listener, clearing, sigs>>

Init ==
  /\ running = FALSE /\ shutting_down = FALSE
  /\ cons = {} /\ thread_count = 0 /\ max_connections = DefaultMax
  /\ conn = [k \in Conns |-> "none"] /\ shut = {}
  /\ thread = None /\ at = "off" /\ client = None /\ failed = FALSE /\ tested = 0
  /\ async = None /\ joining = None
  /\ clearing = [x \in Callers |-> "no"]
  /\ limit_sig = {} /\ zero_sig = {} /\ running_sig = {}

Becomes(k, state) ==
  /\ conn' = [conn EXCEPT ![k] = state]
  /\ shut' = IF state \in {"closing", "none"} THEN shut \ {k} ELSE shut

\* Mutant: the set keeps the connection.
ForgetMutant(k) == cons
Forget(k) == cons \ {k}

-----------------------------------------------------------------------------
(* start() and start_async(): the listener *)

HasThread(k) == conn[k] \in {"served", "closing"}

\* Only `running` is asked, which a failed listener resets before its clear().
\* start() is called when the server does not run, as its contract says: that
\* it is still so when open_listening_socket() sets `running` is assumed.
\* The listener begins without a look at the limit.
Begin(l) ==
  /\ ~running /\ clearing[l] = "no"
  /\ running' = TRUE
  /\ thread' = l /\ at' = "accept"
  /\ tested' = IF \E k \in Conns : HasThread(k) THEN 0 ELSE max_connections
  /\ UNCHANGED <<shutting_down, thread_count, max_connections, connections, client, failed, clearing, sigs>>

Start(l) ==
  /\ Begin(l)
  /\ UNCHANGED starting

\* The new thread is made first; then the destructor of the old thread_function
\* waits for the old one, which may be in clear().
StartAsync(l) ==
  /\ Begin(l)
  /\ async' = l
  /\ joining' = async

\* The old thread has ended: start_async() returns and unlocks running_mutex.
AsyncStarted ==
  /\ joining # None /\ clearing[joining] = "no"
  /\ joining' = None
  /\ UNCHANGED <<running, shutting_down, thread_count, max_connections, connections,
                 thread, at, client, failed, tested, async, clearing, sigs>>

\* start_async() cannot make the thread: `running` stays set.
NoThread ==
  /\ ~running
  /\ running' = TRUE
  /\ UNCHANGED <<shutting_down, thread_count, max_connections, connections, listener, clearing, sigs>>

\* open_listening_socket() fails.
StartFails ==
  /\ ~running
  /\ max_connections' = DefaultMax
  /\ UNCHANGED <<running, shutting_down, thread_count, connections, listener, clearing, sigs>>

\* A listener that start_async() made has to take running_mutex before.
Accept ==
  /\ at = "accept" /\ joining = None
  /\ \/ \* a connection
        \E k \in Conns : conn[k] = "none" /\ Becomes(k, "accepted")
                         /\ client' = k /\ at' = "check" /\ UNCHANGED failed
     \/ \* timeout
        at' = "check" /\ client' = None /\ UNCHANGED <<conn, shut, failed>>
     \/ \* error
        at' = "close" /\ failed' = TRUE /\ UNCHANGED <<conn, shut, client>>
  /\ UNCHANGED <<running, shutting_down, cons, thread_count, max_connections, thread, tested, starting,
                 clearing, sigs>>

Check ==
  /\ at = "check"
  /\ at' = IF shutting_down THEN "close" ELSE IF client = None THEN "accept" ELSE "add"
  /\ IF shutting_down /\ client # None
     THEN Becomes(client, "none") /\ client' = None
     ELSE UNCHANGED <<conn, shut, client>>
  /\ UNCHANGED <<running, shutting_down, cons, thread_count, max_connections, thread, failed, tested, starting,
                 clearing, sigs>>

Add ==
  /\ at = "add"
  /\ cons' = cons \cup {client}
  /\ at' = "create"
  /\ UNCHANGED <<running, shutting_down, thread_count, max_connections, conn, shut, thread, client, failed,
                 tested, starting,
                 clearing, sigs>>

CreateThread ==
  /\ at = "create"
  /\ client' = None
  /\ \/ /\ Becomes(client, "served")
        /\ at' = "count"
        /\ UNCHANGED <<cons, failed>>
     \/ /\ Becomes(client, "none")
        /\ cons' = Forget(client)
        /\ at' = "close" /\ failed' = TRUE
  /\ UNCHANGED <<running, shutting_down, thread_count, max_connections, thread, tested, starting, clearing, sigs>>

\* Mutant: a server that shuts down does not count any more.
CountedMutant(n) == IF shutting_down THEN n ELSE n + 1
Counted(n) == n + 1

\* Mutant: nobody is told when the last one leaves.
TellsZeroMutant(n) == n < 0
TellsZero(n) == n = 0

CountThread ==
  /\ at = "count"
  /\ thread_count' = Counted(thread_count)
  /\ zero_sig' = IF TellsZero(thread_count') THEN {} ELSE zero_sig
  /\ at' = "limit"
  /\ UNCHANGED <<running, shutting_down, max_connections, connections, thread, client, failed, tested, starting,
                 clearing, limit_sig, running_sig>>

\* Mutant: off by one.
AtLimitMutant == thread_count > max_connections
AtLimit == thread_count >= max_connections

\* The test of max_connections # 0 comes once, before the loop.
Limit ==
  /\ \/ /\ at = "limit"
        /\ IF max_connections # 0 /\ AtLimit THEN at' = "wait" ELSE at' = "accept"
     \/ /\ at = "wait" /\ limit_sig = {}
        /\ at' = IF shutting_down THEN "close" ELSE IF AtLimit THEN "wait" ELSE "accept"
  /\ limit_sig' = IF at' = "wait" THEN {thread} ELSE {}
  /\ tested' = max_connections
  /\ UNCHANGED <<running, shutting_down, thread_count, max_connections, connections, thread, client, failed, starting,
                 clearing, zero_sig, running_sig>>

\* What async_start_thread owns after thread l has ended.
OwnedAfter(l) == IF async = l THEN None ELSE async

\* After an error the listener calls clear(), and throws when that returns.
CloseListener ==
  /\ at = "close"
  /\ running' = FALSE /\ running_sig' = {}
  /\ thread' = None /\ at' = "off" /\ failed' = FALSE /\ tested' = 0
  /\ IF failed
     THEN clearing' = [clearing EXCEPT ![thread] = "begin"] /\ UNCHANGED async
     ELSE async' = OwnedAfter(thread) /\ UNCHANGED clearing
  /\ UNCHANGED <<shutting_down, thread_count, max_connections, connections, client, joining, limit_sig, zero_sig>>

ListenerStep ==
  Accept \/ Check \/ Add \/ CreateThread \/ CountThread \/ Limit \/ CloseListener

-----------------------------------------------------------------------------
(* service_connection(): the thread of connection k *)

\* on_connect() returns, at the latest when its connection is shutdown().
OnConnectReturns(k) ==
  /\ conn[k] = "served"
  /\ Becomes(k, "closing")
  /\ cons' = Forget(k)
  /\ UNCHANGED <<running, shutting_down, thread_count, max_connections, listener, clearing, sigs>>

\* The connection has been closed and the thread ends.
ThreadEnds(k) ==
  /\ conn[k] = "closing"
  /\ Becomes(k, "none")
  /\ thread_count' = thread_count - 1
  /\ limit_sig' = {}
  /\ zero_sig' = IF TellsZero(thread_count') THEN {} ELSE zero_sig
  /\ UNCHANGED <<running, shutting_down, max_connections, cons, listener, clearing, running_sig>>

-----------------------------------------------------------------------------
(* Calls of clients *)

\* It wakes nobody.
set_max_connections(m) ==
  /\ max_connections' = m
  /\ UNCHANGED <<running, shutting_down, thread_count, connections, listener, clearing, sigs>>

clear(x) ==
  /\ x \in Clients /\ clearing[x] = "no"
  /\ clearing' = [clearing EXCEPT ![x] = "begin"]
  /\ UNCHANGED <<running, shutting_down, thread_count, max_connections, connections, listener, sigs>>

\* clear() of caller x goes from one step to the next.
Goes(x, from, to) == clearing[x] = from /\ clearing' = [clearing EXCEPT ![x] = to]

ClearBegins(x) ==
  /\ Goes(x, "begin", "reset")
  /\ shutting_down' = TRUE
  /\ UNCHANGED <<running, thread_count, max_connections, connections, listener, sigs>>

ClearResets(x) ==
  /\ Goes(x, "reset", "sweep")
  /\ max_connections' = DefaultMax
  /\ UNCHANGED <<running, shutting_down, thread_count, connections, listener, sigs>>

ClearSweeps(x) ==
  /\ Goes(x, "sweep", "zero")
  /\ shut' = shut \cup cons
  /\ cons' = {}
  /\ UNCHANGED <<running, shutting_down, thread_count, max_connections, conn, listener, sigs>>

AwaitZero(x) ==
  /\ x \notin zero_sig
  /\ IF thread_count > 0
     THEN Goes(x, "zero", "zero") /\ zero_sig' = zero_sig \cup {x}
     ELSE Goes(x, "zero", "running") /\ UNCHANGED zero_sig
  /\ UNCHANGED <<running, shutting_down, thread_count, max_connections, connections, listener, limit_sig,
                 running_sig>>

\* running_mutex has to be free.
AwaitListener(x) ==
  /\ x \notin running_sig /\ joining = None
  /\ IF running
     THEN Goes(x, "running", "running") /\ running_sig' = running_sig \cup {x}
     ELSE Goes(x, "running", "end") /\ UNCHANGED running_sig
  /\ UNCHANGED <<running, shutting_down, thread_count, max_connections, connections, listener, limit_sig, zero_sig>>

ClearEnds(x) ==
  /\ Goes(x, "end", "no")
  /\ shutting_down' = FALSE
  /\ async' = OwnedAfter(x)
  /\ UNCHANGED <<running, thread_count, max_connections, connections, thread, at, client, failed, tested,
                 joining, sigs>>

ClearStep(x) ==
  \/ ClearBegins(x) \/ ClearResets(x) \/ ClearSweeps(x)
  \/ AwaitZero(x) \/ AwaitListener(x) \/ ClearEnds(x)

-----------------------------------------------------------------------------

Next ==
  \/ \E l \in Listeners : Start(l) \/ StartAsync(l)
  \/ AsyncStarted \/ NoThread \/ StartFails
  \/ ListenerStep
  \/ \E k \in Conns : OnConnectReturns(k) \/ ThreadEnds(k)
  \/ \E m \in Maxima : set_max_connections(m)
  \/ \E x \in Callers : clear(x) \/ ClearStep(x)

\* accept() returns within a second; on_connect() returns when its connection is
\* shutdown(), as its contract says, and else only if it likes.
Fairness ==
  /\ WF_vars(ListenerStep) /\ WF_vars(AsyncStarted)
  /\ \A k \in Conns : WF_vars((k \in shut /\ OnConnectReturns(k)) \/ ThreadEnds(k))
  /\ \A x \in Callers : WF_vars(ClearStep(x))

Spec == Init /\ [][Next]_vars
FairSpec == Spec /\ Fairness

-----------------------------------------------------------------------------
(* Properties *)

\* thread_count is the number of threads of connections, but for one between
\* its creation and its being counted, which may even have ended: the count is
\* -1 then.  With the failure of create_new_thread() and clear() at any time.
ThreadCountExact ==
  thread_count = Cardinality({k \in Conns : HasThread(k)}) - (IF at = "count" THEN 1 ELSE 0)

\* "cons == a set containing all open connections" (server_kernel.h), as far as
\* it is true: no connection that has been or is being deleted is in it, or
\* clear() would shut it down, and one that is served is in it or is shut down.
ConsAreOpen ==
  /\ \A k \in cons : conn[k] \in {"accepted", "served"}
  /\ \A k \in Conns : conn[k] = "served" => k \in cons \/ k \in shut

\* The limit was lowered since the listener compared thread_count with it, or is
\* one that it has not compared with: after a timeout it does not compare again.
Lowered == max_connections # 0 /\ (tested = 0 \/ max_connections < tested)

\* The limit was raised or removed since then.
Raised == max_connections = 0 \/ max_connections > tested

\* While the listener is in accept(), after a connection, after a timeout or at
\* the start, fewer connections have a thread than max_connections allows, unless
\* the limit was Lowered: then it may accept one connection more.
AcceptsBelowLimit ==
  at = "accept" /\ max_connections # 0 /\ ~Lowered =>
    Cardinality({k \in Conns : HasThread(k)}) < max_connections

\* Nobody sleeps on after what it waits for has happened: clear() for the
\* threads and the listener to end, the listener "for thread_count to be less
\* than max_connections", except that a limit that is Raised wakes nobody.
NoLostWakeup ==
  /\ zero_sig # {} => thread_count > 0
  /\ running_sig # {} => running
  /\ limit_sig # {} /\ ~Raised => thread_count >= max_connections

\* What clear() does not survive.  start_async() waits for a failed listener that
\* still needs running_mutex for its own clear().
AsyncHangs == joining # None /\ clearing[joining] \notin {"end", "no"}

\* start_async() threw and left `running` set.
NobodyListens == running /\ at = "off"

\* The limit was removed under a waiting listener, which found thread_count >= 0,
\* and no thread is left to wake it.
SleepsForEver == limit_sig # {} /\ thread_count = 0

Past(x) == clearing[x] \in {"zero", "running"}

\* clear() returns, also that of a listener that failed, when the server is not
\* started again and again, unless it meets one of the three cases above, a
\* connection was added to cons behind its back, or another clear() has reset
\* shutting_down and the server was started then.
ClearReturns ==
  <>[][~\E l \in Listeners : Start(l) \/ StartAsync(l)]_vars =>
    \A x \in Callers :
      []<>(\/ ~Past(x)
           \/ AsyncHangs \/ NobodyListens \/ SleepsForEver
           \/ ~shutting_down
           \/ \E k \in Conns : conn[k] = "served" /\ k \notin shut)

\* "blocks until all calls to on_connect() have finished" (abstract header): when
\* clear() returns none is running.  Violated.
NoCallOutlivesClear ==
  [][\A x \in Callers : clearing[x] = "end" /\ clearing'[x] = "no" =>
       \A k \in Conns : conn[k] # "served"]_vars
=============================================================================
