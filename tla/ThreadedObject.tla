---------------------------- MODULE ThreadedObject ----------------------------
(***************************************************************************)
(* dlib::threaded_object (threads/threaded_object_extension.h and .cpp):   *)
(* an object with a virtual function thread() that one thread at a time    *)
(* runs, that clients start, restart, pause and stop, and wait for.        *)
(*                                                                         *)
(* The state is that of every object of the program, since timers and      *)
(* their clock (module Timer) are such objects.  An action is a call from  *)
(* the lock of m_ to its release, by returning or by s.wait().             *)
(* create_new_thread() is external: it fails, or thread_helper() is called *)
(* once (JobsStartOnce of Threader).                                       *)
(***************************************************************************)
EXTENDS Integers, FiniteSets

CONSTANTS Objects, Clients, None

ASSUME ThreadedAssumption == Objects \cap Clients = {} /\ None \notin Objects

VARIABLES
  is_alive_, is_running_, should_stop_, should_respawn_,
  at,        \* where the thread of each object is in thread_helper()
  s,         \* who sleeps on each object's signaler, the object for its thread
  inwait,    \* the object whose wait() each client is in
  owed       \* history: a run of thread() was asked for and has not begun

flags == <<is_alive_, is_running_, should_stop_, should_respawn_>>
objectVars == <<flags, at, s, inwait, owed>>

\* f with value v for all members of R.
With(f, R, v) == [x \in DOMAIN f |-> IF x \in R THEN v ELSE f[x]]

\* The constructor does not set should_respawn_, but thread_helper() does before
\* anything here reads it.
ObjectInit ==
  /\ is_alive_ = [o \in Objects |-> FALSE]
  /\ is_running_ = [o \in Objects |-> FALSE]
  /\ should_stop_ = [o \in Objects |-> FALSE]
  /\ should_respawn_ = [o \in Objects |-> FALSE]
  /\ at = [o \in Objects |-> "none"]
  /\ s = [o \in Objects |-> {}]
  /\ inwait = [c \in Clients |-> None]
  /\ owed = [o \in Objects |-> FALSE]

-----------------------------------------------------------------------------
(* The calls of clients *)

\* Mutant: a paused object is taken for one without a thread.
NeedsThreadMutant(o) == ~is_running_[o]
NeedsThread(o) == ~is_alive_[o]

\* What start() and restart() of the objects R do when threads can be made.  A
\* second thread for an object would be a state of its own.
Launch(R) ==
  /\ at' = [o \in Objects |-> IF o \notin R \/ ~NeedsThread(o) THEN at[o]
                              ELSE IF at[o] = "none" THEN "begin" ELSE "two threads"]
  /\ is_alive_' = With(is_alive_, R, TRUE)
  /\ is_running_' = With(is_running_, R, TRUE)
  /\ should_stop_' = With(should_stop_, R, FALSE)
  /\ s' = With(s, R, {})
  /\ UNCHANGED inwait

LaunchFails(o) ==
  /\ NeedsThread(o)
  /\ is_running_' = With(is_running_, {o}, FALSE)
  /\ UNCHANGED <<is_alive_, should_stop_, should_respawn_, at, s, inwait, owed>>

start(o) == Launch({o}) /\ UNCHANGED <<should_respawn_, owed>>

\* Mutant: the running thread is not asked to run again.
RespawnAfterMutant(o) == FALSE
RespawnAfter(o) == is_alive_[o]

restart(R) ==
  /\ Launch(R)
  /\ should_respawn_' = [o \in Objects |-> IF o \in R THEN RespawnAfter(o) ELSE should_respawn_[o]]
  /\ owed' = With(owed, R, TRUE)

set_respawn(o) ==
  /\ should_respawn_' = With(should_respawn_, {o}, TRUE)
  /\ owed' = With(owed, {o}, is_alive_[o])
  /\ UNCHANGED <<is_alive_, is_running_, should_stop_, at, s, inwait>>

pause(o) ==
  /\ is_running_' = With(is_running_, {o}, FALSE)
  /\ UNCHANGED <<is_alive_, should_stop_, should_respawn_, at, s, inwait, owed>>

stop(o) ==
  /\ should_stop_' = With(should_stop_, {o}, TRUE)
  /\ is_running_' = With(is_running_, {o}, FALSE)
  /\ should_respawn_' = With(should_respawn_, {o}, FALSE)
  /\ s' = With(s, {o}, {})
  /\ owed' = With(owed, {o}, FALSE)
  /\ UNCHANGED <<is_alive_, at, inwait>>

\* Mutant: asks whether the object runs, not whether it has a thread.
KeepsWaitingMutant(o) == is_running_[o]
KeepsWaiting(o) == is_alive_[o]

\* wait() from the test of its loop on.
WaitFrom(c, o) ==
  /\ IF KeepsWaiting(o)
     THEN s' = [s EXCEPT ![o] = @ \cup {c}] /\ inwait' = [inwait EXCEPT ![c] = o]
     ELSE inwait' = [inwait EXCEPT ![c] = None] /\ UNCHANGED s
  /\ UNCHANGED <<flags, at, owed>>

\* Also the beginning of a wait() that another function has called.
WaitWakes(c) == inwait[c] # None /\ c \notin s[inwait[c]] /\ WaitFrom(c, inwait[c])

-----------------------------------------------------------------------------
(* thread_helper() *)

Goes(o, where) == at' = [at EXCEPT ![o] = where]

BeginRun(o) ==
  /\ at[o] = "begin"
  /\ should_respawn_' = With(should_respawn_, {o}, FALSE)
  /\ owed' = With(owed, {o}, FALSE)
  /\ Goes(o, "run")
  /\ UNCHANGED <<is_alive_, is_running_, should_stop_, s, inwait>>

\* thread() returns.
EndRun(o) ==
  /\ at[o] = "run"
  /\ Goes(o, "end")
  /\ UNCHANGED <<flags, s, inwait, owed>>

\* Mutant: whoever waits for the end is not told of it.
TellMutant(sleepers) == sleepers
Tell(sleepers) == {}

AfterRun(o) ==
  /\ at[o] = "end"
  /\ \/ /\ should_respawn_[o]
        /\ Goes(o, "begin")
        /\ UNCHANGED <<flags, s>>
     \/ /\ ~should_respawn_[o]
        /\ Goes(o, "none")
        /\ is_alive_' = With(is_alive_, {o}, FALSE)
        /\ is_running_' = With(is_running_, {o}, FALSE)
        /\ should_stop_' = With(should_stop_, {o}, FALSE)
        /\ s' = With(s, {o}, Tell(s[o]))
        /\ UNCHANGED should_respawn_
  /\ UNCHANGED <<inwait, owed>>

\* thread() asks should_stop(), and returns when it is told to.
ShouldStop(o) ==
  /\ at[o] = "run" \/ (at[o] = "paused" /\ o \notin s[o])
  /\ IF ~is_running_[o] /\ ~should_stop_[o]
     THEN s' = [s EXCEPT ![o] = @ \cup {o}] /\ Goes(o, "paused")
     ELSE UNCHANGED s /\ Goes(o, IF should_stop_[o] THEN "end" ELSE "run")
  /\ UNCHANGED <<flags, inwait, owed>>

-----------------------------------------------------------------------------
(* A program whose clients use the objects directly *)

ClientCalls(c, o) ==
  /\ inwait[c] = None
  /\ \/ start(o) \/ restart({o}) \/ LaunchFails(o) \/ set_respawn(o)
     \/ pause(o) \/ stop(o) \/ WaitFrom(c, o)

thread_helper(o) == BeginRun(o) \/ AfterRun(o)

ObjectNext ==
  \/ \E c \in Clients : WaitWakes(c) \/ \E o \in Objects : ClientCalls(c, o)
  \/ \E o \in Objects : thread_helper(o) \/ ShouldStop(o) \/ EndRun(o)

ObjectSpec == ObjectInit /\ [][ObjectNext]_objectVars

-----------------------------------------------------------------------------
(* Properties *)

\* thread() "is only executed in one thread at a time" (abstract header): an
\* object has a thread exactly while it is alive, through restarts, pauses and
\* stops at any moment, and only an object with a thread is running.
OneThread ==
  \A o \in Objects :
    /\ is_alive_[o] <=> at[o] \in {"begin", "run", "paused", "end"}
    /\ ~is_alive_[o] <=> at[o] = "none"
    /\ is_running_[o] => is_alive_[o]

\* A run that restart() or set_respawn() asked for is never forgotten, wherever
\* the thread is: it has yet to begin thread(), or it will see should_respawn_.
RestartKept ==
  \A o \in Objects :
    owed[o] => \/ at[o] = "begin"
               \/ at[o] \in {"run", "paused", "end"} /\ should_respawn_[o]

\* Nobody sleeps on a signaler without a reason.
NoLostWakeup ==
  \A o \in Objects : \A x \in s[o] :
    IF x = o THEN ~is_running_[o] /\ ~should_stop_[o] ELSE is_alive_[o]
=============================================================================
