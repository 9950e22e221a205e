-------------------------------- MODULE Timer --------------------------------
(***************************************************************************)
(* dlib::timer and its global clock (timer/timer.h, timer/timer.cpp).      *)
(*                                                                         *)
(* The clock and every timer are threaded_objects.  The thread of the      *)
(* clock sleeps until the first due time and restarts the timers that are  *)
(* due; the thread of a timer runs the action function and puts the timer  *)
(* back into the clock.  All of it is done under the mutex gc->m: an       *)
(* action is what happens from its lock to its release.                    *)
(*                                                                         *)
(* Time passes in Tick.  due[t] and sleep are what is left until then, so  *)
(* that no time is absolute; a timer is at most MaxLate ticks overdue.     *)
(* The failure of create_new_thread() in the clock is left out: start()    *)
(* passes it to the caller and changes nothing, and in restart() it ends   *)
(* the program.                                                            *)
(*                                                                         *)
(* A program uses timers, or threaded_objects on their own.                *)
(***************************************************************************)
EXTENDS ThreadedObject, FiniteSetsExt

CONSTANTS
  Timers, Clock, Plain,   \* the objects: timers, the global clock, another one
  Delays,                 \* arguments of set_delay_time(), in ticks
  DefaultDelay,           \* 1000 milliseconds
  Idle,                   \* how long the clock sleeps without timers
  MaxLate

ASSUME TimerAssumption ==
  /\ Objects = Timers \cup {Clock, Plain} /\ Clock \notin Timers /\ Plain \notin Timers \cup {Clock}
  /\ Idle \in Nat /\ Delays \cup {DefaultDelay} \subseteq 0..Idle
  /\ MaxLate \in Nat
  /\ None \notin Int

VARIABLES
  program,    \* what the program uses: "timers" or "objects"
  running, delay,
  due,        \* next_time_to_run, or None when not in_global_clock
  sleep,      \* what is left of the clock's wait_or_timeout(), 0 when awake
  shutdown,
  gone        \* the timers that have been destroyed

timerVars == <<program, running, delay, due, sleep, shutdown, gone>>
vars == <<objectVars, timerVars>>

Init ==
  /\ ObjectInit
  /\ program \in {"timers", "objects"}
  /\ running = [t \in Timers |-> FALSE]
  /\ delay = [t \in Timers |-> DefaultDelay]
  /\ due = [t \in Timers |-> None]
  /\ sleep = 0 /\ shutdown = FALSE
  /\ gone = {}

-----------------------------------------------------------------------------
(* timer_global_clock *)

Scheduled == {t \in Timers : due[t] # None}

\* Mutant: an empty queue is taken for one whose timer comes first.
ComesFirstMutant(t, d) == \E u \in Scheduled \ {t} : d < due[u]
\* t, due after d, is before all others.
ComesFirst(t, d) == \A u \in Scheduled \ {t} : d < due[u]

\* The end of add() and adjust_delay(): t into the queue, the clock woken.
Schedule(t, d) ==
  /\ due' = [due EXCEPT ![t] = d]
  /\ sleep' = IF ComesFirst(t, d) THEN 0 ELSE sleep

remove(t) == due' = [due EXCEPT ![t] = None]

Due == {t \in Scheduled : due[t] <= 0}

\* One turn of the loop of the clock's thread().
ClockPass ==
  /\ at[Clock] = "run" /\ sleep = 0 /\ ~shutdown
  /\ restart({t \in Due : running[t]})
  /\ due' = With(due, Due, None)
  /\ sleep' = Min({due[t] : t \in Scheduled \ Due} \cup {Idle})
  /\ UNCHANGED <<running, delay, shutdown, gone, program>>

ClockEnds ==
  /\ sleep = 0 /\ shutdown
  /\ EndRun(Clock)
  /\ UNCHANGED timerVars

Tick ==
  /\ sleep > 0 \/ Scheduled # {}
  /\ \A t \in Scheduled : due[t] > -MaxLate
  /\ sleep' = IF sleep > 0 THEN sleep - 1 ELSE 0
  /\ due' = [t \in Timers |-> IF t \in Scheduled THEN due[t] - 1 ELSE None]
  /\ UNCHANGED <<objectVars, running, delay, shutdown, gone, program>>

\* The wait() that comes last, without gc->m; WaitWakes goes on with it.
ThenWait(c, o) ==
  /\ inwait' = [inwait EXCEPT ![c] = o]
  /\ UNCHANGED <<flags, at, s, owed>>

\* ~timer_global_clock(), at the end of the process, when no timer holds the
\* clock any more.
DestroyClock(c) ==
  /\ gone = Timers /\ ~shutdown
  /\ shutdown' = TRUE
  /\ sleep' = 0
  /\ ThenWait(c, Clock)
  /\ UNCHANGED <<running, delay, due, gone, program>>

-----------------------------------------------------------------------------
(* timer *)

\* Mutant: only a timer that is in the clock is put back.
GoesOnMutant(t) == running[t] /\ due[t] # None
GoesOn(t) == running[t]

\* thread() after the action function returned.  The clock has a thread: it
\* has started this one.
ActionReturns(t) ==
  /\ EndRun(t)
  /\ IF GoesOn(t) THEN Schedule(t, delay[t]) ELSE UNCHANGED <<due, sleep>>
  /\ UNCHANGED <<running, delay, shutdown, gone, program>>

StartTimer(t) ==
  /\ ~running[t]
  /\ running' = [running EXCEPT ![t] = TRUE]
  /\ Schedule(t, delay[t])
  /\ IF is_alive_[Clock] THEN UNCHANGED objectVars ELSE start(Clock)
  /\ UNCHANGED <<delay, shutdown, gone, program>>

\* adjust_delay(): the due time moves by the difference.
set_delay_time(t, d) ==
  /\ delay' = [delay EXCEPT ![t] = d]
  /\ IF t \in Scheduled THEN Schedule(t, due[t] - delay[t] + d) ELSE UNCHANGED <<due, sleep>>
  /\ UNCHANGED <<objectVars, running, shutdown, gone, program>>

Stopped(t) ==
  /\ running' = [running EXCEPT ![t] = FALSE]
  /\ remove(t)
  /\ UNCHANGED <<sleep, shutdown, program>>

StopTimer(t) == Stopped(t) /\ UNCHANGED <<objectVars, delay, gone>>

clear(t) ==
  /\ Stopped(t)
  /\ delay' = [delay EXCEPT ![t] = DefaultDelay]
  /\ UNCHANGED <<objectVars, gone>>

stop_and_wait(c, t) == Stopped(t) /\ ThenWait(c, t) /\ UNCHANGED <<delay, gone>>

\* ~timer().  Nobody else uses the timer any more.
DestroyTimer(c, t) ==
  /\ \A b \in Clients : inwait[b] # t
  /\ Stopped(t)
  /\ delay' = [delay EXCEPT ![t] = DefaultDelay]
  /\ gone' = gone \cup {t}
  /\ ThenWait(c, t)

TimerCalls(c) ==
  /\ inwait[c] = None
  /\ \/ \E t \in Timers \ gone :
          \/ StartTimer(t) \/ StopTimer(t) \/ clear(t)
          \/ stop_and_wait(c, t) \/ DestroyTimer(c, t)
          \/ \E d \in Delays : set_delay_time(t, d)
     \/ DestroyClock(c)

-----------------------------------------------------------------------------
(* The programs *)

ThreadOfTimer(t) == (thread_helper(t) /\ UNCHANGED timerVars) \/ ActionReturns(t)
ThreadOfClock == (thread_helper(Clock) /\ UNCHANGED timerVars) \/ ClockPass \/ ClockEnds
ThreadOfClient(c) == WaitWakes(c) /\ UNCHANGED timerVars

TimersNext ==
  /\ program = "timers"
  /\ \/ \E c \in Clients : TimerCalls(c) \/ ThreadOfClient(c)
     \/ \E t \in Timers : ThreadOfTimer(t)
     \/ ThreadOfClock \/ Tick

PlainNext ==
  /\ program = "objects"
  /\ \/ \E c \in Clients : ClientCalls(c, Plain) \/ WaitWakes(c)
     \/ thread_helper(Plain) \/ ShouldStop(Plain) \/ EndRun(Plain)
  /\ UNCHANGED timerVars

Next == TimersNext \/ PlainNext

\* Every thread that can run does, and actions return.  Time passes; strongly,
\* because the bound MaxLate stops it now and then, which the world does not.
Fairness ==
  /\ \A t \in Timers : WF_vars(ThreadOfTimer(t))
  /\ WF_vars(ThreadOfClock)
  /\ \A c \in Clients : WF_vars(ThreadOfClient(c))
  /\ SF_vars(Tick)

Spec == Init /\ [][Next]_vars
FairSpec == Spec /\ Fairness

-----------------------------------------------------------------------------
(* Properties *)

\* A timer is in the clock only while it runs, and a running timer is never
\* forgotten: it is in the clock, or its thread has still to come to the end of
\* an action and will put it back.  This is the convention of timer.h with what
\* it leaves out, across stop(), start() and due times that meet an action.
RunningTimersAreKept ==
  \A t \in Timers :
    /\ t \in Scheduled => running[t] /\ is_alive_[Clock]
    /\ running[t] /\ t \notin Scheduled =>
         at[t] \in {"begin", "run"} \/ (at[t] = "end" /\ should_respawn_[t])

\* The clock never sleeps past a due time, although timers are started, stopped
\* and given other delays while it sleeps, and it is not woken each time.
ClockWakesInTime == sleep > 0 => \A t \in Scheduled : sleep <= due[t]

\* When wait() returns the object has no thread, and a stopped timer without one
\* does not get one: no action runs after stop_and_wait() or the destructor.
QuietAfterWait ==
  [][ /\ \A c \in Clients :
           inwait[c] # None /\ inwait'[c] = None => at[inwait[c]] = "none"
      /\ \A t \in Timers : at[t] = "none" /\ ~running[t] => at'[t] = "none" ]_vars

\* A started timer runs its action, unless it is stopped before.
TimersFire ==
  \A t \in Timers : (running[t] /\ at[t] = "none") ~> (at[t] = "run" \/ ~running[t])
=============================================================================
