----------------------------- MODULE Timer_proofs -----------------------------
(***************************************************************************)
(* The safety properties of ThreadedObject and of Timer, for any numbers   *)
(* of objects, timers and clients and for all delays.                      *)
(*                                                                         *)
(* The first part is about threaded_objects: each operation is shown to    *)
(* preserve the conjunction of their properties, once, for the program of  *)
(* ObjectSpec and for that of Timer.                                       *)
(*                                                                         *)
(* In the second part the inductive invariant adds to them that the        *)
(* clock's thread lives as long as a timer runs, for which one must know   *)
(* that only the clock's destructor, which comes after those of all        *)
(* timers, can end it, and that no timer is paused.                        *)
(***************************************************************************)
EXTENDS Timer, WellFoundedInduction, NaturalsInduction, TLAPS

Places == {"none", "begin", "run", "paused", "end"}

ObjectType ==
  /\ is_alive_ \in [Objects -> BOOLEAN]
  /\ is_running_ \in [Objects -> BOOLEAN]
  /\ should_stop_ \in [Objects -> BOOLEAN]
  /\ should_respawn_ \in [Objects -> BOOLEAN]
  /\ owed \in [Objects -> BOOLEAN]
  /\ at \in [Objects -> Places]
  /\ s \in [Objects -> SUBSET (Objects \cup Clients)]
  /\ inwait \in [Clients -> Objects \cup {None}]

ObjectInv == ObjectType /\ OneThread /\ RestartKept /\ NoLostWakeup

LEMMA ObjectInitHolds == ObjectInit => ObjectInv
  BY DEF ObjectInit, ObjectInv, ObjectType, Places, OneThread, RestartKept, NoLostWakeup

-----------------------------------------------------------------------------
(* start() and restart() *)

\* What Launch leaves of the flags, for the objects in R and for the others.
LEMMA LaunchStep ==
  ASSUME ObjectType, OneThread, NEW R \in SUBSET Objects, Launch(R)
  PROVE  /\ is_alive_' = [o \in Objects |-> o \in R \/ is_alive_[o]]
         /\ is_running_' = [o \in Objects |-> o \in R \/ is_running_[o]]
         /\ should_stop_' = [o \in Objects |-> o \notin R /\ should_stop_[o]]
         /\ s' = [o \in Objects |-> IF o \in R THEN {} ELSE s[o]]
         /\ at' = [o \in Objects |-> IF o \in R /\ ~is_alive_[o] THEN "begin" ELSE at[o]]
         /\ inwait' = inwait
<1>1. /\ DOMAIN is_alive_ = Objects /\ DOMAIN is_running_ = Objects
      /\ DOMAIN should_stop_ = Objects /\ DOMAIN s = Objects
  BY DEF ObjectType
<1>2. \A o \in Objects : is_alive_[o] \in BOOLEAN /\ is_running_[o] \in BOOLEAN
                         /\ should_stop_[o] \in BOOLEAN
  BY DEF ObjectType
<1>3. is_alive_' = [o \in Objects |-> o \in R \/ is_alive_[o]]
  BY <1>1, <1>2, Zenon DEF Launch, With
<1>4. is_running_' = [o \in Objects |-> o \in R \/ is_running_[o]]
  BY <1>1, <1>2 DEF Launch, With
<1>5. should_stop_' = [o \in Objects |-> o \notin R /\ should_stop_[o]]
  BY <1>1, <1>2 DEF Launch, With
<1>6. at' = [o \in Objects |-> IF o \in R /\ ~is_alive_[o] THEN "begin" ELSE at[o]]
  BY DEF Launch, NeedsThread, OneThread
<1> QED
  BY <1>1, <1>3, <1>4, <1>5, <1>6 DEF Launch, With

LEMMA LaunchKeeps ==
  ASSUME ObjectInv, NEW R \in SUBSET Objects, Launch(R)
  PROVE  /\ OneThread' /\ NoLostWakeup'
         /\ owed' \in [Objects -> BOOLEAN] /\ should_respawn_' \in [Objects -> BOOLEAN] => ObjectType'
<1>1. /\ is_alive_' = [o \in Objects |-> o \in R \/ is_alive_[o]]
      /\ is_running_' = [o \in Objects |-> o \in R \/ is_running_[o]]
      /\ should_stop_' = [o \in Objects |-> o \notin R /\ should_stop_[o]]
      /\ s' = [o \in Objects |-> IF o \in R THEN {} ELSE s[o]]
      /\ at' = [o \in Objects |-> IF o \in R /\ ~is_alive_[o] THEN "begin" ELSE at[o]]
      /\ inwait' = inwait
  BY LaunchStep DEF ObjectInv
<1>2. OneThread'
  BY <1>1 DEF ObjectInv, OneThread
<1>3. NoLostWakeup'
  BY <1>1 DEF ObjectInv, NoLostWakeup
<1>4. ASSUME owed' \in [Objects -> BOOLEAN], should_respawn_' \in [Objects -> BOOLEAN]
      PROVE  ObjectType'
  BY <1>1, <1>4 DEF ObjectInv, ObjectType, Places
<1> QED
  BY <1>2, <1>3, <1>4

LEMMA StartKeeps ==
  ASSUME ObjectInv, NEW o \in Objects, start(o)
  PROVE  ObjectInv'
<1>1. /\ Launch({o}) /\ {o} \in SUBSET Objects
      /\ should_respawn_' = should_respawn_ /\ owed' = owed
  BY DEF start
<1>2. at' = [x \in Objects |-> IF x \in {o} /\ ~is_alive_[x] THEN "begin" ELSE at[x]]
  BY <1>1, LaunchStep DEF ObjectInv
<1>3. RestartKept'
  BY <1>1, <1>2 DEF ObjectInv, RestartKept
<1> QED
  BY <1>1, <1>3, LaunchKeeps DEF ObjectInv, ObjectType

LEMMA RestartKeeps ==
  ASSUME ObjectInv, NEW R \in SUBSET Objects, restart(R)
  PROVE  ObjectInv'
<1>1. /\ Launch(R)
      /\ should_respawn_' = [o \in Objects |-> IF o \in R THEN is_alive_[o] ELSE should_respawn_[o]]
      /\ owed' = [o \in Objects |-> IF o \in R THEN TRUE ELSE owed[o]]
  BY DEF restart, RespawnAfter, With, ObjectInv, ObjectType
<1>2. at' = [o \in Objects |-> IF o \in R /\ ~is_alive_[o] THEN "begin" ELSE at[o]]
  BY <1>1, LaunchStep DEF ObjectInv
<1>3. RestartKept'
  BY <1>1, <1>2 DEF ObjectInv, RestartKept, OneThread
<1>4. owed' \in [Objects -> BOOLEAN] /\ should_respawn_' \in [Objects -> BOOLEAN]
  BY <1>1 DEF ObjectInv, ObjectType
<1> QED
  BY <1>1, <1>3, <1>4, LaunchKeeps DEF ObjectInv

-----------------------------------------------------------------------------
(* The other calls *)

LEMMA OthersKeep ==
  ASSUME ObjectInv, NEW o \in Objects,
         LaunchFails(o) \/ set_respawn(o) \/ pause(o) \/ stop(o)
  PROVE  ObjectInv'
<1>1. CASE LaunchFails(o)
  <2>1. /\ is_running_' = [x \in Objects |-> x # o /\ is_running_[x]]
        /\ UNCHANGED <<is_alive_, should_stop_, should_respawn_, at, s, inwait, owed>>
    BY <1>1 DEF LaunchFails, With, ObjectInv, ObjectType
  <2>2. ObjectType'
    BY <2>1 DEF ObjectInv, ObjectType
  <2>3. OneThread' /\ RestartKept' /\ NoLostWakeup'
    BY <2>1 DEF ObjectInv, OneThread, RestartKept, NoLostWakeup
  <2> QED
    BY <2>2, <2>3 DEF ObjectInv
<1>2. CASE set_respawn(o)
  <2>1. /\ should_respawn_' = [x \in Objects |-> x = o \/ should_respawn_[x]]
        /\ owed' = [x \in Objects |-> IF x = o THEN is_alive_[o] ELSE owed[x]]
        /\ UNCHANGED <<is_alive_, is_running_, should_stop_, at, s, inwait>>
    BY <1>2 DEF set_respawn, With, ObjectInv, ObjectType
  <2>2. ObjectType'
    BY <2>1 DEF ObjectInv, ObjectType
  <2>3. OneThread' /\ RestartKept' /\ NoLostWakeup'
    BY <2>1 DEF ObjectInv, OneThread, RestartKept, NoLostWakeup
  <2> QED
    BY <2>2, <2>3 DEF ObjectInv
<1>3. CASE pause(o)
  <2>1. /\ is_running_' = [x \in Objects |-> x # o /\ is_running_[x]]
        /\ UNCHANGED <<is_alive_, should_stop_, should_respawn_, at, s, inwait, owed>>
    BY <1>3 DEF pause, With, ObjectInv, ObjectType
  <2>2. ObjectType'
    BY <2>1 DEF ObjectInv, ObjectType
  <2>3. OneThread' /\ RestartKept' /\ NoLostWakeup'
    BY <2>1 DEF ObjectInv, OneThread, RestartKept, NoLostWakeup
  <2> QED
    BY <2>2, <2>3 DEF ObjectInv
<1>4. CASE stop(o)
  <2>1. /\ should_stop_' = [x \in Objects |-> x = o \/ should_stop_[x]]
        /\ is_running_' = [x \in Objects |-> x # o /\ is_running_[x]]
        /\ should_respawn_' = [x \in Objects |-> x # o /\ should_respawn_[x]]
        /\ s' = [x \in Objects |-> IF x = o THEN {} ELSE s[x]]
        /\ owed' = [x \in Objects |-> x # o /\ owed[x]]
        /\ UNCHANGED <<is_alive_, at, inwait>>
    BY <1>4 DEF stop, With, ObjectInv, ObjectType
  <2>2. ObjectType'
    BY <2>1 DEF ObjectInv, ObjectType
  <2>3. OneThread' /\ RestartKept' /\ NoLostWakeup'
    BY <2>1 DEF ObjectInv, OneThread, RestartKept, NoLostWakeup
  <2> QED
    BY <2>2, <2>3 DEF ObjectInv
<1> QED
  BY <1>1, <1>2, <1>3, <1>4

\* wait(), which client c has begun or is woken in.
LEMMA WaitKeeps ==
  ASSUME ObjectInv, NEW c \in Clients, NEW o \in Objects, WaitFrom(c, o)
  PROVE  ObjectInv'
<1>1. c # o
  BY ThreadedAssumption
<1>2. CASE is_alive_[o]
  <2>1. /\ s' = [s EXCEPT ![o] = @ \cup {c}] /\ inwait' = [inwait EXCEPT ![c] = o]
        /\ UNCHANGED <<flags, at, owed>>
    BY <1>2 DEF WaitFrom, KeepsWaiting
  <2>2. ObjectType'
    BY <2>1 DEF ObjectInv, ObjectType, flags
  <2>3. OneThread' /\ RestartKept'
    BY <2>1 DEF ObjectInv, OneThread, RestartKept, flags
  <2>4. NoLostWakeup'
    BY <1>1, <1>2, <2>1 DEF ObjectInv, ObjectType, NoLostWakeup, flags
  <2> QED
    BY <2>2, <2>3, <2>4 DEF ObjectInv
<1>3. CASE ~is_alive_[o]
  BY <1>3 DEF WaitFrom, KeepsWaiting, ObjectInv, ObjectType, OneThread, RestartKept, NoLostWakeup, flags
<1> QED
  BY <1>2, <1>3

LEMMA WaitWakesKeeps ==
  ASSUME ObjectInv, NEW c \in Clients, WaitWakes(c)
  PROVE  ObjectInv'
<1>1. inwait[c] \in Objects
  BY DEF WaitWakes, ObjectInv, ObjectType
<1> QED
  BY <1>1, WaitKeeps DEF WaitWakes

\* wait() begins inside another call.
LEMMA BeginWaitKeeps ==
  ASSUME ObjectInv, NEW c \in Clients, NEW o \in Objects,
         inwait' = [inwait EXCEPT ![c] = o], UNCHANGED <<flags, at, s, owed>>
  PROVE  ObjectInv'
  BY DEF ObjectInv, ObjectType, OneThread, RestartKept, NoLostWakeup, flags

-----------------------------------------------------------------------------
(* The thread of an object *)

LEMMA ThreadKeeps ==
  ASSUME ObjectInv, NEW o \in Objects,
         BeginRun(o) \/ EndRun(o) \/ AfterRun(o) \/ ShouldStop(o)
  PROVE  ObjectInv'
<1> USE DEF ObjectInv, flags, Goes
<1>1. CASE BeginRun(o)
  <2>1. /\ should_respawn_' = [x \in Objects |-> x # o /\ should_respawn_[x]]
        /\ owed' = [x \in Objects |-> x # o /\ owed[x]]
        /\ at[o] = "begin" /\ at' = [at EXCEPT ![o] = "run"]
        /\ UNCHANGED <<is_alive_, is_running_, should_stop_, s, inwait>>
    BY <1>1 DEF BeginRun, With, ObjectType
  <2>2. ObjectType'
    BY <2>1 DEF ObjectType, Places
  <2>3. OneThread' /\ RestartKept' /\ NoLostWakeup'
    BY <2>1 DEF ObjectType, OneThread, RestartKept, NoLostWakeup
  <2> QED
    BY <2>2, <2>3
<1>2. CASE EndRun(o)
  <2>1. ObjectType'
    BY <1>2 DEF EndRun, ObjectType, Places
  <2>2. OneThread' /\ RestartKept' /\ NoLostWakeup'
    BY <1>2 DEF EndRun, ObjectType, OneThread, RestartKept, NoLostWakeup
  <2> QED
    BY <2>1, <2>2
<1>3. CASE AfterRun(o) /\ should_respawn_[o]
  <2>1. ObjectType'
    BY <1>3 DEF AfterRun, ObjectType, Places
  <2>2. OneThread' /\ RestartKept' /\ NoLostWakeup'
    BY <1>3 DEF AfterRun, ObjectType, OneThread, RestartKept, NoLostWakeup
  <2> QED
    BY <2>1, <2>2
<1>4. CASE AfterRun(o) /\ ~should_respawn_[o]
  <2>1. /\ is_alive_' = [x \in Objects |-> x # o /\ is_alive_[x]]
        /\ is_running_' = [x \in Objects |-> x # o /\ is_running_[x]]
        /\ should_stop_' = [x \in Objects |-> x # o /\ should_stop_[x]]
        /\ s' = [x \in Objects |-> IF x = o THEN {} ELSE s[x]]
        /\ at[o] = "end" /\ at' = [at EXCEPT ![o] = "none"]
        /\ UNCHANGED <<should_respawn_, inwait, owed>>
    BY <1>4 DEF AfterRun, With, ObjectType, Tell
  <2>2. ObjectType'
    BY <2>1 DEF ObjectType, Places
  <2>3. OneThread' /\ RestartKept'
    BY <1>4, <2>1 DEF ObjectType, OneThread, RestartKept
  <2>4. NoLostWakeup'
    BY <2>1 DEF ObjectType, NoLostWakeup
  <2> QED
    BY <2>2, <2>3, <2>4
<1>5. CASE ShouldStop(o)
  <2>1. CASE ~is_running_[o] /\ ~should_stop_[o]
    <3>1. /\ s' = [s EXCEPT ![o] = @ \cup {o}] /\ at' = [at EXCEPT ![o] = "paused"]
          /\ at[o] \in {"run", "paused"}
          /\ UNCHANGED <<flags, inwait, owed>>
      BY <1>5, <2>1 DEF ShouldStop
    <3>2. ObjectType'
      BY <3>1 DEF ObjectType, Places
    <3>3. OneThread' /\ RestartKept'
      BY <3>1 DEF ObjectType, OneThread, RestartKept
    <3>4. NoLostWakeup'
      BY <2>1, <3>1 DEF ObjectType, NoLostWakeup
    <3> QED
      BY <3>2, <3>3, <3>4
  <2>2. CASE ~(~is_running_[o] /\ ~should_stop_[o])
    <3>1. /\ at' = [at EXCEPT ![o] = IF should_stop_[o] THEN "end" ELSE "run"]
          /\ at[o] \in {"run", "paused"}
          /\ UNCHANGED <<flags, s, inwait, owed>>
      BY <1>5, <2>2 DEF ShouldStop
    <3>2. ObjectType'
      BY <3>1 DEF ObjectType, Places
    <3>3. OneThread' /\ RestartKept'
      BY <3>1 DEF ObjectType, OneThread, RestartKept
    <3>4. NoLostWakeup'
      BY <3>1 DEF ObjectType, NoLostWakeup
    <3> QED
      BY <3>2, <3>3, <3>4
  <2> QED
    BY <2>1, <2>2
<1> QED
  BY <1>1, <1>2, <1>3, <1>4, <1>5

LEMMA ObjectStutters ==
  ASSUME ObjectInv, UNCHANGED objectVars
  PROVE  ObjectInv'
  BY DEF ObjectInv, ObjectType, OneThread, RestartKept, NoLostWakeup, objectVars, flags

-----------------------------------------------------------------------------

LEMMA ClientCallKeeps ==
  ASSUME ObjectInv, NEW c \in Clients, NEW o \in Objects, ClientCalls(c, o)
  PROVE  ObjectInv'
<1>1. {o} \in SUBSET Objects
  OBVIOUS
<1> QED
  BY <1>1, StartKeeps, RestartKeeps, OthersKeep, WaitKeeps DEF ClientCalls

LEMMA ObjectStepKeeps == ObjectInv /\ [ObjectNext]_objectVars => ObjectInv'
<1> SUFFICES ASSUME ObjectInv, [ObjectNext]_objectVars PROVE ObjectInv'
  OBVIOUS
<1>1. ASSUME NEW c \in Clients, WaitWakes(c) PROVE ObjectInv'
  BY <1>1, WaitWakesKeeps
<1>2. ASSUME NEW c \in Clients, NEW o \in Objects, ClientCalls(c, o) PROVE ObjectInv'
  BY <1>2, ClientCallKeeps
<1>3. ASSUME NEW o \in Objects, thread_helper(o) \/ ShouldStop(o) \/ EndRun(o) PROVE ObjectInv'
  BY <1>3, ThreadKeeps DEF thread_helper
<1>4. CASE UNCHANGED objectVars
  BY <1>4, ObjectStutters
<1> QED
  BY <1>1, <1>2, <1>3, <1>4 DEF ObjectNext

\* In a program of threaded_objects only, thread() runs in one thread at a time,
\* no requested run is forgotten and nobody sleeps without a reason.
THEOREM ObjectsCorrect == ObjectSpec => [](OneThread /\ RestartKept /\ NoLostWakeup)
<1>1. ObjectInv => OneThread /\ RestartKept /\ NoLostWakeup
  BY DEF ObjectInv
<1> QED
  BY <1>1, ObjectInitHolds, ObjectStepKeeps, PTL DEF ObjectSpec

-----------------------------------------------------------------------------
(* Timers and their clock *)

TimerType ==
  /\ program \in {"timers", "objects"}
  /\ running \in [Timers -> BOOLEAN]
  /\ delay \in [Timers -> Nat]
  /\ due \in [Timers -> Int \cup {None}]
  /\ sleep \in Nat
  /\ shutdown \in BOOLEAN
  /\ gone \subseteq Timers

\* The clock's thread outlives the timers.
ClockLives ==
  /\ \A t \in Timers : running[t] => is_alive_[Clock]
  /\ \A t \in gone : ~running[t]
  /\ shutdown => gone = Timers
  /\ at[Clock] = "end" => shutdown
  /\ at[Clock] # "paused"
  /\ \A t \in Timers : at[t] # "paused"

TimerInv ==
  /\ ObjectInv /\ TimerType /\ ClockLives
  /\ RunningTimersAreKept /\ ClockWakesInTime

USE TimerAssumption DEF Scheduled

LEMMA ClockIsObject == Clock \in Objects /\ Timers \subseteq Objects /\ Plain \in Objects
                       /\ Clock \notin Timers /\ Plain \notin Timers /\ Plain # Clock
  OBVIOUS

LEMMA DelaysAreNat == Idle \in Nat /\ DefaultDelay \in Nat /\ \A d \in Delays : d \in Nat
  OBVIOUS

LEMMA InitHolds == Init => TimerInv
<1> SUFFICES ASSUME Init PROVE TimerInv
  OBVIOUS
<1>1. ObjectInv
  BY ObjectInitHolds DEF Init
<1>2. TimerType
  BY DelaysAreNat DEF Init, TimerType
<1>3. ClockLives
  BY ClockIsObject DEF Init, ObjectInit, ClockLives
<1>4. RunningTimersAreKept /\ ClockWakesInTime
  BY DEF Init, RunningTimersAreKept, ClockWakesInTime
<1> QED
  BY <1>1, <1>2, <1>3, <1>4 DEF TimerInv

\* A set of natural numbers that is not empty has a least member.
LEMMA MinIsLeast ==
  ASSUME NEW S \in SUBSET Nat, S # {}
  PROVE  Min(S) \in S /\ \A n \in S : Min(S) <= n
<1> DEFINE less == {p \in Nat \X Nat : p[1] < p[2]}
<1>1. IsWellFoundedOn(less, Nat)
  BY NatLessThanWellFounded, Zenon DEF OpToRel
<1>2. PICK m \in S : \A n \in S : <<n, m>> \notin less
  BY <1>1, WFMin, Zenon
<1>3. \A n \in S : m <= n
  <2> SUFFICES ASSUME NEW n \in S, ~(m <= n) PROVE FALSE
    OBVIOUS
  <2>1. n < m /\ n \in Nat /\ m \in Nat
    OBVIOUS
  <2>2. <<n, m>> \in less
    BY <2>1
  <2> QED
    BY <1>2, <2>2
<1> QED
  BY <1>3 DEF Min

-----------------------------------------------------------------------------
(* Scheduling *)

\* add() and adjust_delay() keep the clock from sleeping past a due time.
LEMMA ScheduleKeeps ==
  ASSUME TimerType, ClockWakesInTime, NEW t \in Timers, NEW d \in Int, Schedule(t, d)
  PROVE  /\ due' = [due EXCEPT ![t] = d]
         /\ Scheduled' = Scheduled \cup {t}
         /\ due' \in [Timers -> Int \cup {None}] /\ sleep' \in Nat
         /\ ClockWakesInTime'
<1>1. /\ due' = [due EXCEPT ![t] = d]
      /\ sleep' = IF ComesFirst(t, d) THEN 0 ELSE sleep
  BY DEF Schedule
<1>2. d # None
  OBVIOUS
<1>3. Scheduled' = Scheduled \cup {t}
  BY <1>1, <1>2 DEF TimerType
<1>4. due' \in [Timers -> Int \cup {None}] /\ sleep' \in Nat
  BY <1>1 DEF TimerType
<1>5. ASSUME sleep' > 0, NEW u \in Scheduled' PROVE sleep' <= due'[u]
  <2>1. /\ sleep' = sleep /\ ~ComesFirst(t, d)
    BY <1>1, <1>5
  <2>2. PICK v \in Scheduled \ {t} : ~(d < due[v])
    BY <2>1 DEF ComesFirst
  <2>3. sleep <= due[v] /\ due[v] \in Int
    BY <1>5, <2>1, <2>2 DEF ClockWakesInTime, TimerType
  <2>4. CASE u = t
    BY <2>1, <2>2, <2>3, <2>4, <1>1 DEF TimerType
  <2>5. CASE u # t
    BY <1>1, <1>3, <1>5, <2>1, <2>5 DEF ClockWakesInTime, TimerType
  <2> QED
    BY <2>4, <2>5
<1> QED
  BY <1>1, <1>3, <1>4, <1>5 DEF ClockWakesInTime

\* remove() of a timer that is stopped.
LEMMA StoppedKeeps ==
  ASSUME TimerInv, NEW t \in Timers, Stopped(t)
  PROVE  /\ running' = [running EXCEPT ![t] = FALSE]
         /\ Scheduled' = Scheduled \ {t}
         /\ \A u \in Scheduled' : due'[u] = due[u]
         /\ due' \in [Timers -> Int \cup {None}]
         /\ sleep' = sleep /\ shutdown' = shutdown /\ program' = program
         /\ ClockWakesInTime'
<1>1. /\ running' = [running EXCEPT ![t] = FALSE]
      /\ due' = [due EXCEPT ![t] = None]
      /\ sleep' = sleep /\ shutdown' = shutdown /\ program' = program
  BY DEF Stopped, remove
<1>2. /\ Scheduled' = Scheduled \ {t} /\ \A u \in Scheduled' : due'[u] = due[u]
      /\ due' \in [Timers -> Int \cup {None}]
  BY <1>1 DEF TimerInv, TimerType
<1>3. ClockWakesInTime'
  BY <1>1, <1>2 DEF TimerInv, ClockWakesInTime
<1> QED
  BY <1>1, <1>2, <1>3

-----------------------------------------------------------------------------
(* Steps that leave the timers and the clock alone *)

\* The objects of X are where they were.
Untouched(X) ==
  \A x \in X : /\ at'[x] = at[x] /\ is_alive_'[x] = is_alive_[x]
               /\ should_respawn_'[x] = should_respawn_[x]

LEMMA FrameKeeps ==
  ASSUME TimerInv, ObjectInv', UNCHANGED timerVars, Untouched(Timers \cup {Clock})
  PROVE  TimerInv'
<1>1. TimerType' /\ ClockWakesInTime'
  BY DEF TimerInv, TimerType, ClockWakesInTime, timerVars
<1>2. ClockLives'
  BY DEF TimerInv, ClockLives, timerVars, Untouched
<1>3. RunningTimersAreKept'
  BY DEF TimerInv, RunningTimersAreKept, timerVars, Untouched
<1> QED
  BY <1>1, <1>2, <1>3 DEF TimerInv

LEMMA WaitWakesStep ==
  ASSUME TimerInv, NEW c \in Clients, WaitWakes(c), UNCHANGED timerVars
  PROVE  TimerInv'
<1>1. ObjectInv'
  BY WaitWakesKeeps DEF TimerInv
<1>2. Untouched(Timers \cup {Clock})
  BY DEF WaitWakes, WaitFrom, flags, Untouched
<1> QED
  BY <1>1, <1>2, FrameKeeps

LEMMA PlainStep ==
  ASSUME TimerInv, PlainNext
  PROVE  TimerInv'
<1>1. UNCHANGED timerVars
  BY DEF PlainNext
<1>2. ASSUME NEW c \in Clients, WaitWakes(c) PROVE TimerInv'
  BY <1>1, <1>2, WaitWakesStep
<1>3. ASSUME NEW c \in Clients, ClientCalls(c, Plain) PROVE TimerInv'
  <2>1. ObjectInv'
    BY <1>3, ClientCallKeeps, ClockIsObject DEF TimerInv
  <2>2. CASE start(Plain) \/ restart({Plain})
    <3>1. Launch({Plain}) /\ {Plain} \in SUBSET Objects /\ ObjectType /\ OneThread
      BY <2>2, ClockIsObject DEF start, restart, TimerInv, ObjectInv
    <3>2. /\ is_alive_' = [o \in Objects |-> o \in {Plain} \/ is_alive_[o]]
          /\ at' = [o \in Objects |-> IF o \in {Plain} /\ ~is_alive_[o] THEN "begin" ELSE at[o]]
      BY <3>1, LaunchStep
    <3>3. \A x \in Timers \cup {Clock} : should_respawn_'[x] = should_respawn_[x]
      BY <2>2, ClockIsObject DEF start, restart
    <3>4. \A x \in Objects : is_alive_[x] \in BOOLEAN
      BY DEF TimerInv, ObjectInv, ObjectType
    <3> QED
      BY <2>1, <3>2, <3>3, <3>4, <1>1, ClockIsObject, FrameKeeps DEF Untouched
  <2>3. CASE \/ LaunchFails(Plain) \/ set_respawn(Plain) \/ pause(Plain)
             \/ stop(Plain) \/ WaitFrom(c, Plain)
    <3>1. is_alive_' = is_alive_ /\ at' = at
      BY <2>3 DEF LaunchFails, set_respawn, pause, stop, WaitFrom, flags
    <3>2. \A x \in Objects \ {Plain} : should_respawn_'[x] = should_respawn_[x]
      BY <2>3 DEF LaunchFails, set_respawn, pause, stop, WaitFrom, flags, With,
                  TimerInv, ObjectInv, ObjectType
    <3> QED
      BY <2>1, <3>1, <3>2, <1>1, ClockIsObject, FrameKeeps DEF Untouched
  <2> QED
    BY <1>3, <2>2, <2>3 DEF ClientCalls
<1>4. ASSUME thread_helper(Plain) \/ ShouldStop(Plain) \/ EndRun(Plain) PROVE TimerInv'
  <2>1. ObjectInv'
    BY <1>4, ThreadKeeps, ClockIsObject DEF TimerInv, thread_helper
  <2>2. \A x \in Objects \ {Plain} :
          /\ at'[x] = at[x] /\ is_alive_'[x] = is_alive_[x]
          /\ should_respawn_'[x] = should_respawn_[x]
    BY <1>4 DEF thread_helper, BeginRun, AfterRun, ShouldStop, EndRun, Goes, flags, With,
                TimerInv, ObjectInv, ObjectType
  <2> QED
    BY <2>1, <2>2, <1>1, ClockIsObject, FrameKeeps DEF Untouched
<1> QED
  BY <1>2, <1>3, <1>4 DEF PlainNext

-----------------------------------------------------------------------------
(* Calls of the clients of timers *)

LEMMA StartTimerStep ==
  ASSUME TimerInv, NEW t \in Timers \ gone, StartTimer(t)
  PROVE  TimerInv'
<1>1. /\ running' = [running EXCEPT ![t] = TRUE]
      /\ Schedule(t, delay[t])
      /\ UNCHANGED <<delay, shutdown, gone, program>>
  BY DEF StartTimer
<1>2. delay[t] \in Int
  BY DEF TimerInv, TimerType
<1>3. /\ due' = [due EXCEPT ![t] = delay[t]] /\ Scheduled' = Scheduled \cup {t}
      /\ due' \in [Timers -> Int \cup {None}] /\ sleep' \in Nat /\ ClockWakesInTime'
  BY <1>1, <1>2, ScheduleKeeps DEF TimerInv
<1>4. TimerType'
  BY <1>1, <1>3 DEF TimerInv, TimerType
<1>5. /\ ObjectInv' /\ is_alive_'[Clock]
      /\ \A x \in Objects \ {Clock} : at'[x] = at[x]
      /\ should_respawn_' = should_respawn_
      /\ at'[Clock] # "paused" /\ (at'[Clock] = "end" => shutdown)
  <2>1. CASE is_alive_[Clock]
    BY <2>1, ObjectStutters DEF StartTimer, objectVars, flags, TimerInv, ClockLives
  <2>2. CASE ~is_alive_[Clock]
    <3>1. start(Clock)
      BY <2>2 DEF StartTimer
    <3>2. ObjectInv'
      BY <3>1, StartKeeps, ClockIsObject DEF TimerInv
    <3>3. Launch({Clock}) /\ {Clock} \in SUBSET Objects /\ should_respawn_' = should_respawn_
      BY <3>1, ClockIsObject DEF start
    <3>4. /\ is_alive_' = [o \in Objects |-> o \in {Clock} \/ is_alive_[o]]
          /\ at' = [o \in Objects |-> IF o \in {Clock} /\ ~is_alive_[o] THEN "begin" ELSE at[o]]
      BY <3>3, LaunchStep DEF TimerInv, ObjectInv
    <3> QED
      BY <2>2, <3>2, <3>3, <3>4, ClockIsObject
  <2> QED
    BY <2>1, <2>2
<1>6. ClockLives'
  <2>1. \A u \in Timers : at'[u] # "paused"
    BY <1>5, ClockIsObject DEF TimerInv, ClockLives
  <2>2. \A u \in gone' : ~running'[u]
    BY <1>1 DEF TimerInv, TimerType, ClockLives
  <2> QED
    BY <2>1, <2>2, <1>1, <1>5 DEF TimerInv, ClockLives
<1>7. RunningTimersAreKept'
  <2> SUFFICES ASSUME NEW u \in Timers
               PROVE  /\ u \in Scheduled' => running'[u] /\ is_alive_'[Clock]
                      /\ running'[u] /\ u \notin Scheduled' =>
                           at'[u] \in {"begin", "run"} \/ (at'[u] = "end" /\ should_respawn_'[u])
    BY DEF RunningTimersAreKept
  <2>1. CASE u = t
    BY <2>1, <1>1, <1>3, <1>5 DEF TimerInv, TimerType
  <2>2. CASE u # t
    <3>1. running'[u] = running[u] /\ (u \in Scheduled' <=> u \in Scheduled)
      BY <2>2, <1>1, <1>3 DEF TimerInv, TimerType
    <3>2. at'[u] = at[u] /\ should_respawn_'[u] = should_respawn_[u]
      BY <1>5, ClockIsObject
    <3> QED
      BY <3>1, <3>2, <1>5 DEF TimerInv, RunningTimersAreKept
  <2> QED
    BY <2>1, <2>2
<1> QED
  BY <1>3, <1>4, <1>5, <1>6, <1>7 DEF TimerInv

LEMMA SetDelayStep ==
  ASSUME TimerInv, NEW t \in Timers, NEW d \in Delays, set_delay_time(t, d)
  PROVE  TimerInv'
<1>1. /\ delay' = [delay EXCEPT ![t] = d]
      /\ UNCHANGED <<objectVars, running, shutdown, gone, program>>
  BY DEF set_delay_time
<1>2. /\ ObjectInv' /\ Untouched(Timers \cup {Clock})
  BY <1>1, ObjectStutters DEF TimerInv, objectVars, flags, Untouched
<1>3. /\ Scheduled' = Scheduled
      /\ due' \in [Timers -> Int \cup {None}] /\ sleep' \in Nat /\ ClockWakesInTime'
  <2>1. CASE t \in Scheduled
    <3>1. due[t] \in Int /\ delay[t] \in Nat /\ d \in Nat
      BY <2>1, DelaysAreNat DEF TimerInv, TimerType
    <3>2. due[t] - delay[t] + d \in Int
      BY <3>1
    <3> QED
      BY <2>1, <3>2, ScheduleKeeps DEF set_delay_time, TimerInv
  <2>2. CASE t \notin Scheduled
    BY <2>2, <1>1 DEF set_delay_time, TimerInv, TimerType, ClockWakesInTime
  <2> QED
    BY <2>1, <2>2
<1>4. TimerType'
  BY <1>1, <1>3, DelaysAreNat DEF TimerInv, TimerType
<1>5. ClockLives'
  BY <1>1, <1>2 DEF TimerInv, ClockLives, Untouched
<1>6. RunningTimersAreKept'
  BY <1>1, <1>2, <1>3 DEF TimerInv, RunningTimersAreKept, Untouched
<1> QED
  BY <1>2, <1>3, <1>4, <1>5, <1>6 DEF TimerInv

\* stop(), clear(), stop_and_wait() and ~timer(), which differ in what else they set.
LEMMA StopsStep ==
  ASSUME TimerInv, NEW t \in Timers, Stopped(t),
         ObjectInv', Untouched(Timers \cup {Clock}),
         delay' \in [Timers -> Nat], gone' \in {gone, gone \cup {t}}
  PROVE  TimerInv'
<1>1. /\ running' = [running EXCEPT ![t] = FALSE]
      /\ Scheduled' = Scheduled \ {t}
      /\ due' \in [Timers -> Int \cup {None}]
      /\ sleep' = sleep /\ shutdown' = shutdown /\ program' = program
      /\ ClockWakesInTime'
  BY StoppedKeeps
<1>2. TimerType'
  BY <1>1 DEF TimerInv, TimerType
<1>3. ClockLives'
  <2>1. \A u \in Timers : running'[u] => running[u]
    BY <1>1 DEF TimerInv, TimerType
  <2>2. gone' \subseteq Timers /\ gone \subseteq gone'
    BY DEF TimerInv, TimerType
  <2>3. \A u \in gone' : ~running'[u]
    BY <1>1, <2>1 DEF TimerInv, TimerType, ClockLives
  <2> QED
    BY <1>1, <2>1, <2>2, <2>3 DEF TimerInv, ClockLives, Untouched
<1>4. RunningTimersAreKept'
  <2> SUFFICES ASSUME NEW u \in Timers
               PROVE  /\ u \in Scheduled' => running'[u] /\ is_alive_'[Clock]
                      /\ running'[u] /\ u \notin Scheduled' =>
                           at'[u] \in {"begin", "run"} \/ (at'[u] = "end" /\ should_respawn_'[u])
    BY DEF RunningTimersAreKept
  <2>1. CASE u = t
    BY <2>1, <1>1 DEF TimerInv, TimerType
  <2>2. CASE u # t
    <3>1. running'[u] = running[u] /\ (u \in Scheduled' <=> u \in Scheduled)
      BY <2>2, <1>1 DEF TimerInv, TimerType
    <3> QED
      BY <3>1 DEF TimerInv, RunningTimersAreKept, Untouched
  <2> QED
    BY <2>1, <2>2
<1> QED
  BY <1>1, <1>2, <1>3, <1>4 DEF TimerInv

LEMMA ThenWaitStep ==
  ASSUME ObjectInv, NEW c \in Clients, NEW o \in Objects, ThenWait(c, o)
  PROVE  ObjectInv' /\ Untouched(Timers \cup {Clock})
  BY BeginWaitKeeps DEF ThenWait, flags, Untouched

LEMMA CallsStep ==
  ASSUME TimerInv, NEW c \in Clients, TimerCalls(c)
  PROVE  TimerInv'
<1>1. gone \subseteq Timers
  BY DEF TimerInv, TimerType
<1>2. ASSUME NEW t \in Timers \ gone, StartTimer(t) PROVE TimerInv'
  BY <1>2, StartTimerStep
<1>3. ASSUME NEW t \in Timers \ gone, StopTimer(t) PROVE TimerInv'
  <2>1. ObjectInv' /\ Untouched(Timers \cup {Clock})
    BY <1>3, ObjectStutters DEF StopTimer, TimerInv, objectVars, flags, Untouched
  <2>2. delay' \in [Timers -> Nat] /\ gone' = gone
    BY <1>3 DEF StopTimer, TimerInv, TimerType
  <2> QED
    BY <1>3, <2>1, <2>2, StopsStep DEF StopTimer
<1>4. ASSUME NEW t \in Timers \ gone, clear(t) PROVE TimerInv'
  <2>1. ObjectInv' /\ Untouched(Timers \cup {Clock})
    BY <1>4, ObjectStutters DEF clear, TimerInv, objectVars, flags, Untouched
  <2>2. delay' \in [Timers -> Nat] /\ gone' = gone
    BY <1>4, DelaysAreNat DEF clear, TimerInv, TimerType
  <2> QED
    BY <1>4, <2>1, <2>2, StopsStep DEF clear
<1>5. ASSUME NEW t \in Timers \ gone, stop_and_wait(c, t) PROVE TimerInv'
  <2>1. ObjectInv' /\ Untouched(Timers \cup {Clock})
    BY <1>5, ThenWaitStep, ClockIsObject DEF stop_and_wait, TimerInv
  <2>2. delay' \in [Timers -> Nat] /\ gone' = gone
    BY <1>5 DEF stop_and_wait, TimerInv, TimerType
  <2> QED
    BY <1>5, <2>1, <2>2, StopsStep DEF stop_and_wait
<1>6. ASSUME NEW t \in Timers \ gone, DestroyTimer(c, t) PROVE TimerInv'
  <2>1. ObjectInv' /\ Untouched(Timers \cup {Clock})
    BY <1>6, ThenWaitStep, ClockIsObject DEF DestroyTimer, TimerInv
  <2>2. delay' \in [Timers -> Nat] /\ gone' = gone \cup {t}
    BY <1>6, DelaysAreNat DEF DestroyTimer, TimerInv, TimerType
  <2> QED
    BY <1>6, <2>1, <2>2, StopsStep DEF DestroyTimer
<1>7. ASSUME NEW t \in Timers \ gone, NEW d \in Delays, set_delay_time(t, d) PROVE TimerInv'
  BY <1>7, SetDelayStep
<1>8. ASSUME DestroyClock(c) PROVE TimerInv'
  <2>1. ObjectInv' /\ Untouched(Timers \cup {Clock})
    BY <1>8, ThenWaitStep, ClockIsObject DEF DestroyClock, TimerInv
  <2>2. /\ gone = Timers /\ shutdown' = TRUE /\ sleep' = 0
        /\ UNCHANGED <<running, delay, due, gone, program>>
    BY <1>8 DEF DestroyClock
  <2>3. TimerType' /\ ClockWakesInTime' /\ Scheduled' = Scheduled
    BY <2>2 DEF TimerInv, TimerType, ClockWakesInTime
  <2>4. ClockLives' /\ RunningTimersAreKept'
    BY <2>1, <2>2, <2>3 DEF TimerInv, ClockLives, RunningTimersAreKept, Untouched
  <2> QED
    BY <2>1, <2>3, <2>4 DEF TimerInv
<1> QED
  BY <1>2, <1>3, <1>4, <1>5, <1>6, <1>7, <1>8 DEF TimerCalls

-----------------------------------------------------------------------------
(* The threads of the timers and of the clock, and time *)

LEMMA ThreadStep ==
  ASSUME TimerInv, NEW o \in Timers \cup {Clock}, thread_helper(o), UNCHANGED timerVars
  PROVE  TimerInv'
<1>1. ObjectInv'
  BY ThreadKeeps, ClockIsObject DEF TimerInv, thread_helper
<1>2. \A x \in Objects \ {o} : /\ at'[x] = at[x] /\ is_alive_'[x] = is_alive_[x]
                               /\ should_respawn_'[x] = should_respawn_[x]
  <2>1. CASE BeginRun(o)
    BY <2>1 DEF BeginRun, Goes, With, TimerInv, ObjectInv, ObjectType
  <2>2. CASE AfterRun(o)
    <3>1. at' \in {[at EXCEPT ![o] = "begin"], [at EXCEPT ![o] = "none"]}
      BY <2>2 DEF AfterRun, Goes
    <3>2. is_alive_' \in {is_alive_, With(is_alive_, {o}, FALSE)} /\ should_respawn_' = should_respawn_
      BY <2>2 DEF AfterRun, flags
    <3> QED
      BY <3>1, <3>2 DEF With, TimerInv, ObjectInv, ObjectType
  <2> QED
    BY <2>1, <2>2 DEF thread_helper
<1>3. /\ at[o] = "begin" => at'[o] = "run" /\ is_alive_'[o] = is_alive_[o]
      /\ at[o] = "end" /\ should_respawn_[o] => at'[o] = "begin" /\ is_alive_'[o] = is_alive_[o]
      /\ at[o] = "end" /\ ~should_respawn_[o] => at'[o] = "none"
      /\ at[o] \in {"begin", "end"}
  BY ClockIsObject DEF thread_helper, BeginRun, AfterRun, Goes, flags, TimerInv, ObjectInv, ObjectType
<1>4. TimerType' /\ ClockWakesInTime' /\ Scheduled' = Scheduled
  BY DEF TimerInv, TimerType, ClockWakesInTime, timerVars
<1>5. \A t \in Timers : running[t] => is_alive_'[Clock]
  <2>1. CASE o = Clock /\ at[Clock] = "end"
    BY <2>1 DEF TimerInv, ClockLives
  <2>2. CASE ~(o = Clock /\ at[Clock] = "end")
    BY <2>2, <1>2, <1>3, ClockIsObject DEF TimerInv, ClockLives
  <2> QED
    BY <2>1, <2>2
<1>6. ClockLives'
  <2>1. \A x \in Timers \cup {Clock} : at'[x] # "paused" /\ (at'[x] = "end" => at[x] = "end")
    BY <1>2, <1>3, ClockIsObject DEF TimerInv, ClockLives
  <2> QED
    BY <1>5, <2>1 DEF TimerInv, ClockLives, timerVars
<1>7. RunningTimersAreKept'
  <2> SUFFICES ASSUME NEW t \in Timers, running[t], t \notin Scheduled
               PROVE  at'[t] \in {"begin", "run"} \/ (at'[t] = "end" /\ should_respawn_'[t])
    BY <1>4, <1>5 DEF TimerInv, RunningTimersAreKept, timerVars
  <2>1. at[t] \in {"begin", "run"} \/ (at[t] = "end" /\ should_respawn_[t])
    BY DEF TimerInv, RunningTimersAreKept
  <2>2. CASE t = o
    BY <2>1, <2>2, <1>3
  <2>3. CASE t # o
    BY <2>1, <2>3, <1>2, ClockIsObject
  <2> QED
    BY <2>2, <2>3
<1> QED
  BY <1>1, <1>4, <1>6, <1>7 DEF TimerInv

LEMMA ActionReturnsStep ==
  ASSUME TimerInv, NEW t \in Timers, ActionReturns(t)
  PROVE  TimerInv'
<1>1. /\ ObjectInv'
      /\ is_alive_' = is_alive_ /\ should_respawn_' = should_respawn_
      /\ at' = [at EXCEPT ![t] = "end"]
      /\ UNCHANGED <<running, delay, shutdown, gone, program>>
  BY ThreadKeeps, ClockIsObject DEF ActionReturns, EndRun, Goes, flags, TimerInv
<1>2. /\ Scheduled' = IF running[t] THEN Scheduled \cup {t} ELSE Scheduled
      /\ due' \in [Timers -> Int \cup {None}] /\ sleep' \in Nat /\ ClockWakesInTime'
  <2>1. CASE running[t]
    <3>1. Schedule(t, delay[t]) /\ delay[t] \in Int
      BY <2>1 DEF ActionReturns, GoesOn, TimerInv, TimerType
    <3> QED
      BY <2>1, <3>1, ScheduleKeeps DEF TimerInv
  <2>2. CASE ~running[t]
    <3>1. due' = due /\ sleep' = sleep
      BY <2>2 DEF ActionReturns, GoesOn
    <3> QED
      BY <2>2, <3>1 DEF TimerInv, TimerType, ClockWakesInTime
  <2> QED
    BY <2>1, <2>2
<1>3. TimerType'
  BY <1>1, <1>2 DEF TimerInv, TimerType
<1>4. \A x \in Objects \ {t} : at'[x] = at[x]
  BY <1>1 DEF TimerInv, ObjectInv, ObjectType
<1>5. ClockLives'
  <2>1. \A u \in Timers : at'[u] # "paused"
    BY <1>1, <1>4, ClockIsObject DEF TimerInv, ClockLives, ObjectInv, ObjectType
  <2> QED
    BY <2>1, <1>1, <1>4, ClockIsObject DEF TimerInv, ClockLives
<1>6. RunningTimersAreKept'
  <2> SUFFICES ASSUME NEW u \in Timers
               PROVE  /\ u \in Scheduled' => running'[u] /\ is_alive_'[Clock]
                      /\ running'[u] /\ u \notin Scheduled' =>
                           at'[u] \in {"begin", "run"} \/ (at'[u] = "end" /\ should_respawn_'[u])
    BY DEF RunningTimersAreKept
  <2>1. CASE u = t
    BY <2>1, <1>1, <1>2 DEF TimerInv, RunningTimersAreKept, ClockLives
  <2>2. CASE u # t
    BY <2>2, <1>1, <1>2, <1>4, ClockIsObject DEF TimerInv, RunningTimersAreKept
  <2> QED
    BY <2>1, <2>2
<1> QED
  BY <1>1, <1>2, <1>3, <1>5, <1>6 DEF TimerInv

LEMMA ClockPassStep ==
  ASSUME TimerInv, ClockPass
  PROVE  TimerInv'
<1> DEFINE R == {t \in Due : running[t]}
           D == {due[t] : t \in Scheduled \ Due} \cup {Idle}
<1>1. /\ restart(R) /\ R \in SUBSET Objects
      /\ due' = With(due, Due, None) /\ sleep' = Min(D)
      /\ UNCHANGED <<running, delay, shutdown, gone, program>>
  BY ClockIsObject DEF ClockPass, Due
<1>2. ObjectInv'
  BY <1>1, RestartKeeps DEF TimerInv
<1>3. /\ is_alive_' = [o \in Objects |-> o \in R \/ is_alive_[o]]
      /\ at' = [o \in Objects |-> IF o \in R /\ ~is_alive_[o] THEN "begin" ELSE at[o]]
      /\ should_respawn_' = [o \in Objects |-> IF o \in R THEN is_alive_[o] ELSE should_respawn_[o]]
  <2>1. Launch(R)
    BY <1>1 DEF restart
  <2>2. should_respawn_' = [o \in Objects |-> IF o \in R THEN is_alive_[o] ELSE should_respawn_[o]]
    BY <1>1 DEF restart, RespawnAfter
  <2> QED
    BY <1>1, <2>1, <2>2, LaunchStep DEF TimerInv, ObjectInv
<1>4. Clock \notin R
  BY DEF Due
<1>5. /\ due' \in [Timers -> Int \cup {None}]
      /\ Scheduled' = Scheduled \ Due
      /\ \A t \in Scheduled' : due'[t] = due[t]
  BY <1>1 DEF With, TimerInv, TimerType, Due
<1>6. D \in SUBSET Nat /\ Idle \in D
  <2>1. \A t \in Scheduled \ Due : due[t] \in Nat
    BY DEF Due, TimerInv, TimerType
  <2> QED
    BY <2>1
<1>7. sleep' \in Nat /\ \A t \in Scheduled' : sleep' <= due'[t]
  <2>1. sleep' \in D /\ \A n \in D : sleep' <= n
    BY <1>1, <1>6, MinIsLeast
  <2> QED
    BY <1>5, <1>6, <2>1
<1>8. TimerType' /\ ClockWakesInTime'
  BY <1>1, <1>5, <1>7 DEF TimerInv, TimerType, ClockWakesInTime
<1>9. is_alive_'[Clock] = is_alive_[Clock] /\ at'[Clock] = at[Clock]
  BY <1>3, <1>4, ClockIsObject DEF TimerInv, ObjectInv, ObjectType
<1>10. ClockLives'
  <2>1. \A t \in Timers : at'[t] # "paused"
    BY <1>3, ClockIsObject DEF TimerInv, ClockLives
  <2> QED
    BY <2>1, <1>1, <1>9 DEF TimerInv, ClockLives
<1>11. RunningTimersAreKept'
  <2> SUFFICES ASSUME NEW t \in Timers
               PROVE  /\ t \in Scheduled' => running[t] /\ is_alive_'[Clock]
                      /\ running[t] /\ t \notin Scheduled' =>
                           at'[t] \in {"begin", "run"} \/ (at'[t] = "end" /\ should_respawn_'[t])
    BY <1>1 DEF RunningTimersAreKept
  <2>1. t \in Scheduled' => running[t] /\ is_alive_'[Clock]
    BY <1>5, <1>9 DEF TimerInv, RunningTimersAreKept
  <2>2. CASE running[t] /\ t \in Due
    <3>1. CASE is_alive_[t]
      <4>1. at[t] \in {"begin", "run", "end"}
        BY <3>1, ClockIsObject DEF TimerInv, ClockLives, ObjectInv, OneThread
      <4>2. at'[t] = at[t] /\ should_respawn_'[t]
        BY <2>2, <3>1, <1>3, ClockIsObject
      <4> QED
        BY <2>1, <4>1, <4>2
    <3>2. CASE ~is_alive_[t]
      BY <2>1, <2>2, <3>2, <1>3, ClockIsObject
    <3> QED
      BY <3>1, <3>2
  <2>3. CASE running[t] /\ t \notin Due
    <3>1. at'[t] = at[t] /\ should_respawn_'[t] = should_respawn_[t]
      BY <2>3, <1>3, ClockIsObject
    <3>2. t \in Scheduled' <=> t \in Scheduled
      BY <2>3, <1>5
    <3> QED
      BY <2>1, <3>1, <3>2, <2>3 DEF TimerInv, RunningTimersAreKept
  <2> QED
    BY <2>1, <2>2, <2>3
<1> QED
  BY <1>2, <1>8, <1>10, <1>11 DEF TimerInv

LEMMA ClockEndsStep ==
  ASSUME TimerInv, ClockEnds
  PROVE  TimerInv'
<1>1. /\ ObjectInv' /\ shutdown /\ UNCHANGED timerVars
      /\ is_alive_' = is_alive_ /\ should_respawn_' = should_respawn_
      /\ at' = [at EXCEPT ![Clock] = "end"]
  BY ThreadKeeps, ClockIsObject DEF ClockEnds, EndRun, Goes, flags, TimerInv
<1>2. /\ \A t \in Timers : at'[t] = at[t]
      /\ at'[Clock] = "end"
  BY <1>1, ClockIsObject DEF TimerInv, ObjectInv, ObjectType
<1>3. TimerType' /\ ClockWakesInTime' /\ Scheduled' = Scheduled
  BY <1>1 DEF TimerInv, TimerType, ClockWakesInTime, timerVars
<1>4. ClockLives' /\ RunningTimersAreKept'
  BY <1>1, <1>2, <1>3 DEF TimerInv, ClockLives, RunningTimersAreKept, timerVars
<1> QED
  BY <1>1, <1>3, <1>4 DEF TimerInv

LEMMA TickStep ==
  ASSUME TimerInv, Tick
  PROVE  TimerInv'
<1>1. /\ sleep' = IF sleep > 0 THEN sleep - 1 ELSE 0
      /\ due' = [t \in Timers |-> IF t \in Scheduled THEN due[t] - 1 ELSE None]
      /\ UNCHANGED <<objectVars, running, delay, shutdown, gone, program>>
  BY DEF Tick
<1>2. ObjectInv' /\ Untouched(Timers \cup {Clock})
  BY <1>1, ObjectStutters DEF TimerInv, objectVars, flags, Untouched
<1>3. \A t \in Scheduled : due[t] \in Int /\ due[t] - 1 \in Int
  BY DEF TimerInv, TimerType
<1>4. Scheduled' = Scheduled /\ due' \in [Timers -> Int \cup {None}] /\ sleep' \in Nat
  <2>1. \A t \in Scheduled : due'[t] # None
    BY <1>1, <1>3
  <2>2. \A t \in Timers \ Scheduled : due'[t] = None
    BY <1>1
  <2>3. sleep' \in Nat
    BY <1>1 DEF TimerInv, TimerType
  <2> QED
    BY <1>1, <1>3, <2>1, <2>2, <2>3
<1>5. ClockWakesInTime'
  BY <1>1, <1>3, <1>4 DEF TimerInv, TimerType, ClockWakesInTime
<1>6. TimerType'
  BY <1>1, <1>4 DEF TimerInv, TimerType
<1>7. ClockLives' /\ RunningTimersAreKept'
  BY <1>1, <1>2, <1>4 DEF TimerInv, ClockLives, RunningTimersAreKept, Untouched
<1> QED
  BY <1>2, <1>5, <1>6, <1>7 DEF TimerInv

-----------------------------------------------------------------------------

LEMMA StepKeeps == TimerInv /\ [Next]_vars => TimerInv'
<1> SUFFICES ASSUME TimerInv, [Next]_vars PROVE TimerInv'
  OBVIOUS
<1>1. ASSUME NEW c \in Clients, TimerCalls(c) \/ ThreadOfClient(c) PROVE TimerInv'
  BY <1>1, CallsStep, WaitWakesStep DEF ThreadOfClient
<1>2. ASSUME NEW t \in Timers, ThreadOfTimer(t) PROVE TimerInv'
  BY <1>2, ThreadStep, ActionReturnsStep DEF ThreadOfTimer
<1>3. CASE ThreadOfClock
  BY <1>3, ThreadStep, ClockPassStep, ClockEndsStep DEF ThreadOfClock
<1>4. CASE Tick
  BY <1>4, TickStep
<1>5. CASE PlainNext
  BY <1>5, PlainStep
<1>6. CASE UNCHANGED vars
  <2>1. UNCHANGED objectVars /\ UNCHANGED timerVars
    BY <1>6 DEF vars
  <2> QED
    BY <2>1, ObjectStutters, FrameKeeps DEF TimerInv, objectVars, flags, Untouched
<1> QED
  BY <1>1, <1>2, <1>3, <1>4, <1>5, <1>6 DEF Next, TimersNext

THEOREM TimerInvariant == Spec => []TimerInv
  BY InitHolds, StepKeeps, PTL DEF Spec

\* The function of every object, a timer's action or the clock's loop, runs in
\* one thread at a time.
THEOREM ActionsInOneThread == Spec => []OneThread
<1>1. TimerInv => OneThread
  BY DEF TimerInv, ObjectInv
<1> QED
  BY <1>1, TimerInvariant, PTL

\* A restart by the clock, or by any other caller, is never lost.
THEOREM RestartsAreKept == Spec => []RestartKept
<1>1. TimerInv => RestartKept
  BY DEF TimerInv, ObjectInv
<1> QED
  BY <1>1, TimerInvariant, PTL

\* Nobody sleeps in wait() or should_stop() without a reason.
THEOREM WakeupsReachAll == Spec => []NoLostWakeup
<1>1. TimerInv => NoLostWakeup
  BY DEF TimerInv, ObjectInv
<1> QED
  BY <1>1, TimerInvariant, PTL

\* No running timer is forgotten by the clock and by its own thread.
THEOREM NoTimerForgotten == Spec => []RunningTimersAreKept
<1>1. TimerInv => RunningTimersAreKept
  BY DEF TimerInv
<1> QED
  BY <1>1, TimerInvariant, PTL

\* The clock does not sleep past a due time.
THEOREM ClockIsInTime == Spec => []ClockWakesInTime
<1>1. TimerInv => ClockWakesInTime
  BY DEF TimerInv
<1> QED
  BY <1>1, TimerInvariant, PTL

\* When wait() returns the object has no thread, and a stopped timer without one
\* does not get one.
THEOREM QuietAfterwards == Spec => QuietAfterWait
<1> DEFINE
  Returned == \A c \in Clients :
                inwait[c] # None /\ inwait'[c] = None => at[inwait[c]] = "none"
  Quiet == \A t \in Timers : at[t] = "none" /\ ~running[t] => at'[t] = "none"
<1>1. TimerInv /\ [Next]_vars => [Returned /\ Quiet]_vars
  <2> SUFFICES ASSUME TimerInv, Next PROVE Returned /\ Quiet
    OBVIOUS
  <2>1. Returned
    <3> SUFFICES ASSUME NEW c \in Clients, inwait[c] # None, inwait'[c] = None
                 PROVE  at[inwait[c]] = "none"
      OBVIOUS
    <3>1. inwait[c] \in Objects
      BY DEF TimerInv, ObjectInv, ObjectType
    <3>2. CASE \E b \in Clients : WaitWakes(b)
      <4>1. PICK b \in Clients : WaitWakes(b)
        BY <3>2
      <4>2. CASE b = c
        <5>1. ~is_alive_[inwait[c]]
          BY <4>1, <4>2, <3>1 DEF WaitWakes, WaitFrom, KeepsWaiting, TimerInv, ObjectInv, ObjectType
        <5> QED
          BY <5>1, <3>1 DEF TimerInv, ObjectInv, OneThread
      <4>3. CASE b # c
        BY <4>1, <4>3 DEF WaitWakes, WaitFrom, TimerInv, ObjectInv, ObjectType
      <4> QED
        BY <4>2, <4>3
    <3>3. CASE ~\E b \in Clients : WaitWakes(b)
      <4>1. ASSUME NEW b \in Clients, TimerCalls(b) \/ ClientCalls(b, Plain) PROVE FALSE
        <5>1. inwait[b] = None
          BY <4>1 DEF TimerCalls, ClientCalls
        <5>2. b # c
          BY <5>1
        <5>3. \/ inwait' = inwait
              \/ \E o \in Objects \cup {None} : inwait' = [inwait EXCEPT ![b] = o]
          <6>1. CASE TimerCalls(b)
            BY <6>1, ClockIsObject DEF TimerCalls, StartTimer, StopTimer, clear, stop_and_wait,
               DestroyTimer, DestroyClock, ThenWait, set_delay_time, start, Launch, objectVars
          <6>2. CASE ClientCalls(b, Plain)
            BY <6>2, ClockIsObject DEF ClientCalls, start, restart, Launch, LaunchFails,
               set_respawn, pause, stop, WaitFrom
          <6> QED
            BY <4>1, <6>1, <6>2
        <5> QED
          BY <5>2, <5>3 DEF TimerInv, ObjectInv, ObjectType
      <4>2. ASSUME \/ \E t \in Timers : ThreadOfTimer(t)
                   \/ ThreadOfClock \/ Tick
                   \/ thread_helper(Plain) \/ ShouldStop(Plain) \/ EndRun(Plain)
            PROVE  FALSE
        <5>1. inwait' = inwait
          BY <4>2 DEF ThreadOfTimer, ThreadOfClock, thread_helper, BeginRun, AfterRun, EndRun,
             ShouldStop, ActionReturns, ClockPass, ClockEnds, restart, Launch, Tick, objectVars
        <5> QED
          BY <5>1
      <4> QED
        BY <4>1, <4>2, <3>3 DEF Next, TimersNext, PlainNext, ThreadOfClient
    <3> QED
      BY <3>2, <3>3
  <2>2. Quiet
    <3> SUFFICES ASSUME NEW t \in Timers, at[t] = "none", ~running[t], at'[t] # "none"
                 PROVE  FALSE
      BY DEF TimerInv, ObjectInv, ObjectType
    <3>1. t \in Objects /\ t # Clock /\ t # Plain /\ ~is_alive_[t]
      BY ClockIsObject DEF TimerInv, ObjectInv, OneThread
    <3>2. ASSUME NEW R \in SUBSET Objects, Launch(R) PROVE t \in R
      <4>1. at' = [o \in Objects |-> IF o \in R /\ ~is_alive_[o] THEN "begin" ELSE at[o]]
        BY <3>2, LaunchStep DEF TimerInv, ObjectInv
      <4> QED
        BY <4>1, <3>1
    <3>3. ASSUME NEW o \in Objects, thread_helper(o) \/ ShouldStop(o) \/ EndRun(o) PROVE FALSE
      <4>1. at[o] # "none"
        BY <3>3 DEF thread_helper, BeginRun, AfterRun, ShouldStop, EndRun
      <4>2. o # t
        BY <4>1
      <4> QED
        BY <3>3, <4>2, <3>1 DEF thread_helper, BeginRun, AfterRun, ShouldStop, EndRun, Goes,
           TimerInv, ObjectInv, ObjectType
    <3>4. at' # at
      OBVIOUS
    <3>5. ASSUME NEW c \in Clients, TimerCalls(c) PROVE FALSE
      <4>1. at' = at \/ start(Clock)
        BY <3>5 DEF TimerCalls, StartTimer, StopTimer, clear, stop_and_wait, DestroyTimer,
           DestroyClock, ThenWait, set_delay_time, objectVars
      <4>2. {Clock} \in SUBSET Objects
        BY ClockIsObject
      <4> QED
        BY <4>1, <4>2, <3>1, <3>2, <3>4 DEF start
    <3>6. ASSUME NEW c \in Clients, WaitWakes(c) PROVE FALSE
      BY <3>6, <3>4 DEF WaitWakes, WaitFrom
    <3>7. ASSUME NEW u \in Timers, ThreadOfTimer(u) PROVE FALSE
      BY <3>7, <3>3, ClockIsObject DEF ThreadOfTimer, ActionReturns
    <3>8. CASE ClockPass
      <4>1. {u \in Due : running[u]} \in SUBSET Objects
        BY ClockIsObject DEF Due
      <4>2. t \in {u \in Due : running[u]}
        BY <3>8, <4>1, <3>2 DEF ClockPass, restart
      <4> QED
        BY <4>2
    <3>9. CASE ThreadOfClock /\ ~ClockPass
      BY <3>9, <3>3, ClockIsObject DEF ThreadOfClock, ClockEnds
    <3>10. CASE Tick
      BY <3>10, <3>4 DEF Tick, objectVars
    <3>11. CASE PlainNext
      <4>1. ASSUME NEW c \in Clients, ClientCalls(c, Plain) PROVE FALSE
        <5>1. at' = at \/ Launch({Plain})
          BY <4>1 DEF ClientCalls, start, restart, LaunchFails, set_respawn, pause, stop, WaitFrom
        <5>2. {Plain} \in SUBSET Objects
          BY ClockIsObject
        <5> QED
          BY <5>1, <5>2, <3>1, <3>2, <3>4
      <4> QED
        BY <3>11, <4>1, <3>3, <3>6, ClockIsObject DEF PlainNext
    <3> QED
      BY <3>5, <3>6, <3>7, <3>8, <3>9, <3>10, <3>11 DEF Next, TimersNext, ThreadOfClient
  <2> QED
    BY <2>1, <2>2
<1>2. QuietAfterWait <=> [][Returned /\ Quiet]_vars
  BY PTL DEF QuietAfterWait
<1> QED
  BY <1>1, <1>2, TimerInvariant, PTL DEF Spec
=============================================================================
