SPECIFICATION FairSpec
CONSTANTS
  Clock = Clock
  Plain = Plain
  None = None
  Timers = {t1, t2}
  Objects = {t1, t2, Clock, Plain}
  Clients = {c1, c2}
  Delays = {1}
  DefaultDelay = 2
  Idle = 2
  MaxLate = 1
CHECK_DEADLOCK FALSE
INVARIANTS
  OneThread
  RestartKept
  NoLostWakeup
  RunningTimersAreKept
  ClockWakesInTime
PROPERTIES
  QuietAfterWait
  TimersFire
