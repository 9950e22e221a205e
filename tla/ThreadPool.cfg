SPECIFICATION FairSpec
CONSTANTS
  Workers = {w1, w2}
  Clients = {c1, c2}
  NoJob = NoJob
  parent = parent
  child = child
  parent2 = parent2
  child2 = child2
  Jobs <- MCJobs
  Roots <- MCRoots
  Child <- MCChild
  Waiting = {parent, parent2}
  Throwing = {child, parent2}
INVARIANTS
  TasksAccountedFor
  ExceptionsKept
  IdsNameTasks
  NoLostWakeup
PROPERTIES
  CallsReturn
