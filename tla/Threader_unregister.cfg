SPECIFICATION Spec
CONSTANTS
  Threads = {t1}
  Clients = {c1}
  Jobs = {j1, j2}
  NoJob = NoJob
  Handlers = {h1}
  NoHandler = NoHandler
PROPERTY UnregisteredIsNotCalled
