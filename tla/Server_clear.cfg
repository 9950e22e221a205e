SPECIFICATION FairSpec
CONSTANTS
  Conns = {k1, k2}
  Clients = {c1}
  Listeners = {l1}
  None = None
  Maxima = {1}
  DefaultMax = 3
PROPERTY NoCallOutlivesClear
