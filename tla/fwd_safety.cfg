CONSTANTS
  Keys = {k1, k2, k3}
  Requests = {1, 2}
  Width = 2
  MaxFwdBw = 2
  MaxFlow = 2
  TimeoutSec = 1
  UpdateInterval = 1
  MaxLag = 1
SPECIFICATION FairSpec
INVARIANTS Accounting FlowLimit IdleBound
PROPERTIES FreshSessionsStay RaceWindow KeepsLeases StaleSessionsGo
