CONSTANTS
  t1 = t1
  t2 = t2
  t3 = t3
  h1 = h1
  c1 = c1
  c2 = c2
  c3 = c3
  NoHandle = NoHandle
  NoClient = NoClient
  Threads = {t1, t2, t3}
  Handles = {h1}
  Clients = {c1, c2, c3}
  Capacity = 1
  MaxExpiries = 1
SPECIFICATION FairSpec
INVARIANTS
  ExclusiveLoans
  NothingLeaks
  NoLostWakeup
PROPERTIES
  ShutdownEnds
CHECK_DEADLOCK FALSE
