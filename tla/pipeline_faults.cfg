CONSTANTS
  l1 = l1
  l2 = l2
  l3 = l3
  gl = gl
  cust = cust
  ledger = ledger
  customers = customers
  p1 = p1
  p2 = p2
  x = x
  y = y
  NoLoad = NoLoad
  NoJob = NoJob
  NoPeriod = NoPeriod
  Loads = {l1, l2}
  Bindings = {gl}
  Targets = {ledger, customers}
  Target <- MCTarget
  Snapshots <- MCSnapshots
  Checked = {gl}
  Periods = {p1}
  Parts = {x}
  MaxLockLosses = 1
  MaxLateInserts = 1
SPECIFICATION FairSpec
CHECK_DEADLOCK FALSE
INVARIANTS
  AuditTrailHonest
PROPERTIES
  RerunRepairs
  LockComesFree
