CONSTANTS
  l1 = l1
  l2 = l2
  l3 = l3
  gl = gl
  cust = cust
  ledger = ledger
  customers = customers
  p1 = p1
  p2 = p2
  x = x
  y = y
  NoLoad = NoLoad
  NoJob = NoJob
  NoPeriod = NoPeriod
  Loads = {l1, l2}
  Bindings = {gl, cust}
  Targets = {ledger, customers}
  Target <- MCTarget
  Snapshots <- MCSnapshots
  Checked = {gl}
  Periods = {p1, p2}
  Parts = {x, y}
  MaxLockLosses = 0
  MaxLateInserts = 0
SYMMETRY MCSymmetry
SPECIFICATION Spec
CHECK_DEADLOCK FALSE
INVARIANTS
  OneLoadPerTarget
  OnlyVettedRowsLive
PROPERTIES
  RefinesLiveTables
