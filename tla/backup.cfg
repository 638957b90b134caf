CONSTANTS
  r1 = r1
  r2 = r2
  r3 = r3
  NoRun = NoRun
  NoObject = NoObject
  Production = Production
  Damaged = Damaged
  Runs = {r1, r2}
  Managed = {"postgres", "clickhouse", "instance"}
  Keep <- MCKeep
  Days <- MCDays
  Period = 1
  Local = TRUE
  Worm = TRUE
  MaxClock = 4
  Requests <- MCRequests
  MaxChanges = 1
  MaxFailures = 1
  MaxProbeErrors = 0
  MaxRestores = 1
  LastRestore = 2
SYMMETRY MCSymmetry
SPECIFICATION Spec
CHECK_DEADLOCK FALSE
INVARIANTS
  ManifestMeansComplete
  NoFireSkipped
PROPERTIES
  RetentionIsSafe
  RestoreIsFaithful
