CONSTANTS
  gl = gl
  events = events
  drop = drop
  f1 = f1
  f2 = f2
  f3 = f3
  Strategy <- MCStrategy
  Lookback = 2
  Fallback = 1
  FileBinding <- MCFileBinding
  FilePeriod <- MCFilePeriod
  Unmatched = {}
  Schedulers = {"scheduler"}
  Watchers = {"watcher"}
  Servers = {"server"}
  Cron = {gl, events}
  Watched = {drop}
  Files = {f1, f2, f3}
  Broken = {f3}
  Requests <- MCRequests
  FirstWindow = 5
  WindowsPerMonth = 2
  Settings <- MCSettings
SPECIFICATION FairSpec
INVARIANTS
  NoDoubleFire
  FileFiresOnce
PROPERTIES
  TriggersKeepUp
