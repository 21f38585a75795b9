SPECIFICATION LifetimeSpec
CONSTANTS
  LeaseIds = {"w0", "w1"}
  Ttls = {1, 2}
  MaxTime = 4
  MaxGrants = 4
  Pids = {p0, p1, p2}
  Commands = {c0, c1}
  NoPid = NoPid
  MaxJobs = 3
SYMMETRY Symmetry
INVARIANTS LeaseTypeOK HeapCoversLeases OneTrackedDaemon DownLeavesNone
PROPERTIES ReapTakesExpired AuthorityIsGranted
CHECK_DEADLOCK FALSE
