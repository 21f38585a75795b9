SPECIFICATION ServiceSpec
CONSTANTS
  Workers = {w0, w1}
  Tasks = {t0, t1}
  LeaseTtl = 1
  MaxTime = 1
  MaxRuns = 2
  Keys = {k0, k1, k2, k3}
  Sizes = {1, 2, 5}
  MaxEntries = 3
  MaxBytes = 4
  Policies = {"sieve", "lru"}
CONSTRAINT SecondRunIsLate
INVARIANTS BooksAgree LeaseEndsWithWorker RejectedOnlyExpired ListIsSound BudgetHolds
PROPERTIES NothingVanishes RunReportsAll HotEntriesSurvive EvictionEnds IsRecencyQueue
CHECK_DEADLOCK FALSE
