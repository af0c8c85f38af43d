\* Stale clock samples, SQLite faults, and a retention of exactly Lifetime + 2 * MaxLag,
\* under fairness; no symmetry.
CONSTANTS
  r1 = r1
  r2 = r2
  None = None
  RequestIds = {r1}
  Threads = {t1, t2}
  Credentials = {alice}
  Contents = {x}
  Keys = {k}
  Attempts = {a1, a2}
  Documents <- MCLongDocument
  Retention = 3
  MaxTime = 6
  Lifetime = 1
  WorkerTimeout = 1
  MaxLag = 1
  StoreFaults = TRUE
  MaxOpenTotal = 2
  MaxOpenPerCredential = 2
SPECIFICATION LiveServiceSpec
INVARIANTS AtMostOneCall
PROPERTIES TombstoneKept NothingExpiresEarly CallsReturn SealedResultsRemoved
