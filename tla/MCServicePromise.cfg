\* One identity with three documents, two contents, two keys, SQLite faults and the worker.
CONSTANTS
  r1 = r1
  None = None
  RequestIds = {r1}
  Threads = {t1, t2}
  Credentials = {alice, bob}
  Contents = {x, y}
  Keys = {k1, k2}
  Attempts = {a1, a2}
  Documents <- MCOneIdentity
  Retention = 1
  MaxTime = 4
  Lifetime = 1
  WorkerTimeout = 1
  MaxLag = 0
  StoreFaults = TRUE
  MaxOpenTotal = 2
  MaxOpenPerCredential = 2
SPECIFICATION ServedSpec
SYMMETRY Symmetry
INVARIANTS AdmittedAtMostOnce
PROPERTIES PromiseKept CalledAsAgreed
