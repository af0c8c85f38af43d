\* Two threads repeat one document; no lag, no faults, no expiry.
CONSTANTS
  r1 = r1
  r2 = r2
  None = None
  RequestIds = {r1}
  Threads = {t1, t2}
  Credentials = {alice}
  Contents = {x}
  Keys = {k}
  Attempts = {a1, a2}
  Documents <- MCOneDocument
  Retention = 1
  MaxTime = 1
  Lifetime = 1
  WorkerTimeout = 1
  MaxLag = 0
  StoreFaults = FALSE
  MaxOpenTotal = 2
  MaxOpenPerCredential = 2
SPECIFICATION ServiceSpec
INVARIANTS RepeatJoinsOrReplays
