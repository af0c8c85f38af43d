\* Three threads and two credentials; two documents of one identity, one of another.
CONSTANTS
  r1 = r1
  r2 = r2
  None = None
  RequestIds = {r1, r2}
  Threads = {t1, t2, t3}
  Credentials = {alice, bob}
  Contents = {x, y}
  Keys = {k}
  Attempts = {a1, a2}
  Documents <- MCTwoIdentities
  Retention = 1
  MaxTime = 2
  Lifetime = 1
  WorkerTimeout = 1
  MaxLag = 0
  StoreFaults = FALSE
  MaxOpenTotal = 2
  MaxOpenPerCredential = 2
SPECIFICATION ServiceSpec
SYMMETRY Symmetry
INVARIANTS ServiceTypeOK InProgressHasOwner AttemptSettled OneResultPerDocument SingleOwner WaiterHasOwner
PROPERTIES UnavailableMeansUncalled
