\* Two requests, two threads: one may still serve a call its client has given up.
CONSTANTS
  r1 = r1
  r2 = r2
  None = None
  Partial = Partial
  RequestIds = {r1, r2}
  Threads = {t1, t2}
  Credentials = {alice}
  Contents = {x}
  Keys = {k}
  Attempts = {a1, a2}
  Documents <- MCRequests
  Retention = 2
  MaxTime = 4
  Lifetime = 2
  WorkerTimeout = 1
  MaxLag = 0
  StoreFaults = FALSE
  MaxOpenTotal = 2
  MaxOpenPerCredential = 2
SPECIFICATION ProofSpec
SYMMETRY Symmetry
INVARIANTS SubmittedIsOnFile SuccessLeavesNothing
PROPERTIES ReconciledWasRetained RetainedReplays
