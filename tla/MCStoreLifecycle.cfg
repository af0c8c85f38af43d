\* Three identities and three credentials compete for two open places, one per
\* credential; clock samples 0..3 in any order.
CONSTANTS
  r1 = r1
  r2 = r2
  r3 = r3
  None = None
  RequestIds = {r1, r2, r3}
  Credentials = {alice, bob, carol}
  Attempts = {a1, a2}
  Contents = {x}
  Keys = {k}
  Documents <- MCDocuments
  MaxOpenTotal = 2
  MaxOpenPerCredential = 1
  Retention = 1
  MaxTime = 3
SPECIFICATION StoreSpec
SYMMETRY Symmetry
INVARIANTS SealedWhileCompleted OpenWithinCapacity
PROPERTIES LifecycleRespected ResultKeptUntilAckOrExpiry
