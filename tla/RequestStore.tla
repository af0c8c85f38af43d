------------------------------- MODULE RequestStore -------------------------------
(***********************************************************************************)
(* The durable request table of the gateway (store.py, class RequestStore).        *)
(*                                                                                 *)
(* Every public method of RequestStore runs in one BEGIN IMMEDIATE transaction, so *)
(* a method is one action here, with the clock sample it was handed as `at`.  A    *)
(* method that raises leaves the table as it was: _Transaction.__exit__ rolls back *)
(* everything, the cleanup at the head of the method included.                     *)
(*                                                                                 *)
(* `at` is the whole second that _timestamp() writes, and that every comparison of *)
(* the SQL is made with.  It is a parameter because the caller samples the clock   *)
(* before the transaction begins: the samples of two transactions may come in the  *)
(* opposite order.                                                                 *)
(***********************************************************************************)
EXTENDS Integers, FiniteSets

CONSTANTS
  RequestIds,            \* values of the primary key request_id
  Documents,             \* validated request documents; see DocumentsAssumption
  Credentials,           \* identity hashes of the configured credentials
  Contents,              \* contents a worker may return
  Attempts,              \* attempt identities (uuid4)
  Keys,                  \* result encryption keys
  None,                  \* SQL NULL
  MaxOpenTotal,          \* settings.max_open_total
  MaxOpenPerCredential,  \* settings.max_open_per_credential
  Retention,             \* settings.tombstone_retention_seconds
  MaxTime                \* bound on the clock

Seconds == 0..MaxTime

\* A document stands for its canonical digest as well: two documents are the same
\* one exactly when their digests are.  Further fields tell contents apart.
ASSUME DocumentsAssumption ==
  \A d \in Documents : d.request_id \in RequestIds /\ d.expires_at \in Nat
ASSUME RequestIdsAssumption == IsFiniteSet(RequestIds)
ASSUME LimitsAssumption ==
  /\ MaxOpenTotal \in Nat \ {0}
  /\ MaxOpenPerCredential \in Nat \ {0}
  /\ Retention \in Nat \ {0}
  /\ MaxTime \in Nat

Dispositions == {"persisted", "application_rejected"}
Outputs == [content : Contents, key : Keys]     \* ciphertext, and the key it is under

ASSUME NoneAssumption ==
  None \notin Documents \cup Credentials \cup Attempts \cup Outputs \cup Dispositions

OpenStates == {"reserved", "in_progress", "completed", "ambiguous"}
Tombstones == {"acknowledged", "expired"}
States == OpenStates \cup Tombstones \cup {"failed"}

\* `document` is the columns an insertion copies from the document (request_id,
\* request_digest, task_id, task_version, expires_at).  `closed_at` is the
\* updated_at of a tombstone, the only rows whose updated_at is ever read.
Row == [state : States,
        credential : Credentials,
        document : Documents,
        attempt : Attempts \cup {None},
        output : Outputs \cup {None},
        disposition : Dispositions \cup {None},
        closed_at : Seconds]

Absent == [state |-> "absent", credential |-> None, document |-> None,
           attempt |-> None, output |-> None, disposition |-> None, closed_at |-> 0]

Reserved(c, d) == [state |-> "reserved", credential |-> c, document |-> d,
                   attempt |-> None, output |-> None, disposition |-> None, closed_at |-> 0]

VARIABLE rows

-----------------------------------------------------------------------------------
(* _cleanup: expire what reached its expiry, then forget old tombstones.           *)

\* Faulty: the state is set, the ciphertext stays.
LapseKeepsOutput(row, at) ==
  IF row.state \in States \ Tombstones /\ row.document.expires_at <= at
  THEN [row EXCEPT !.state = "expired", !.closed_at = at]
  ELSE row

\* Faulty: a second early.
LapseEarly(row, at) ==
  IF row.state \in States \ Tombstones /\ row.document.expires_at <= at + 1
  THEN [row EXCEPT !.state = "expired", !.output = None, !.closed_at = at]
  ELSE row

\* Faulty: an acknowledged row expires as well.
LapseAcknowledged(row, at) ==
  IF row.state \in States \ {"expired"} /\ row.document.expires_at <= at
  THEN [row EXCEPT !.state = "expired", !.output = None, !.closed_at = at]
  ELSE row

Lapse(row, at) ==
  IF row.state \in States \ Tombstones /\ row.document.expires_at <= at
  THEN [row EXCEPT !.state = "expired", !.output = None, !.closed_at = at]
  ELSE row

\* Faulty: a second early.
ForgetEarly(row, at) ==
  IF row.state \in Tombstones /\ row.closed_at <= at - Retention THEN Absent ELSE row

Forget(row, at) ==
  IF row.state \in Tombstones /\ row.closed_at < at - Retention THEN Absent ELSE row

Cleaned(row, at) == Forget(Lapse(row, at), at)

Cleanup(at) == [id \in RequestIds |-> Cleaned(rows[id], at)]

\* Faulty: a restart puts interrupted requests back in line.
InterruptRequeues(row) ==
  IF row.state = "in_progress"
  THEN [row EXCEPT !.state = "reserved", !.attempt = None] ELSE row

\* initialize() turns the attempts a dead process left behind into unknown outcomes.
Interrupt(row) ==
  IF row.state = "in_progress" THEN [row EXCEPT !.state = "ambiguous"] ELSE row

-----------------------------------------------------------------------------------
(* The exceptions of each method, as the name of the error or "none".              *)

\* Faulty: any credential may read the row.
IdentityErrorOfAnyone(row, c, d) ==
  IF d # None /\ row.document # d THEN "identity_conflict" ELSE "none"

\* _authorize_existing; d = None where the caller passes no digest.
IdentityError(row, c, d) ==
  CASE row.credential # c               -> "forbidden"
    [] row.credential = c /\ d # None /\ row.document # d -> "identity_conflict"
    [] OTHER                            -> "none"

OpenIn(table) == {id \in RequestIds : table[id].state \in OpenStates}
OpenOf(table, c) == {id \in OpenIn(table) : table[id].credential = c}

\* Faulty: the limits admit one row more.
AtCapacityLate(table, c) ==
  \/ Cardinality(OpenIn(table)) > MaxOpenTotal
  \/ Cardinality(OpenOf(table, c)) > MaxOpenPerCredential

AtCapacity(table, c) ==
  \/ Cardinality(OpenIn(table)) >= MaxOpenTotal
  \/ Cardinality(OpenOf(table, c)) >= MaxOpenPerCredential

AdmitError(c, d, at) ==
  LET row == Cleaned(rows[d.request_id], at)
  IN  CASE row # Absent                             -> IdentityError(row, c, d)
        [] row = Absent /\ d.expires_at <= at       -> "expired"
        [] row = Absent /\ d.expires_at > at /\ AtCapacity(Cleanup(at), c)
                                                    -> "capacity"
        [] OTHER                                    -> "none"

GetOwnedError(c, d, at) ==
  LET row == Cleaned(rows[d.request_id], at)
  IN  IF row = Absent THEN "unknown" ELSE IdentityError(row, c, d)

\* Faulty: a request of unknown outcome is dispatched again.
MarkableTwice(id, at) == Cleaned(rows[id], at).state \in {"reserved", "ambiguous"}

Markable(id, at) == Cleaned(rows[id], at).state = "reserved"

OwnsAttempt(row, a) == row.state = "in_progress" /\ row.attempt = a

\* "expired" is complete() returning False, which commits; "not_owner" raises.
CompleteError(id, a, at) ==
  LET row == Cleaned(rows[id], at)
  IN  CASE row.state \in {"absent", "expired"} -> "expired"
        [] OwnsAttempt(row, a)                 -> "none"
        [] OTHER                               -> "not_owner"

AcknowledgeError(c, id, disposition, at) ==
  LET row == Cleaned(rows[id], at)
  IN  CASE row = Absent                    -> "unknown"
        [] row # Absent /\ row.credential # c -> "forbidden"
        [] row.credential = c /\ row.state = "acknowledged"
             -> IF row.disposition = disposition THEN "none" ELSE "conflict"
        [] row.credential = c /\ row.state = "expired" -> "expired"
        [] row.credential = c /\ row.state \notin {"acknowledged", "expired", "completed"}
             -> "not_terminal"
        [] OTHER                           -> "none"

-----------------------------------------------------------------------------------
(* The methods.                                                                    *)

Admit(c, d, at) ==
  LET table == Cleanup(at)
      id    == d.request_id
  IN  rows' = CASE AdmitError(c, d, at) # "none" -> rows
                [] AdmitError(c, d, at) = "none" /\ table[id] = Absent
                     -> [table EXCEPT ![id] = Reserved(c, d)]
                [] OTHER -> table

GetOwned(c, d, at) ==
  rows' = IF GetOwnedError(c, d, at) = "none" THEN Cleanup(at) ELSE rows

MarkInProgress(id, a, at) ==
  rows' = IF Markable(id, at)
          THEN [Cleanup(at) EXCEPT ![id].state = "in_progress", ![id].attempt = a]
          ELSE rows

\* The three below do not clean up: an expired row whose attempt ends here moves on
\* and is expired by the next transaction that does.
ResetReserved(id, a) ==
  rows' = IF OwnsAttempt(rows[id], a)
          THEN [rows EXCEPT ![id].state = "reserved", ![id].attempt = None]
          ELSE rows

MarkAmbiguous(id, a) ==
  rows' = IF OwnsAttempt(rows[id], a) THEN [rows EXCEPT ![id].state = "ambiguous"] ELSE rows

MarkFailed(id, a) ==
  rows' = IF OwnsAttempt(rows[id], a) THEN [rows EXCEPT ![id].state = "failed"] ELSE rows

Complete(id, a, content, key, at) ==
  rows' = CASE CompleteError(id, a, at) = "not_owner" -> rows
            [] CompleteError(id, a, at) = "expired"   -> Cleanup(at)
            [] CompleteError(id, a, at) = "none"
                 -> [Cleanup(at) EXCEPT ![id].state = "completed",
                                        ![id].output = [content |-> content, key |-> key]]

Acknowledge(c, id, disposition, at) ==
  LET table == Cleanup(at)
  IN  rows' = CASE AcknowledgeError(c, id, disposition, at) # "none" -> rows
                [] AcknowledgeError(c, id, disposition, at) = "none"
                     /\ table[id].state = "completed"
                     -> [table EXCEPT ![id].state = "acknowledged",
                                      ![id].disposition = disposition,
                                      ![id].output = None,
                                      ![id].closed_at = at]
                [] OTHER -> table

Maintain(at) == rows' = Cleanup(at)

Initialize(at) == rows' = [id \in RequestIds |-> Cleaned(Interrupt(rows[id]), at)]

-----------------------------------------------------------------------------------
(* The table under arbitrary calls, with clock samples in any order: what it       *)
(* promises whoever calls it and whenever.                                         *)

StoreInit == rows = [id \in RequestIds |-> Absent]

StoreNext ==
  \E at \in Seconds :
    \/ \E c \in Credentials, d \in Documents : Admit(c, d, at)
    \/ \E c \in Credentials, d \in Documents : GetOwned(c, d, at)
    \/ \E id \in RequestIds, a \in Attempts : MarkInProgress(id, a, at)
    \/ \E id \in RequestIds, a \in Attempts : ResetReserved(id, a)
    \/ \E id \in RequestIds, a \in Attempts : MarkAmbiguous(id, a)
    \/ \E id \in RequestIds, a \in Attempts : MarkFailed(id, a)
    \/ \E id \in RequestIds, a \in Attempts, x \in Contents, k \in Keys :
         Complete(id, a, x, k, at)
    \/ \E c \in Credentials, id \in RequestIds, s \in Dispositions :
         Acknowledge(c, id, s, at)
    \/ Maintain(at)
    \/ Initialize(at)

StoreSpec == StoreInit /\ [][StoreNext]_rows

-----------------------------------------------------------------------------------
(* What the table promises.                                                        *)

\* Every row is well formed and filed under the request_id of its own document.
StoreTypeOK ==
  /\ rows \in [RequestIds -> Row \cup {Absent}]
  /\ \A id \in RequestIds : rows[id] # Absent => rows[id].document.request_id = id

\* store.py clears the ciphertext in two places (_cleanup, acknowledge) and writes it
\* in one (complete): a row holds a ciphertext exactly while it is completed, so no
\* result outlives its acknowledgement or expiry and no completed row lacks one.
SealedWhileCompleted ==
  \A id \in RequestIds : rows[id].output # None <=> rows[id].state = "completed"

\* admit's two counts bound the open rows at all times, although rows become open or
\* closed in every other method too.
OpenWithinCapacity ==
  /\ Cardinality(OpenIn(rows)) <= MaxOpenTotal
  /\ \A c \in Credentials : Cardinality(OpenOf(rows, c)) <= MaxOpenPerCredential

\* The states a row may go to in one transaction.  A transaction that forgets a
\* tombstone may file a new request under the same identity.
Successors ==
  [absent       |-> {"reserved"},
   reserved     |-> {"in_progress", "expired"},
   in_progress  |-> {"reserved", "completed", "failed", "ambiguous", "expired"},
   completed    |-> {"acknowledged", "expired"},
   failed       |-> {"expired"},
   ambiguous    |-> {"expired"},
   expired      |-> {"absent", "reserved"},
   acknowledged |-> {"absent", "reserved"}]

\* A request whose outcome is unknown is never put back in line, a completed one never
\* runs again, and a tombstone is only ever forgotten (mark_in_progress and the three
\* settling updates are guarded by state and attempt in their WHERE clauses).
LifecycleRespected ==
  [][\A id \in RequestIds :
       rows'[id].state # rows[id].state =>
         rows'[id].state \in Successors[rows[id].state]]_rows

\* A stored result is given up only for an acknowledgement or for its expiry, which is
\* no earlier than the expires_at the client asked for.
ResultKeptUntilAckOrExpiry ==
  [][\A id \in RequestIds :
       (rows[id].state = "completed" /\ rows'[id] # rows[id]) =>
         /\ rows'[id].document = rows[id].document
         /\ \/ rows'[id].state = "acknowledged" /\ rows'[id].disposition # None
            \/ rows'[id].state = "expired"
                 /\ rows'[id].closed_at >= rows[id].document.expires_at]_rows
===================================================================================
