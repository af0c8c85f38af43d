---------------------------- MODULE RequestStoreProofs ----------------------------
(***********************************************************************************)
(* Theorems of RequestStore, for every set of documents, credentials, attempts and  *)
(* keys, all limits, and clock samples in any order.                               *)
(***********************************************************************************)
EXTENDS RequestStore, FiniteSetTheorems, TLAPS

-----------------------------------------------------------------------------------
(* Rows one by one.                                                                *)

\* What StoreTypeOK and SealedWhileCompleted say of the row filed under id.
GoodRow(id, row) ==
  /\ row \in Row \cup {Absent}
  /\ row # Absent => row.document.request_id = id
  /\ row.output # None <=> row.state = "completed"

\* The conjunction of StoreTypeOK and SealedWhileCompleted, row by row.
GoodTable(table) ==
  /\ table \in [RequestIds -> Row \cup {Absent}]
  /\ \A id \in RequestIds : GoodRow(id, table[id])

\* A transaction that opens no row: what is open after it was open before it, and is
\* owned by the same credential.
OpensNothing(before, after) ==
  \A id \in RequestIds : after[id].state \in OpenStates =>
    /\ before[id].state \in OpenStates
    /\ after[id].credential = before[id].credential

\* _cleanup keeps a row well formed: what it expires loses its ciphertext with its state.
LEMMA CleanedIsGood ==
  ASSUME NEW id, NEW row, NEW at \in Seconds, GoodRow(id, row)
  PROVE  GoodRow(id, Cleaned(row, at))
<1> DEFINE lapsed == Lapse(row, at)
<1>1. GoodRow(id, lapsed)
  <2>1. CASE row.state \in States \ Tombstones /\ row.document.expires_at <= at
    <3>1. lapsed = [row EXCEPT !.state = "expired", !.output = None, !.closed_at = at]
      BY <2>1 DEF Lapse
    <3>2. row # Absent
      BY <2>1 DEF Absent, States, OpenStates, Tombstones
    <3>3. row \in Row
      BY <3>2 DEF GoodRow
    <3>4. lapsed \in Row
      BY <3>1, <3>3 DEF Row, States, Tombstones
    <3>5. lapsed.document = row.document /\ lapsed.output = None /\ lapsed.state = "expired"
      BY <3>1, <3>3 DEF Row
    <3> QED
      BY <3>2, <3>4, <3>5 DEF GoodRow
  <2>2. CASE ~(row.state \in States \ Tombstones /\ row.document.expires_at <= at)
    BY <2>2 DEF Lapse
  <2> QED
    BY <2>1, <2>2
<1>2. GoodRow(id, Absent)
  BY DEF GoodRow, Absent
<1> QED
  BY <1>1, <1>2 DEF Cleaned, Forget

\* A cleaned table is well formed.
LEMMA CleanupIsGood ==
  ASSUME GoodTable(rows), NEW at \in Seconds
  PROVE  GoodTable(Cleanup(at))
<1>1. \A id \in RequestIds : GoodRow(id, Cleaned(rows[id], at))
  BY CleanedIsGood DEF GoodTable
<1>2. \A id \in RequestIds : Cleaned(rows[id], at) \in Row \cup {Absent}
  BY <1>1 DEF GoodRow
<1> QED
  BY <1>1, <1>2 DEF Cleanup, GoodTable

\* initialize() changes the state of interrupted rows and cleans up.
LEMMA InterruptIsGood ==
  ASSUME NEW id, NEW row, GoodRow(id, row)
  PROVE  GoodRow(id, Interrupt(row))
<1>1. CASE row.state = "in_progress"
  <2>1. row \in Row
    BY <1>1 DEF GoodRow, Absent
  <2>2. Interrupt(row) = [row EXCEPT !.state = "ambiguous"]
    BY <1>1 DEF Interrupt
  <2>3. Interrupt(row) \in Row /\ Interrupt(row).state = "ambiguous"
          /\ Interrupt(row).document = row.document /\ Interrupt(row).output = row.output
    BY <2>1, <2>2 DEF Row, States, OpenStates
  <2> QED
    BY <1>1, <2>1, <2>3 DEF GoodRow, Absent
<1>2. CASE row.state # "in_progress"
  BY <1>2 DEF Interrupt
<1> QED
  BY <1>1, <1>2

\* The row an insertion files.
LEMMA ReservedIsGood ==
  ASSUME NEW c \in Credentials, NEW d \in Documents
  PROVE  GoodRow(d.request_id, Reserved(c, d)) /\ Reserved(c, d) \in Row
<1>1. 0 \in Seconds
  BY LimitsAssumption DEF Seconds
<1>2. Reserved(c, d) \in Row
  BY <1>1 DEF Reserved, Row, States, OpenStates
<1> QED
  BY <1>2 DEF Reserved, GoodRow

\* _cleanup opens no row: one that is still open afterwards was not touched.
LEMMA CleanedOpen ==
  ASSUME NEW row, NEW at, Cleaned(row, at).state \in OpenStates
  PROVE  Cleaned(row, at) = row
<1>1. Forget(Lapse(row, at), at) # Absent
  BY DEF Cleaned, Absent, OpenStates
<1>2. Cleaned(row, at) = Lapse(row, at)
  BY <1>1 DEF Cleaned, Forget
<1>3. ASSUME row.state \in States \ Tombstones, row.document.expires_at <= at
      PROVE  FALSE
  <2>1. Lapse(row, at) =
          [row EXCEPT !.state = "expired", !.output = None, !.closed_at = at]
    BY <1>3 DEF Lapse
  <2>2. Lapse(row, at).state \in OpenStates
    BY <1>2
  <2> QED
    BY <2>1, <2>2 DEF OpenStates
<1> QED
  BY <1>2, <1>3 DEF Lapse

\* _cleanup opens no row.
LEMMA CleanupOpensNothing ==
  ASSUME NEW at
  PROVE  OpensNothing(rows, Cleanup(at))
BY CleanedOpen DEF OpensNothing, Cleanup

\* Replacing one row of a well-formed table by a well-formed row.
LEMMA UpdateIsGood ==
  ASSUME NEW table, GoodTable(table), NEW id \in RequestIds, NEW row, GoodRow(id, row)
  PROVE  GoodTable([table EXCEPT ![id] = row])
<1> DEFINE after == [table EXCEPT ![id] = row]
<1>1. after \in [RequestIds -> Row \cup {Absent}]
  BY DEF GoodTable, GoodRow
<1>2. \A i \in RequestIds : after[i] = IF i = id THEN row ELSE table[i]
  BY DEF GoodTable
<1> QED
  BY <1>1, <1>2 DEF GoodTable

\* Nor does an update of one open row after it that keeps its credential.
LEMMA UpdateOpensNothing ==
  ASSUME NEW table, GoodTable(table), OpensNothing(rows, table),
         NEW id \in RequestIds, NEW row,
         row.state \in OpenStates =>
           table[id].state \in OpenStates /\ row.credential = table[id].credential
  PROVE  OpensNothing(rows, [table EXCEPT ![id] = row])
<1>1. \A i \in RequestIds : [table EXCEPT ![id] = row][i] = IF i = id THEN row ELSE table[i]
  BY DEF GoodTable
<1> QED
  BY <1>1 DEF OpensNothing

-----------------------------------------------------------------------------------
(* Transactions one by one.                                                        *)

SafeStep == GoodTable(rows') /\ OpensNothing(rows, rows')

\* A transaction that was rolled back keeps the invariant.
LEMMA UnchangedIsSafe ==
  ASSUME GoodTable(rows), rows' = rows
  PROVE  SafeStep
BY DEF SafeStep, OpensNothing

\* A transaction that only cleans up (maintain, get_owned) keeps the invariant.
LEMMA CleanupIsSafe ==
  ASSUME GoodTable(rows), NEW at \in Seconds, rows' = Cleanup(at)
  PROVE  SafeStep
BY CleanupIsGood, CleanupOpensNothing DEF SafeStep

\* mark_in_progress starts an attempt on a reserved row.
LEMMA MarkInProgressIsSafe ==
  ASSUME GoodTable(rows), NEW id \in RequestIds, NEW a \in Attempts, NEW at \in Seconds,
         MarkInProgress(id, a, at)
  PROVE  SafeStep
<1> DEFINE old == Cleanup(at)[id]
           new == [old EXCEPT !.state = "in_progress", !.attempt = a]
<1>1. GoodTable(Cleanup(at)) /\ OpensNothing(rows, Cleanup(at))
  BY CleanupIsGood, CleanupOpensNothing
<1>2. CASE Markable(id, at)
  <2>1. rows' = [Cleanup(at) EXCEPT ![id] = new]
    BY <1>2 DEF MarkInProgress
  <2>2. old.state = "reserved" /\ GoodRow(id, old)
    BY <1>1, <1>2 DEF Markable, Cleanup, GoodTable
  <2>3. old \in Row /\ old.output = None
    BY <2>2 DEF GoodRow, Absent
  <2>4. new \in Row /\ new.state = "in_progress" /\ new.output = None
          /\ new.document = old.document /\ new.credential = old.credential
    BY <2>3 DEF Row, States, OpenStates
  <2>5. GoodRow(id, new)
    BY <2>2, <2>3, <2>4 DEF GoodRow, Absent
  <2> HIDE DEF old, new
  <2>6. GoodTable(rows')
    BY <1>1, <2>1, <2>5, UpdateIsGood
  <2>7. OpensNothing(rows, rows')
    BY <1>1, <2>1, <2>2, <2>4, UpdateOpensNothing DEF OpenStates, old
  <2> QED
    BY <2>6, <2>7 DEF SafeStep
<1>3. CASE ~Markable(id, at)
  BY <1>3, UnchangedIsSafe DEF MarkInProgress
<1> QED
  BY <1>2, <1>3

\* reset_reserved, mark_ambiguous and mark_failed end an attempt without a result.
LEMMA AttemptEndIsSafe ==
  ASSUME GoodTable(rows), NEW id \in RequestIds, NEW a \in Attempts,
         ResetReserved(id, a) \/ MarkAmbiguous(id, a) \/ MarkFailed(id, a)
  PROVE  SafeStep
<1> DEFINE old == rows[id]
<1>1. CASE OwnsAttempt(old, a)
  <2>1. GoodRow(id, old) /\ old.state = "in_progress"
    BY <1>1 DEF GoodTable, OwnsAttempt
  <2>2. old \in Row /\ old.output = None /\ old.document.request_id = id
    BY <2>1 DEF GoodRow, Absent
  <2>3. PICK new : /\ rows' = [rows EXCEPT ![id] = new]
                   /\ new \in Row
                   /\ new.output = None
                   /\ new.state # "completed"
                   /\ new.document = old.document
                   /\ new.credential = old.credential
    <3>1. CASE ResetReserved(id, a)
      <4> DEFINE new == [old EXCEPT !.state = "reserved", !.attempt = None]
      <4>1. rows' = [rows EXCEPT ![id] = new]
        BY <1>1, <3>1 DEF ResetReserved
      <4>2. /\ new \in Row /\ new.output = None /\ new.state # "completed"
            /\ new.document = old.document /\ new.credential = old.credential
        BY <2>2 DEF Row, States, OpenStates
      <4> QED
        BY <4>1, <4>2
    <3>2. CASE MarkAmbiguous(id, a)
      <4> DEFINE new == [old EXCEPT !.state = "ambiguous"]
      <4>1. rows' = [rows EXCEPT ![id] = new]
        BY <1>1, <3>2 DEF MarkAmbiguous
      <4>2. /\ new \in Row /\ new.output = None /\ new.state # "completed"
            /\ new.document = old.document /\ new.credential = old.credential
        BY <2>2 DEF Row, States, OpenStates
      <4> QED
        BY <4>1, <4>2
    <3>3. CASE MarkFailed(id, a)
      <4> DEFINE new == [old EXCEPT !.state = "failed"]
      <4>1. rows' = [rows EXCEPT ![id] = new]
        BY <1>1, <3>3 DEF MarkFailed
      <4>2. /\ new \in Row /\ new.output = None /\ new.state # "completed"
            /\ new.document = old.document /\ new.credential = old.credential
        BY <2>2 DEF Row, States
      <4> QED
        BY <4>1, <4>2
    <3> QED
      BY <3>1, <3>2, <3>3
  <2>4. GoodRow(id, new)
    BY <2>2, <2>3 DEF GoodRow
  <2>5. GoodTable(rows')
    BY <2>3, <2>4, UpdateIsGood
  <2>6. OpensNothing(rows, rows)
    BY DEF OpensNothing
  <2>7. OpensNothing(rows, rows')
    BY <2>1, <2>3, <2>6, UpdateOpensNothing DEF OpenStates
  <2> QED
    BY <2>5, <2>7 DEF SafeStep
<1>2. CASE ~OwnsAttempt(old, a)
  BY <1>2, UnchangedIsSafe DEF ResetReserved, MarkAmbiguous, MarkFailed
<1> QED
  BY <1>1, <1>2

\* complete writes the ciphertext together with the state.
LEMMA CompleteIsSafe ==
  ASSUME GoodTable(rows), NEW id \in RequestIds, NEW a \in Attempts,
         NEW x \in Contents, NEW k \in Keys, NEW at \in Seconds,
         Complete(id, a, x, k, at)
  PROVE  SafeStep
<1> DEFINE old == Cleanup(at)[id]
           sealed == [content |-> x, key |-> k]
           new == [old EXCEPT !.state = "completed", !.output = sealed]
<1>1. GoodTable(Cleanup(at)) /\ OpensNothing(rows, Cleanup(at))
  BY CleanupIsGood, CleanupOpensNothing
<1>2. CASE CompleteError(id, a, at) = "none"
  <2>1. rows' = [Cleanup(at) EXCEPT ![id] = new]
    BY <1>2 DEF Complete
  <2>2. OwnsAttempt(old, a)
    BY <1>2 DEF CompleteError, Cleanup
  <2>3. GoodRow(id, old) /\ old.state = "in_progress"
    BY <1>1, <2>2 DEF OwnsAttempt, GoodTable
  <2>4. old \in Row /\ old.document.request_id = id
    BY <2>3 DEF GoodRow, Absent
  <2>5. sealed \in Outputs /\ sealed # None
    BY NoneAssumption DEF Outputs
  <2>6. new \in Row /\ new.state = "completed" /\ new.output # None
          /\ new.document = old.document /\ new.credential = old.credential
    BY <2>4, <2>5 DEF Row, States, OpenStates
  <2>7. GoodRow(id, new)
    BY <2>4, <2>6 DEF GoodRow
  <2> HIDE DEF old, new
  <2>8. GoodTable(rows')
    BY <1>1, <2>1, <2>7, UpdateIsGood
  <2>9. OpensNothing(rows, rows')
    BY <1>1, <2>1, <2>3, <2>6, UpdateOpensNothing DEF OpenStates, old
  <2> QED
    BY <2>8, <2>9 DEF SafeStep
<1>3. CASE CompleteError(id, a, at) = "expired"
  BY <1>3, CleanupIsSafe DEF Complete
<1>4. CASE CompleteError(id, a, at) = "not_owner"
  BY <1>4, UnchangedIsSafe DEF Complete
<1> QED
  BY <1>2, <1>3, <1>4 DEF CompleteError

\* acknowledge drops the ciphertext together with the state.
LEMMA AcknowledgeIsSafe ==
  ASSUME GoodTable(rows), NEW c \in Credentials, NEW id \in RequestIds,
         NEW disposition \in Dispositions, NEW at \in Seconds,
         Acknowledge(c, id, disposition, at)
  PROVE  SafeStep
<1> DEFINE old == Cleanup(at)[id]
           new == [old EXCEPT !.state = "acknowledged", !.disposition = disposition,
                              !.output = None, !.closed_at = at]
           error == AcknowledgeError(c, id, disposition, at)
<1>1. GoodTable(Cleanup(at)) /\ OpensNothing(rows, Cleanup(at))
  BY CleanupIsGood, CleanupOpensNothing
<1>2. CASE error = "none" /\ old.state = "completed"
  <2>1. rows' = [Cleanup(at) EXCEPT ![id] = new]
    BY <1>2 DEF Acknowledge
  <2>2. GoodRow(id, old) /\ old \in Row /\ old.document.request_id = id
    BY <1>1, <1>2 DEF GoodTable, GoodRow, Absent
  <2>3. new \in Row /\ new.state = "acknowledged" /\ new.output = None
          /\ new.document = old.document
    BY <2>2 DEF Row, States, Tombstones
  <2>4. GoodRow(id, new)
    BY <2>2, <2>3 DEF GoodRow
  <2> HIDE DEF old, new
  <2>5. GoodTable(rows')
    BY <1>1, <2>1, <2>4, UpdateIsGood
  <2>6. OpensNothing(rows, rows')
    BY <1>1, <2>1, <2>3, UpdateOpensNothing DEF OpenStates
  <2> QED
    BY <2>5, <2>6 DEF SafeStep
<1>3. CASE error # "none"
  BY <1>3, UnchangedIsSafe DEF Acknowledge
<1>4. CASE error = "none" /\ old.state # "completed"
  BY <1>4, CleanupIsSafe DEF Acknowledge
<1> QED
  BY <1>2, <1>3, <1>4

\* initialize turns open rows into open rows of the same owner, and cleans up.
LEMMA InitializeIsSafe ==
  ASSUME GoodTable(rows), NEW at \in Seconds, Initialize(at)
  PROVE  SafeStep
<1>1. \A id \in RequestIds : GoodRow(id, Cleaned(Interrupt(rows[id]), at))
  BY InterruptIsGood, CleanedIsGood DEF GoodTable
<1>2. \A id \in RequestIds : Cleaned(Interrupt(rows[id]), at) \in Row \cup {Absent}
  BY <1>1 DEF GoodRow
<1>3. GoodTable(rows')
  BY <1>1, <1>2 DEF Initialize, GoodTable
<1>4. ASSUME NEW id \in RequestIds, rows'[id].state \in OpenStates
      PROVE  rows[id].state \in OpenStates /\ rows'[id].credential = rows[id].credential
  <2>1. rows'[id] = Interrupt(rows[id])
    BY <1>4, CleanedOpen DEF Initialize
  <2>2. CASE rows[id].state = "in_progress"
    <3>1. rows[id] \in Row
      BY <2>2 DEF GoodTable, GoodRow, Absent
    <3> QED
      BY <2>1, <2>2, <3>1 DEF Interrupt, OpenStates, Row
  <2>3. CASE rows[id].state # "in_progress"
    BY <1>4, <2>1, <2>3 DEF Interrupt
  <2> QED
    BY <2>2, <2>3
<1> QED
  BY <1>3, <1>4 DEF SafeStep, OpensNothing

-----------------------------------------------------------------------------------
(* Admission.                                                                      *)

\* Fewer open rows, and none of another owner, stay within the limits.
LEMMA CapacityShrinks ==
  ASSUME OpenWithinCapacity, OpensNothing(rows, rows')
  PROVE  OpenWithinCapacity'
<1>1. IsFiniteSet(OpenIn(rows))
  BY RequestIdsAssumption, FS_Subset DEF OpenIn
<1>2. OpenIn(rows') \subseteq OpenIn(rows)
  BY DEF OpenIn, OpensNothing
<1>3. Cardinality(OpenIn(rows')) <= Cardinality(OpenIn(rows))
  BY <1>1, <1>2, FS_Subset
<1>4. Cardinality(OpenIn(rows)) \in Nat /\ Cardinality(OpenIn(rows')) \in Nat
  BY <1>1, <1>2, FS_Subset, FS_CardinalityType
<1>5. ASSUME NEW c \in Credentials
      PROVE  Cardinality(OpenOf(rows', c)) <= MaxOpenPerCredential
  <2>1. IsFiniteSet(OpenOf(rows, c))
    BY <1>1, FS_Subset DEF OpenOf
  <2>2. OpenOf(rows', c) \subseteq OpenOf(rows, c)
    BY <1>2 DEF OpenOf, OpenIn, OpensNothing
  <2>3. Cardinality(OpenOf(rows', c)) <= Cardinality(OpenOf(rows, c))
    BY <2>1, <2>2, FS_Subset
  <2>4. Cardinality(OpenOf(rows, c)) \in Nat /\ Cardinality(OpenOf(rows', c)) \in Nat
    BY <2>1, <2>2, FS_Subset, FS_CardinalityType
  <2>5. Cardinality(OpenOf(rows, c)) <= MaxOpenPerCredential
    BY DEF OpenWithinCapacity
  <2> QED
    BY <2>3, <2>4, <2>5, LimitsAssumption
<1>6. Cardinality(OpenIn(rows)) <= MaxOpenTotal
  BY DEF OpenWithinCapacity
<1>7. Cardinality(OpenIn(rows')) <= MaxOpenTotal
  BY <1>3, <1>4, <1>6, LimitsAssumption
<1> QED
  BY <1>5, <1>7 DEF OpenWithinCapacity

\* A finite set below a limit holds one element more within it.
LEMMA RoomForOne ==
  ASSUME NEW S, IsFiniteSet(S), NEW x, NEW limit \in Nat, ~(Cardinality(S) >= limit)
  PROVE  Cardinality(S \cup {x}) <= limit
<1>1. Cardinality(S) \in Nat
  BY FS_CardinalityType
<1>2. IsFiniteSet(S \cup {x})
  BY FS_AddElement
<1>3. Cardinality(S \cup {x}) = Cardinality(S) \/ Cardinality(S \cup {x}) = Cardinality(S) + 1
  BY FS_AddElement
<1> QED
  BY <1>1, <1>3

\* A subset of a finite set within a limit is within it.
LEMMA SmallerIsWithin ==
  ASSUME NEW S, IsFiniteSet(S), NEW T, T \subseteq S, NEW limit \in Nat,
         Cardinality(S) <= limit
  PROVE  Cardinality(T) <= limit
<1>1. Cardinality(T) <= Cardinality(S) /\ IsFiniteSet(T)
  BY FS_Subset
<1>2. Cardinality(S) \in Nat /\ Cardinality(T) \in Nat
  BY <1>1, FS_CardinalityType
<1> QED
  BY <1>1, <1>2

\* admit files a row only where both counts leave room for it.
LEMMA AdmitKeepsBoth ==
  ASSUME GoodTable(rows), OpenWithinCapacity,
         NEW c \in Credentials, NEW d \in Documents, NEW at \in Seconds, Admit(c, d, at)
  PROVE  GoodTable(rows') /\ OpenWithinCapacity'
<1> DEFINE table == Cleanup(at)
           id == d.request_id
           error == AdmitError(c, d, at)
<1>1. GoodTable(table) /\ OpensNothing(rows, table) /\ id \in RequestIds
  BY CleanupIsGood, CleanupOpensNothing, DocumentsAssumption
<1>2. CASE error # "none"
  BY <1>2, UnchangedIsSafe, CapacityShrinks DEF Admit, SafeStep
<1>3. CASE error = "none" /\ table[id] # Absent
  BY <1>3, CleanupIsSafe, CapacityShrinks DEF Admit, SafeStep
<1>4. CASE error = "none" /\ table[id] = Absent
  <2> DEFINE new == Reserved(c, d)
  <2>1. rows' = [table EXCEPT ![id] = new]
    BY <1>4 DEF Admit
  <2>2. GoodRow(id, new) /\ new.credential = c
    BY ReservedIsGood DEF Reserved
  <2>3. GoodTable(rows')
    BY <1>1, <2>1, <2>2, UpdateIsGood
  <2>4. Cleaned(rows[id], at) = Absent
    BY <1>1, <1>4 DEF Cleanup
  <2>5. ~AtCapacity(table, c)
    <3>1. d.expires_at \in Int /\ at \in Int
      BY DocumentsAssumption DEF Seconds
    <3>2. AtCapacity(table, c) /\ d.expires_at > at => error = "capacity"
      BY <2>4, <3>1 DEF AdmitError
    <3>3. d.expires_at <= at => error = "expired"
      BY <2>4, <3>1 DEF AdmitError
    <3> QED
      BY <1>4, <3>1, <3>2, <3>3
  <2>6. IsFiniteSet(OpenIn(table)) /\ \A e : IsFiniteSet(OpenOf(table, e))
    BY RequestIdsAssumption, FS_Subset DEF OpenIn, OpenOf
  <2>7. OpenIn(rows') \subseteq OpenIn(table) \cup {id}
    BY <1>1, <2>1 DEF OpenIn, GoodTable
  <2>8. \A e : OpenOf(rows', e) \subseteq OpenOf(table, e) \cup {id}
    BY <1>1, <2>1 DEF OpenOf, OpenIn, GoodTable
  <2>9. \A e \in Credentials : e # c => OpenOf(rows', e) \subseteq OpenOf(rows, e)
    BY <1>1, <2>1, <2>2 DEF OpenOf, OpenIn, GoodTable, OpensNothing
  <2>10. Cardinality(OpenIn(rows')) <= MaxOpenTotal
    <3>1. ~(Cardinality(OpenIn(table)) >= MaxOpenTotal)
      BY <2>5 DEF AtCapacity
    <3>2. Cardinality(OpenIn(table) \cup {id}) <= MaxOpenTotal
      BY <2>6, <3>1, RoomForOne, LimitsAssumption
    <3> QED
      BY <2>6, <2>7, <3>2, SmallerIsWithin, FS_AddElement, LimitsAssumption
  <2>11. ASSUME NEW e \in Credentials
         PROVE  Cardinality(OpenOf(rows', e)) <= MaxOpenPerCredential
    <3>1. CASE e = c
      <4>1. ~(Cardinality(OpenOf(table, c)) >= MaxOpenPerCredential)
        BY <2>5 DEF AtCapacity
      <4>2. Cardinality(OpenOf(table, c) \cup {id}) <= MaxOpenPerCredential
        BY <2>6, <4>1, RoomForOne, LimitsAssumption
      <4> QED
        BY <2>6, <2>8, <3>1, <4>2, SmallerIsWithin, FS_AddElement, LimitsAssumption
    <3>2. CASE e # c
      <4>1. IsFiniteSet(OpenOf(rows, e))
        BY RequestIdsAssumption, FS_Subset DEF OpenIn, OpenOf
      <4>2. Cardinality(OpenOf(rows, e)) <= MaxOpenPerCredential
        BY DEF OpenWithinCapacity
      <4> QED
        BY <2>9, <3>2, <4>1, <4>2, SmallerIsWithin, LimitsAssumption
    <3> QED
      BY <3>1, <3>2
  <2> QED
    BY <2>3, <2>10, <2>11 DEF OpenWithinCapacity
<1> QED
  BY <1>2, <1>3, <1>4

-----------------------------------------------------------------------------------
(* What a transaction does to one row.                                             *)

\* One method that neither files a row nor acknowledges one, called with the sample `at`.
AttemptCall(at) ==
  \/ \E c \in Credentials, d \in Documents : GetOwned(c, d, at)
  \/ \E id \in RequestIds, a \in Attempts : MarkInProgress(id, a, at)
  \/ \E id \in RequestIds, a \in Attempts :
       ResetReserved(id, a) \/ MarkAmbiguous(id, a) \/ MarkFailed(id, a)
  \/ \E id \in RequestIds, a \in Attempts, x \in Contents, k \in Keys :
       Complete(id, a, x, k, at)
  \/ Maintain(at)
  \/ Initialize(at)

\* One method.
StoreCall(at) ==
  \/ \E c \in Credentials, d \in Documents : Admit(c, d, at)
  \/ \E c \in Credentials, id \in RequestIds, s \in Dispositions :
       Acknowledge(c, id, s, at)
  \/ AttemptCall(at)

\* The row reached its expiry.
Lapses(old, new, at) ==
  /\ old.state \in States \ Tombstones
  /\ old.document.expires_at <= at
  /\ new.state = "expired"
  /\ new.document = old.document
  /\ new.closed_at = at

\* The tombstone is past its retention; its place may be taken.
Forgets(old, new, at) ==
  /\ old.state \in Tombstones
  /\ old.closed_at < at - Retention
  /\ new.state \in {"absent", "reserved"}

\* The attempt on the request begins or ends.
Attempted(old, new) ==
  \/ old.state = "reserved" /\ new.state = "in_progress"
  \/ old.state = "in_progress" /\ new.state \in {"reserved", "completed", "failed", "ambiguous"}

\* The request moves along its life.
Advances(old, new) ==
  \/ old.state = "absent" /\ new.state = "reserved"
  \/ Attempted(old, new)
  \/ old.state = "completed" /\ new.state = "acknowledged"
       /\ new.document = old.document /\ new.disposition # None

RowMoves(old, new, at) ==
  new = old \/ Lapses(old, new, at) \/ Forgets(old, new, at) \/ Advances(old, new)

\* The same where no request is filed or acknowledged.
RowRuns(old, new, at) ==
  \/ new = old
  \/ Lapses(old, new, at)
  \/ Forgets(old, new, at) /\ new.state = "absent"
  \/ Attempted(old, new)

\* Such a row moves.
LEMMA RunsMove ==
  ASSUME NEW old, NEW new, NEW at, RowRuns(old, new, at)
  PROVE  RowMoves(old, new, at)
BY DEF RowRuns, RowMoves, Advances

\* _cleanup leaves a row alone, expires it, or forgets it; never two of these at once, as
\* the retention is not zero.
LEMMA CleanedMoves ==
  ASSUME NEW row \in Row \cup {Absent}, NEW at \in Seconds
  PROVE  \/ Cleaned(row, at) = row
         \/ Lapses(row, Cleaned(row, at), at)
         \/ Forgets(row, Cleaned(row, at), at) /\ Cleaned(row, at) = Absent
<1>1. CASE row.state \in States \ Tombstones /\ row.document.expires_at <= at
  <2> DEFINE new == [row EXCEPT !.state = "expired", !.output = None, !.closed_at = at]
  <2>1. row \in Row
    BY <1>1 DEF Absent, States, OpenStates, Tombstones
  <2>2. new.state = "expired" /\ new.document = row.document /\ new.closed_at = at
    BY <2>1 DEF Row
  <2>3. Lapse(row, at) = new
    BY <1>1 DEF Lapse
  <2>4. ~(new.closed_at < at - Retention)
    BY <2>2, LimitsAssumption DEF Seconds
  <2>5. Cleaned(row, at) = new
    BY <2>3, <2>4 DEF Cleaned, Forget
  <2> QED
    BY <1>1, <2>2, <2>5 DEF Lapses
<1>2. CASE ~(row.state \in States \ Tombstones /\ row.document.expires_at <= at)
  <2>1. Lapse(row, at) = row
    BY <1>2 DEF Lapse
  <2>2. Absent.state = "absent"
    BY DEF Absent
  <2> QED
    BY <2>1, <2>2 DEF Cleaned, Forget, Forgets
<1> QED
  BY <1>1, <1>2

\* So a transaction that only cleans up moves every row, or none.
LEMMA CleanupMoves ==
  ASSUME GoodTable(rows), NEW at \in Seconds, NEW id \in RequestIds
  PROVE  RowRuns(rows[id], Cleanup(at)[id], at)
BY CleanedMoves DEF GoodTable, Cleanup, RowRuns, Absent

\* A row that is neither a tombstone nor absent after a cleanup was left alone by it.
LEMMA CleanupKeepsRow ==
  ASSUME GoodTable(rows), NEW at \in Seconds, NEW id \in RequestIds,
         Cleanup(at)[id].state \in {"reserved", "in_progress", "completed"}
  PROVE  Cleanup(at)[id] = rows[id]
BY CleanedOpen DEF Cleanup, OpenStates

\* A table that is cleaned and then changed in one row that was still open.
LEMMA UpdateMoves ==
  ASSUME GoodTable(rows), NEW at \in Seconds, NEW id \in RequestIds, NEW new,
         rows' = [Cleanup(at) EXCEPT ![id] = new]
  PROVE  /\ rows'[id] = new
         /\ \A i \in RequestIds \ {id} : RowRuns(rows[i], rows'[i], at)
<1>1. \A i \in RequestIds : rows'[i] = IF i = id THEN new ELSE Cleanup(at)[i]
  BY DEF Cleanup
<1> QED
  BY <1>1, CleanupMoves

\* admit files a new row only where there is none, or a tombstone that is forgotten.
LEMMA AdmitMoves ==
  ASSUME GoodTable(rows), NEW c \in Credentials, NEW d \in Documents, NEW at \in Seconds,
         Admit(c, d, at)
  PROVE  \A i \in RequestIds : RowMoves(rows[i], rows'[i], at)
<1> DEFINE id == d.request_id
           error == AdmitError(c, d, at)
<1>1. CASE error # "none"
  BY <1>1 DEF Admit, RowMoves
<1>2. CASE error = "none" /\ Cleanup(at)[id] # Absent
  <2>1. rows' = Cleanup(at)
    BY <1>2 DEF Admit
  <2> QED
    BY <2>1, CleanupMoves, RunsMove
<1>3. CASE error = "none" /\ Cleanup(at)[id] = Absent
  <2>1. rows' = [Cleanup(at) EXCEPT ![id] = Reserved(c, d)]
    BY <1>3 DEF Admit
  <2>2. id \in RequestIds
    BY DocumentsAssumption
  <2>3. rows[id] \in Row \cup {Absent} /\ Cleaned(rows[id], at) = Absent
    BY <1>3, <2>2 DEF GoodTable, Cleanup
  <2>4. Reserved(c, d).state = "reserved" /\ Absent.state = "absent"
    BY DEF Reserved, Absent
  <2>5. RowMoves(rows[id], Reserved(c, d), at)
    <3>1. CASE rows[id] = Absent
      BY <2>4, <3>1 DEF RowMoves, Advances
    <3>2. CASE Lapses(rows[id], Absent, at)
      BY <2>4, <3>2 DEF Lapses
    <3>3. CASE Forgets(rows[id], Absent, at)
      BY <2>4, <3>3 DEF RowMoves, Forgets
    <3> QED
      BY <2>3, <3>1, <3>2, <3>3, CleanedMoves
  <2> QED
    BY <2>1, <2>2, <2>5, UpdateMoves, RunsMove
<1> QED
  BY <1>1, <1>2, <1>3

\* The methods of an attempt change one row, and only a request in line or at work.
LEMMA OwnedMoves ==
  ASSUME GoodTable(rows), NEW id \in RequestIds, NEW a, NEW at \in Seconds,
         \/ MarkInProgress(id, a, at)
         \/ ResetReserved(id, a) \/ MarkAmbiguous(id, a) \/ MarkFailed(id, a)
         \/ \E x, k : Complete(id, a, x, k, at)
  PROVE  \A i \in RequestIds : RowRuns(rows[i], rows'[i], at)
<1> DEFINE old == Cleanup(at)[id]
<1>1. CASE rows' = rows
  BY <1>1 DEF RowRuns
<1>2. CASE rows' = Cleanup(at)
  BY <1>2, CleanupMoves
<1>3. CASE MarkInProgress(id, a, at) /\ Markable(id, at)
  <2> DEFINE new == [old EXCEPT !.state = "in_progress", !.attempt = a]
  <2>1. rows' = [Cleanup(at) EXCEPT ![id] = new]
    BY <1>3 DEF MarkInProgress
  <2>2. old.state = "reserved" /\ old = rows[id]
    BY <1>3, CleanupKeepsRow DEF Markable, Cleanup
  <2>3. old \in Row
    BY <2>2 DEF GoodTable, Absent
  <2>4. new.state = "in_progress"
    BY <2>3 DEF Row
  <2> HIDE DEF new
  <2>5. RowRuns(rows[id], new, at)
    BY <2>2, <2>4 DEF RowRuns, Attempted
  <2> QED
    BY <2>1, <2>5, UpdateMoves
<1>4. CASE OwnsAttempt(rows[id], a)
           /\ (ResetReserved(id, a) \/ MarkAmbiguous(id, a) \/ MarkFailed(id, a))
  <2>1. rows[id] \in Row /\ rows[id].state = "in_progress"
    BY <1>4 DEF GoodTable, Absent, OwnsAttempt
  <2>2. PICK new : /\ rows' = [rows EXCEPT ![id] = new]
                   /\ new.state \in {"reserved", "ambiguous", "failed"}
    <3> DEFINE reserved == [rows[id] EXCEPT !.state = "reserved", !.attempt = None]
               ended(s) == [rows[id] EXCEPT !.state = s]
    <3>1. reserved.state = "reserved" /\ \A s : ended(s).state = s
      BY <2>1 DEF Row
    <3>2. CASE ResetReserved(id, a)
      <4>1. rows' = [rows EXCEPT ![id] = reserved]
        BY <1>4, <3>2 DEF ResetReserved
      <4> QED
        BY <3>1, <4>1
    <3>3. CASE MarkAmbiguous(id, a)
      <4>1. rows' = [rows EXCEPT ![id] = ended("ambiguous")]
        BY <1>4, <3>3 DEF MarkAmbiguous
      <4> QED
        BY <3>1, <4>1
    <3>4. CASE MarkFailed(id, a)
      <4>1. rows' = [rows EXCEPT ![id] = ended("failed")]
        BY <1>4, <3>4 DEF MarkFailed
      <4> QED
        BY <3>1, <4>1
    <3> QED
      BY <1>4, <3>2, <3>3, <3>4
  <2>3. \A i \in RequestIds : rows'[i] = IF i = id THEN new ELSE rows[i]
    BY <2>2 DEF GoodTable
  <2> QED
    BY <2>1, <2>2, <2>3 DEF RowRuns, Attempted
<1>5. ASSUME NEW x, NEW k, Complete(id, a, x, k, at), CompleteError(id, a, at) = "none"
      PROVE  \A i \in RequestIds : RowRuns(rows[i], rows'[i], at)
  <2> DEFINE new == [old EXCEPT !.state = "completed", !.output = [content |-> x, key |-> k]]
  <2>1. rows' = [Cleanup(at) EXCEPT ![id] = new]
    BY <1>5 DEF Complete
  <2>2. OwnsAttempt(old, a)
    BY <1>5 DEF CompleteError, Cleanup
  <2>3. old.state = "in_progress" /\ old = rows[id]
    BY <2>2, CleanupKeepsRow DEF OwnsAttempt
  <2>4. old \in Row
    BY <2>3 DEF GoodTable, Absent
  <2>5. new.state = "completed"
    BY <2>4 DEF Row
  <2> HIDE DEF new
  <2>6. RowRuns(rows[id], new, at)
    BY <2>3, <2>5 DEF RowRuns, Attempted
  <2> QED
    BY <2>1, <2>6, UpdateMoves
<1> QED
  BY <1>1, <1>2, <1>3, <1>4, <1>5
  DEF MarkInProgress, ResetReserved, MarkAmbiguous, MarkFailed, Complete, CompleteError

\* acknowledge closes a completed row for good.
LEMMA AcknowledgeMoves ==
  ASSUME GoodTable(rows), NEW c, NEW id \in RequestIds, NEW s \in Dispositions,
         NEW at \in Seconds, Acknowledge(c, id, s, at)
  PROVE  \A i \in RequestIds : RowMoves(rows[i], rows'[i], at)
<1> DEFINE old == Cleanup(at)[id]
           new == [old EXCEPT !.state = "acknowledged", !.disposition = s,
                              !.output = None, !.closed_at = at]
<1>1. CASE rows' = rows
  BY <1>1 DEF RowMoves
<1>2. CASE rows' = Cleanup(at)
  BY <1>2, CleanupMoves, RunsMove
<1>3. CASE AcknowledgeError(c, id, s, at) = "none" /\ old.state = "completed"
  <2>1. rows' = [Cleanup(at) EXCEPT ![id] = new]
    BY <1>3 DEF Acknowledge
  <2>2. old = rows[id]
    BY <1>3, CleanupKeepsRow
  <2>3. old \in Row
    BY <1>3, <2>2 DEF GoodTable, Absent
  <2>4. new.state = "acknowledged" /\ new.document = old.document /\ new.disposition # None
    BY <2>3, NoneAssumption DEF Row
  <2> HIDE DEF new
  <2>5. RowMoves(rows[id], new, at)
    BY <1>3, <2>2, <2>4 DEF RowMoves, Advances
  <2> QED
    BY <2>1, <2>5, UpdateMoves, RunsMove
<1> QED
  BY <1>1, <1>2, <1>3 DEF Acknowledge

\* initialize interrupts attempts, and may expire what it has interrupted.
LEMMA InitializeMoves ==
  ASSUME GoodTable(rows), NEW at \in Seconds, Initialize(at), NEW i \in RequestIds
  PROVE  RowRuns(rows[i], rows'[i], at)
<1> DEFINE row == Interrupt(rows[i])
<1>1. rows'[i] = Cleaned(row, at) /\ rows[i] \in Row \cup {Absent}
  BY DEF Initialize, GoodTable
<1>2. CASE rows[i].state = "in_progress"
  <2>1. rows[i] \in Row
    BY <1>1, <1>2 DEF Absent
  <2>2. row = [rows[i] EXCEPT !.state = "ambiguous"]
    BY <1>2 DEF Interrupt
  <2>3. row \in Row /\ row.state = "ambiguous" /\ row.document = rows[i].document
    BY <2>1, <2>2 DEF Row, States, OpenStates
  <2>4. CASE Cleaned(row, at) = row
    BY <1>1, <1>2, <2>3, <2>4 DEF RowRuns, Attempted
  <2>5. CASE Lapses(row, Cleaned(row, at), at)
    BY <1>1, <1>2, <2>3, <2>5 DEF RowRuns, Lapses, States, OpenStates, Tombstones
  <2>6. CASE Forgets(row, Cleaned(row, at), at)
    BY <2>3, <2>6 DEF Forgets, Tombstones
  <2> QED
    BY <2>3, <2>4, <2>5, <2>6, CleanedMoves
<1>3. CASE rows[i].state # "in_progress"
  BY <1>1, <1>3, CleanedMoves DEF Interrupt, RowRuns, Absent
<1> QED
  BY <1>2, <1>3

\* Whatever method is called, each row stays, expires, is forgotten, or advances: by an
\* attempt, unless it is filed or acknowledged.
LEMMA AttemptCallRuns ==
  ASSUME GoodTable(rows), NEW at \in Seconds, AttemptCall(at)
  PROVE  \A id \in RequestIds : RowRuns(rows[id], rows'[id], at)
<1>1. ASSUME NEW c \in Credentials, NEW d \in Documents, GetOwned(c, d, at)
      PROVE  \A id \in RequestIds : RowRuns(rows[id], rows'[id], at)
  <2>1. rows' = Cleanup(at) \/ rows' = rows
    BY <1>1 DEF GetOwned
  <2> QED
    BY <2>1, CleanupMoves DEF RowRuns
<1>2. CASE Maintain(at)
  BY <1>2, CleanupMoves DEF Maintain
<1> QED
  BY <1>1, <1>2, OwnedMoves, InitializeMoves DEF AttemptCall

\* The same for all methods.
LEMMA CallMoves ==
  ASSUME GoodTable(rows), NEW at \in Seconds, StoreCall(at)
  PROVE  \A id \in RequestIds : RowMoves(rows[id], rows'[id], at)
BY AttemptCallRuns, RunsMove, AdmitMoves, AcknowledgeMoves DEF StoreCall

-----------------------------------------------------------------------------------
(* What the other methods leave alone.                                             *)

\* No row becomes completed.
CompletedStay ==
  \A id \in RequestIds : rows'[id].state = "completed" => rows'[id] = rows[id]

\* No method but complete() makes a row completed.
LEMMA OnlyCompleteCompletes ==
  ASSUME GoodTable(rows),
         \/ rows' = rows
         \/ \E at, c, d : Admit(c, d, at) \/ GetOwned(c, d, at)
         \/ \E at, a : \E id \in RequestIds : MarkInProgress(id, a, at)
         \/ \E at, c, s : \E id \in RequestIds : Acknowledge(c, id, s, at)
         \/ \E at : Maintain(at) \/ Initialize(at)
         \/ \E a : \E id \in RequestIds :
              ResetReserved(id, a) \/ MarkAmbiguous(id, a) \/ MarkFailed(id, a)
  PROVE  CompletedStay
<1> SUFFICES ASSUME NEW i \in RequestIds, rows'[i].state = "completed"
             PROVE  rows'[i] = rows[i]
  BY DEF CompletedStay
<1>1. \A at : Cleanup(at)[i].state = "completed" => Cleanup(at)[i] = rows[i]
  BY CleanedOpen DEF Cleanup, OpenStates
<1>2. ASSUME NEW at, NEW c, NEW d, Admit(c, d, at)
      PROVE  rows'[i] = rows[i]
  <2>1. \/ rows' = rows \/ rows' = Cleanup(at)
        \/ rows' = [Cleanup(at) EXCEPT ![d.request_id] = Reserved(c, d)]
    BY <1>2 DEF Admit
  <2>2. Reserved(c, d).state # "completed"
    BY DEF Reserved
  <2> QED
    BY <1>1, <2>1, <2>2 DEF Cleanup
<1>3. ASSUME NEW at, (\E c, d : GetOwned(c, d, at)) \/ Maintain(at)
      PROVE  rows'[i] = rows[i]
  BY <1>1, <1>3 DEF GetOwned, Maintain
<1>4. ASSUME NEW at, NEW id \in RequestIds, NEW a, MarkInProgress(id, a, at)
      PROVE  rows'[i] = rows[i]
  <2> DEFINE new == [Cleanup(at)[id] EXCEPT !.state = "in_progress", !.attempt = a]
  <2>1. \/ rows' = rows
        \/ rows' = [Cleanup(at) EXCEPT ![id] = new] /\ Markable(id, at)
    BY <1>4 DEF MarkInProgress, Cleanup
  <2>2. Markable(id, at) => new.state = "in_progress"
    <3>1. ASSUME Markable(id, at) PROVE Cleanup(at)[id] \in Row
      BY <3>1, CleanedOpen DEF Markable, Cleanup, OpenStates, GoodTable, GoodRow, Absent
    <3> QED
      BY <3>1 DEF Row
  <2> HIDE DEF new
  <2> QED
    BY <1>1, <2>1, <2>2 DEF Cleanup
<1>5. ASSUME NEW at, NEW c, NEW id \in RequestIds, NEW s, Acknowledge(c, id, s, at)
      PROVE  rows'[i] = rows[i]
  <2> DEFINE old == Cleanup(at)[id]
             new == [old EXCEPT !.state = "acknowledged", !.disposition = s, !.output = None,
                                !.closed_at = at]
  <2>1. \/ rows' = rows \/ rows' = Cleanup(at)
        \/ rows' = [Cleanup(at) EXCEPT ![id] = new] /\ old.state = "completed"
    BY <1>5 DEF Acknowledge, Cleanup
  <2>2. old.state = "completed" => new.state = "acknowledged"
    <3>1. ASSUME old.state = "completed" PROVE old \in Row
      BY <3>1, CleanedOpen DEF Cleanup, OpenStates, GoodTable, GoodRow, Absent
    <3> QED
      BY <3>1 DEF Row
  <2> HIDE DEF new
  <2> QED
    BY <1>1, <2>1, <2>2 DEF Cleanup
<1>6. ASSUME NEW at, Initialize(at)
      PROVE  rows'[i] = rows[i]
  <2>1. rows'[i] = Interrupt(rows[i])
    BY <1>6, CleanedOpen DEF Initialize, OpenStates
  <2>2. CASE rows[i].state = "in_progress"
    <3>1. rows[i] \in Row
      BY <2>2 DEF GoodTable, GoodRow, Absent
    <3> QED
      BY <2>1, <2>2, <3>1 DEF Interrupt, Row
  <2> QED
    BY <2>1, <2>2 DEF Interrupt
<1>7. ASSUME NEW id \in RequestIds, NEW a,
             ResetReserved(id, a) \/ MarkAmbiguous(id, a) \/ MarkFailed(id, a)
      PROVE  rows'[i] = rows[i]
  <2>1. CASE OwnsAttempt(rows[id], a)
    <3>1. rows[id] \in Row
      BY <2>1 DEF OwnsAttempt, GoodTable, GoodRow, Absent
    <3> QED
      BY <1>7, <2>1, <3>1 DEF ResetReserved, MarkAmbiguous, MarkFailed, Row, GoodTable
  <2> QED
    BY <1>7, <2>1 DEF ResetReserved, MarkAmbiguous, MarkFailed
<1> QED
  BY <1>2, <1>3, <1>4, <1>5, <1>6, <1>7



-----------------------------------------------------------------------------------
(* Theorems.                                                                       *)

StoreInv == GoodTable(rows) /\ OpenWithinCapacity

\* The empty table of _create_schema satisfies the invariant.
LEMMA StoreInitially == StoreInit => StoreInv
<1> SUFFICES ASSUME StoreInit PROVE StoreInv
  OBVIOUS
<1>1. \A id \in RequestIds : rows[id] = Absent
  BY DEF StoreInit
<1>2. GoodTable(rows)
  BY <1>1 DEF StoreInit, GoodTable, GoodRow, Absent
<1>3. OpenIn(rows) = {} /\ \A c \in Credentials : OpenOf(rows, c) = {}
  BY <1>1 DEF OpenIn, OpenOf, Absent, OpenStates
<1>4. Cardinality({}) = 0
  BY FS_EmptySet
<1>5. OpenWithinCapacity
  BY <1>3, <1>4, LimitsAssumption DEF OpenWithinCapacity
<1> QED
  BY <1>2, <1>5 DEF StoreInv

\* Every method of RequestStore keeps the invariant.
LEMMA StoreStep == StoreInv /\ [StoreNext]_rows => StoreInv'
<1> SUFFICES ASSUME StoreInv, [StoreNext]_rows PROVE StoreInv'
  OBVIOUS
<1> USE DEF StoreInv
<1>1. SafeStep => StoreInv'
  BY CapacityShrinks DEF SafeStep, GoodTable, GoodRow
<1>2. CASE rows' = rows
  BY <1>1, <1>2, UnchangedIsSafe
<1>3. CASE StoreNext
  <2>1. PICK at \in Seconds :
          \/ \E c \in Credentials, d \in Documents : Admit(c, d, at)
          \/ \E c \in Credentials, d \in Documents : GetOwned(c, d, at)
          \/ \E id \in RequestIds, a \in Attempts : MarkInProgress(id, a, at)
          \/ \E id \in RequestIds, a \in Attempts :
               ResetReserved(id, a) \/ MarkAmbiguous(id, a) \/ MarkFailed(id, a)
          \/ \E id \in RequestIds, a \in Attempts, x \in Contents, k \in Keys :
               Complete(id, a, x, k, at)
          \/ \E c \in Credentials, id \in RequestIds, s \in Dispositions :
               Acknowledge(c, id, s, at)
          \/ Maintain(at)
          \/ Initialize(at)
    BY <1>3 DEF StoreNext
  <2>2. ASSUME NEW c \in Credentials, NEW d \in Documents, Admit(c, d, at)
        PROVE  StoreInv'
    BY <2>2, AdmitKeepsBoth DEF GoodTable, GoodRow
  <2>3. ASSUME NEW c \in Credentials, NEW d \in Documents, GetOwned(c, d, at)
        PROVE  StoreInv'
    BY <1>1, <2>3, CleanupIsSafe, UnchangedIsSafe DEF GetOwned
  <2>4. ASSUME NEW id \in RequestIds, NEW a \in Attempts, MarkInProgress(id, a, at)
        PROVE  StoreInv'
    BY <1>1, <2>4, MarkInProgressIsSafe
  <2>5. ASSUME NEW id \in RequestIds, NEW a \in Attempts,
               ResetReserved(id, a) \/ MarkAmbiguous(id, a) \/ MarkFailed(id, a)
        PROVE  StoreInv'
    BY <1>1, <2>5, AttemptEndIsSafe
  <2>6. ASSUME NEW id \in RequestIds, NEW a \in Attempts, NEW x \in Contents, NEW k \in Keys,
               Complete(id, a, x, k, at)
        PROVE  StoreInv'
    BY <1>1, <2>6, CompleteIsSafe
  <2>7. ASSUME NEW c \in Credentials, NEW id \in RequestIds, NEW s \in Dispositions,
               Acknowledge(c, id, s, at)
        PROVE  StoreInv'
    BY <1>1, <2>7, AcknowledgeIsSafe
  <2>8. CASE Maintain(at)
    BY <1>1, <2>8, CleanupIsSafe DEF Maintain
  <2>9. CASE Initialize(at)
    BY <1>1, <2>9, InitializeIsSafe
  <2> QED
    BY <2>1, <2>2, <2>3, <2>4, <2>5, <2>6, <2>7, <2>8, <2>9
<1> QED
  BY <1>2, <1>3

\* The inductive invariant holds whatever methods are called, in whatever order.
THEOREM StoreInvariant == StoreSpec => []StoreInv
BY StoreInitially, StoreStep, PTL DEF StoreSpec

\* Whatever is called, whenever, with whatever clock sample, every row is well formed
\* and filed under its own request_id.
THEOREM StoreTypeCorrect == StoreSpec => []StoreTypeOK
<1>1. StoreInv => StoreTypeOK
  BY DEF StoreInv, GoodTable, GoodRow, StoreTypeOK
<1> QED
  BY <1>1, StoreInvariant, PTL

\* A row holds a ciphertext exactly while it is completed: acknowledgement, expiry and
\* restart leave none behind (store.py:412-450, 461-494, 518-528).
THEOREM CiphertextOnlyWhileCompleted == StoreSpec => []SealedWhileCompleted
<1>1. StoreInv => SealedWhileCompleted
  BY DEF StoreInv, GoodTable, GoodRow, SealedWhileCompleted
<1> QED
  BY <1>1, StoreInvariant, PTL

\* The open rows never exceed the limits of admit (store.py:295-307), in total or for
\* one credential, for every number of identities and credentials.
THEOREM AdmissionBounded == StoreSpec => []OpenWithinCapacity
<1>1. StoreInv => OpenWithinCapacity
  BY DEF StoreInv
<1> QED
  BY <1>1, StoreInvariant, PTL

\* A step of the table is one call.
LEMMA StepIsCall == StoreNext => \E at \in Seconds : StoreCall(at)
BY DEF StoreNext, StoreCall, AttemptCall

\* Every state change of a row is one its life cycle has, whatever samples the calls bring
\* and whoever makes them: nothing of unknown outcome is put back in line, and a closed
\* request stays closed until it is forgotten (store.py:178-494, 518-536).
THEOREM LifecycleHolds == StoreSpec => LifecycleRespected
<1>1. ASSUME GoodTable(rows), [StoreNext]_rows, NEW id \in RequestIds,
             rows'[id].state # rows[id].state
      PROVE  rows'[id].state \in Successors[rows[id].state]
  <2>1. PICK at \in Seconds : RowMoves(rows[id], rows'[id], at)
    BY <1>1, StepIsCall, CallMoves
  <2>2. CASE Lapses(rows[id], rows'[id], at)
    BY <2>2 DEF Lapses, Successors, States, OpenStates, Tombstones
  <2>3. CASE Forgets(rows[id], rows'[id], at)
    BY <2>3 DEF Forgets, Successors, Tombstones
  <2>4. CASE Advances(rows[id], rows'[id])
    BY <2>4 DEF Advances, Attempted, Successors
  <2> QED
    BY <1>1, <2>1, <2>2, <2>3, <2>4 DEF RowMoves
<1>2. StoreInv /\ [StoreNext]_rows =>
        [\A id \in RequestIds :
           rows'[id].state # rows[id].state =>
             rows'[id].state \in Successors[rows[id].state]]_rows
  BY <1>1 DEF StoreInv, GoodTable, GoodRow
<1> QED
  BY <1>2, StoreInvariant, PTL DEF StoreSpec, LifecycleRespected

\* A stored result goes by its acknowledgement, or by its expiry and then not before it
\* (store.py:461-494, 518-528).
THEOREM ResultsAreKept == StoreSpec => ResultKeptUntilAckOrExpiry
<1> DEFINE Kept(id) ==
      (rows[id].state = "completed" /\ rows'[id] # rows[id]) =>
        /\ rows'[id].document = rows[id].document
        /\ \/ rows'[id].state = "acknowledged" /\ rows'[id].disposition # None
           \/ rows'[id].state = "expired"
                /\ rows'[id].closed_at >= rows[id].document.expires_at
<1>1. ASSUME StoreInv, [StoreNext]_rows, NEW id \in RequestIds,
             rows[id].state = "completed", rows'[id] # rows[id]
      PROVE  Kept(id)
  <2>1. GoodTable(rows)
    BY <1>1 DEF StoreInv, GoodTable, GoodRow
  <2>2. PICK at \in Seconds : RowMoves(rows[id], rows'[id], at)
    BY <1>1, <2>1, StepIsCall, CallMoves
  <2>3. rows[id].document.expires_at \in Int
    BY <1>1, <2>1, DocumentsAssumption DEF GoodTable, Row, Absent
  <2>4. CASE Lapses(rows[id], rows'[id], at)
    BY <2>3, <2>4 DEF Lapses, Seconds
  <2>5. CASE Advances(rows[id], rows'[id])
    BY <1>1, <2>5 DEF Advances, Attempted
  <2>6. ~Forgets(rows[id], rows'[id], at)
    BY <1>1 DEF Forgets, Tombstones
  <2> QED
    BY <1>1, <2>2, <2>4, <2>5, <2>6 DEF RowMoves
<1>2. StoreInv /\ [StoreNext]_rows => [\A id \in RequestIds : Kept(id)]_rows
  BY <1>1
<1> QED
  BY <1>2, StoreInvariant, PTL DEF StoreSpec, ResultKeptUntilAckOrExpiry
===================================================================================
