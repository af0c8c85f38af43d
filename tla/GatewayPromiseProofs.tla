---------------------------- MODULE GatewayPromiseProofs ---------------------------
(***********************************************************************************)
(* What the gateway promises on both sides, for every number of threads, documents,   *)
(* credentials, attempts and keys, under the condition that tombstones outlast the     *)
(* documents they guard: GatewayService implements InferencePromise, the promise to    *)
(* its clients, and GatewayWithWorker calls the worker as WorkerPromise asks.          *)
(***********************************************************************************)
EXTENDS GatewayServiceProofs, GatewayWithWorker

-----------------------------------------------------------------------------------
(* What is known of completed rows.                                                *)

\* A completed row was paid for with a call, and no call is at work on its document.
DoneGood ==
  /\ \A id \in RequestIds : rows[id].state = "completed" => calls[rows[id].document] = 1
  /\ \A t \in Threads : Attempting(t) =>
       ~(RowOf(t).state = "completed" /\ RowOf(t).document = thread[t].document)

\* Attempts end, and none begins.
AttemptsStay ==
  \A t \in Threads :
    Attempting(t)' => Attempting(t) /\ thread'[t].document = thread[t].document

\* What is known of completed rows, where no row becomes completed.
LEMMA DoneStays ==
  ASSUME DoneGood, CompletedStay,
         \A id \in RequestIds : rows[id].state = "completed" => calls'[rows[id].document] = 1,
         \A t \in Threads : Attempting(t)' =>
           \/ Attempting(t) /\ thread'[t].document = thread[t].document
                            /\ thread[t].document \in Documents
           \/ RowOf(t)'.state # "completed"
  PROVE  DoneGood'
<1>1. \A id \in RequestIds : rows'[id].state = "completed" => calls'[rows'[id].document] = 1
  BY DEF CompletedStay
<1>2. ASSUME NEW t \in Threads, Attempting(t)',
             RowOf(t)'.state = "completed", RowOf(t)'.document = thread'[t].document
      PROVE  FALSE
  <2>1. Attempting(t) /\ thread'[t].document = thread[t].document /\ IdOf(t) \in RequestIds
    BY <1>2, DocumentsAssumption DEF IdOf
  <2>2. RowOf(t)' = RowOf(t)
    BY <1>2, <2>1 DEF CompletedStay, RowOf, IdOf
  <2> QED
    BY <1>2, <2>1, <2>2 DEF DoneGood
<1> QED
  BY <1>1, <1>2 DEF DoneGood

\* The same for a step that begins no attempt and counts nothing.
LEMMA DoneStaysQuietly ==
  ASSUME Good, DoneGood, CompletedStay, AttemptsStay, calls' = calls
  PROVE  DoneGood'
<1>1. \A t \in Threads : Attempting(t) => thread[t].document \in Documents
  BY OwnersAreTyped DEF Good, Attempting, Owner, OwnerSteps
<1> QED
  BY <1>1, DoneStays DEF AttemptsStay, DoneGood

-----------------------------------------------------------------------------------
(* The steps of the promise.                                                       *)

Called == IF Calling = {} THEN None ELSE CHOOSE d \in Calling : TRUE
Spent == {d \in Documents : calls[d] > 0} \ Calling

StillCalling ==
  \A t \in Threads :
    /\ thread'[t].pc = "worker" <=> thread[t].pc = "worker"
    /\ thread[t].pc = "worker" => thread'[t].document = thread[t].document

PromiseStep == [Promise!PromiseNext]_(Promise!promiseVars)

\* The documents the threads of a table of calls are at a worker with: none,
LEMMA NobodyCalls ==
  ASSUME NEW calling, \A t \in Threads : calling[t].pc # "worker"
  PROVE  {calling[t].document : t \in {u \in Threads : calling[u].pc = "worker"}} = {}
OBVIOUS

\* or one.
LEMMA OneCalls ==
  ASSUME NEW calling, NEW t \in Threads, calling[t].pc = "worker",
         \A u \in Threads \ {t} : calling[u].pc # "worker"
  PROVE  {calling[v].document : v \in {u \in Threads : calling[u].pc = "worker"}}
           = {calling[t].document}
OBVIOUS

\* The only element of a set.
LEMMA ChooseOnly ==
  ASSUME NEW x
  PROVE  (CHOOSE y \in {x} : TRUE) = x
OBVIOUS

\* A step that neither calls nor ends a call nor delivers anything is none.
LEMMA StillIsNothing ==
  ASSUME StillCalling, UNCHANGED <<calls, delivered>>
  PROVE  PromiseStep
<1>1. Calling' = Calling
  BY DEF Calling, StillCalling
<1> QED
  BY <1>1 DEF PromiseStep, Promise!promiseVars

\* A step that delivers from the row of a document is an answer, or nothing.
LEMMA DeliveryIsAnswer ==
  ASSUME Good, Good', DoneGood, CompletedStay, StillCalling, calls' = calls,
         NEW c \in Credentials, NEW d \in Documents,
         Readable(rows'[d.request_id]) => Files(rows'[d.request_id], c, d),
         Deliver(c, d, rows'[d.request_id])
  PROVE  PromiseStep
<1> DEFINE row == rows'[d.request_id]
<1>1. CASE ~Readable(row)
  BY <1>1, StillIsNothing DEF Deliver
<1>2. CASE Readable(row)
  <2>1. d.request_id \in RequestIds /\ row.state = "completed" /\ row.document = d
    BY <1>2, DocumentsAssumption DEF Readable, Files
  <2>2. row = rows[d.request_id]
    BY <2>1 DEF CompletedStay
  <2>3. calls[d] = 1
    BY <2>1, <2>2 DEF DoneGood
  <2>4. d \notin Calling
    <3> SUFFICES ASSUME NEW t \in Threads, thread[t].pc = "worker", thread[t].document = d
                 PROVE  FALSE
      BY DEF Calling
    <3> QED
      BY <2>1, <2>2 DEF DoneGood, Attempting, RowOf, IdOf
  <2>5. PICK x : x = [credential |-> c, document |-> d, content |-> row.output.content]
    OBVIOUS
  <2>6. delivered' = delivered \cup {x} /\ x \in Delivery
    BY <1>2, <2>5 DEF Deliver, Good, ServiceTypeOK
  <2>7. x.content = row.output.content /\ x.content \in Contents /\ x.document = d
    BY <2>5, <2>6 DEF Delivery
  <2>8. \A y \in delivered : y.document = d => y.credential = c /\ y.content = x.content
    BY <2>5, <2>6, <2>7 DEF Good, AttemptInv, ResultsGood, OneResultPerDocument
  <2>9. Calling' = Calling
    BY DEF Calling, StillCalling
  <2>10. d \in Spent
    BY <2>3, <2>4 DEF Spent
  <2>11. Promise!Answer(c, d, x.content)
    BY <2>5, <2>6, <2>7, <2>8, <2>9, <2>10 DEF Promise!Answer, Spent
  <2> QED
    BY <2>7, <2>11 DEF PromiseStep, Promise!PromiseNext
<1> QED
  BY <1>1, <1>2

\* The document that is with a worker, and where the others stand.
LEMMA WhoCalls ==
  ASSUME Good, NEW t \in Threads, thread[t].pc = "worker"
  PROVE  /\ thread[t].document \in Documents /\ thread[t].document # None
         /\ calls[thread[t].document] = 1
         /\ Calling = {thread[t].document}
         /\ Called = thread[t].document
         /\ \A u \in Threads \ {t} : thread[u].pc # "worker"
<1>1. Owner(t)
  BY DEF Owner, OwnerSteps
<1>2. \A u \in Threads \ {t} : thread[u].pc # "worker"
  BY <1>1, OthersAreBystanders DEF Owner, OwnerSteps
<1>3. Calling = {thread[t].document}
  BY <1>2, OneCalls DEF Calling
<1>4. Called = thread[t].document
  <2>1. Calling # {}
    BY <1>3
  <2> QED
    BY <1>3, <2>1, ChooseOnly DEF Called
<1>5. thread[t].document \in Documents
  BY <1>1, OwnersAreTyped DEF Good
<1> QED
  BY <1>2, <1>3, <1>4, <1>5, NoneAssumption DEF Good, AttemptInv, ThreadGood, CountGood

\* A call that is over, and not refused, has spent its document.
LEMMA OverIsEnd ==
  ASSUME Good, NEW t \in Threads, thread[t].pc = "worker",
         \A u \in Threads : thread'[u].pc # "worker", UNCHANGED <<calls, delivered>>
  PROVE  PromiseStep
<1> DEFINE d == thread[t].document
<1>1. Called = d /\ Called # None /\ Calling = {d} /\ d \in Documents /\ calls[d] = 1
  BY WhoCalls
<1>2. Calling' = {} /\ Called' = None
  <2>1. Calling' = {}
    BY NobodyCalls DEF Calling
  <2> QED
    BY <2>1 DEF Called
<1>3. Spent' = Spent \cup {Called}
  BY <1>1, <1>2 DEF Spent
<1>4. Promise!End
  BY <1>1, <1>2, <1>3 DEF Promise!End, Called, Spent
<1> QED
  BY <1>4 DEF PromiseStep, Promise!PromiseNext


-----------------------------------------------------------------------------------
(* The steps of the process, as steps of the promise.                               *)

Both == PromiseStep /\ DoneGood'

\* One thread moves, to no attempt and from no worker.
LEMMA OneMoves ==
  ASSUME NEW t \in Threads, \A u \in Threads \ {t} : thread'[u] = thread[u]
  PROVE  /\ thread'[t].pc \notin {"dispatch", "worker"} => AttemptsStay
         /\ thread[t].pc # "worker" /\ thread'[t].pc # "worker" => StillCalling
BY DEF AttemptsStay, StillCalling, Attempting

\* Admission answers from a completed row, or promises nothing.
LEMMA InferPromises ==
  ASSUME Good, Good', DoneGood, NEW t \in Threads, NEW c \in Credentials, NEW d \in Documents,
         Infer(t, c, d)
  PROVE  Both
<1>1. PICK at \in Recent :
        /\ Admit(c, d, at)
        /\ AdmitError(c, d, at) # "none" => UNCHANGED <<thread, delivered>>
        /\ AdmitError(c, d, at) = "none" => Deliver(c, d, rows'[d.request_id])
  BY DEF Infer
<1>2. calls' = calls /\ thread[t].pc = "idle"
  BY DEF Infer, Idle
<1>3. CompletedStay
  BY <1>1, OnlyCompleteCompletes DEF Good, StoreInv
<1>4. thread' = thread
      \/ \E s \in {"claim", "join"} :
           thread' = [thread EXCEPT ![t] = [pc |-> s, credential |-> c, document |-> d,
                                            attempt |-> None, reply |-> None, deadline |-> 0]]
  BY DEF Infer, Idle
<1>5. /\ \A u \in Threads \ {t} : thread'[u] = thread[u]
      /\ thread'[t].pc \in {"idle", "claim", "join"}
  BY <1>2, <1>4 DEF Good, ServiceTypeOK
<1>6. AttemptsStay /\ StillCalling
  BY <1>2, <1>5, OneMoves
<1>7. PromiseStep
  <2>1. CASE AdmitError(c, d, at) # "none"
    BY <1>1, <1>2, <1>6, <2>1, StillIsNothing
  <2>2. CASE AdmitError(c, d, at) = "none"
    <3>1. Files(rows'[d.request_id], c, d)
      BY <1>1, <2>2, AnswersFromFile, DocumentsAssumption
    <3> QED
      BY <1>1, <1>2, <1>3, <1>6, <2>2, <3>1, DeliveryIsAnswer
  <2> QED
    BY <2>1, <2>2
<1> QED
  BY <1>2, <1>3, <1>6, <1>7, DoneStaysQuietly DEF Both

\* So does whoever reads its row back.
LEMMA ReadPromises ==
  ASSUME Good, Good', DoneGood, NEW t \in Threads, Reload(t) \/ Collect(t)
  PROVE  Both
<1> DEFINE c == thread[t].credential
           d == thread[t].document
<1>1. PICK at \in Recent :
        /\ GetOwned(c, d, at)
        /\ IF GetOwnedError(c, d, at) = "none"
           THEN Deliver(c, d, rows'[d.request_id]) ELSE UNCHANGED delivered
  BY DEF Reload, Collect
<1>2. calls' = calls /\ thread[t].pc \in {"reload", "collect"}
  BY DEF Reload, Collect
<1>3. c \in Credentials /\ d \in Documents /\ d.request_id \in RequestIds /\ thread[t].pc \in Steps
  BY <1>2, BusyIsNotIdle, CallsAreTyped DEF Good, IdOf, Steps, OwnerSteps
<1>4. CompletedStay
  BY <1>1, OnlyCompleteCompletes DEF Good, StoreInv
<1>5. /\ \A u \in Threads \ {t} : thread'[u] = thread[u]
      /\ thread'[t].pc \in {"idle", "answer", "release", "settle"}
  <2>1. CASE Return(t)
    BY <2>1 DEF Return, Idle, Good, ServiceTypeOK
  <2>2. CASE Settle(t)
    BY <1>2, <1>3, <2>2, StepSets DEF Settle, MovesTo
  <2>3. CASE Finish(t, ReplyTo(rows'[d.request_id]))
    BY <1>3, <2>3, FinishSets DEF MovesTo
  <2>4. CASE Concludes(t)
    BY <1>3, <2>4, ConclusionSets DEF MovesTo
  <2> QED
    BY <2>1, <2>2, <2>3, <2>4, ReloadEnds DEF Collect
<1>6. AttemptsStay /\ StillCalling
  BY <1>2, <1>5, OneMoves
<1>7. PromiseStep
  <2>1. CASE GetOwnedError(c, d, at) # "none"
    BY <1>1, <1>2, <1>6, <2>1, StillIsNothing
  <2>2. CASE GetOwnedError(c, d, at) = "none"
    <3>1. Files(rows'[d.request_id], c, d)
      BY <1>1, <1>3, <2>2, AnswersFromFile
    <3> QED
      BY <1>1, <1>2, <1>3, <1>4, <1>6, <2>2, <3>1, DeliveryIsAnswer
  <2> QED
    BY <2>1, <2>2
<1> QED
  BY <1>2, <1>4, <1>6, <1>7, DoneStaysQuietly DEF Both

\* Whoever claims, joins, waits for or leaves the lane is at no worker, before or after.
LEMMA LaneLeavesCalls ==
  ASSUME Good, NEW t \in Threads,
         ClaimLane(t) \/ JoinActive(t) \/ Answer(t) \/ WaitTimeout(t) \/ ReleaseLane(t)
  PROVE  AttemptsStay /\ StillCalling
<1>1. CASE ReleaseLane(t)
  <2>1. ASSUME NEW u \in Threads
        PROVE  \/ thread'[u] = thread[u]
               \/ /\ thread[u].pc \in {"release", "wait"}
                  /\ thread'[u].pc \in {"idle", "reload"}
    <3>1. CASE u = t
      BY <1>1, <3>1 DEF ReleaseLane, Idle
    <3>2. CASE u # t /\ thread[u].pc = "wait"
      <4>1. thread[u] \in Call
        BY <3>2, BusyIsNotIdle, CallsAreTyped DEF Good, Steps
      <4> QED
        BY <1>1, <3>2, <4>1 DEF ReleaseLane, Woken, Call
    <3>3. CASE u # t /\ thread[u].pc # "wait"
      BY <1>1, <3>3 DEF ReleaseLane, Woken
    <3> QED
      BY <3>1, <3>2, <3>3
  <2> QED
    BY <2>1 DEF AttemptsStay, StillCalling, Attempting
<1>2. CASE ~ReleaseLane(t)
  <2>1. thread[t].pc \in {"claim", "join", "wait", "answer"} /\ thread[t].pc \in Steps
    BY <1>2 DEF ClaimLane, JoinActive, Answer, WaitTimeout, Steps
  <2>2. thread[t] \in Call
    BY <2>1, BusyIsNotIdle, CallsAreTyped DEF Good
  <2>3. \/ Return(t)
        \/ thread' = Waiting(t) /\ thread[t].pc \in {"claim", "join"}
        \/ thread' = [thread EXCEPT ![t].pc = "reload"]
        \/ \E a : thread' = [thread EXCEPT ![t].pc = "mark", ![t].attempt = a]
    BY <1>2 DEF ClaimLane, JoinActive, Answer, WaitTimeout
  <2>4. /\ \A u \in Threads \ {t} : thread'[u] = thread[u]
        /\ thread'[t].pc \in {"idle", "wait", "reload", "mark"}
    <3>1. CASE Return(t)
      BY <3>1 DEF Return, Idle, Good, ServiceTypeOK
    <3>2. CASE thread' = Waiting(t) /\ thread[t].pc \in {"claim", "join"}
      BY <3>2, WaitingSets DEF MovesTo
    <3>3. CASE thread' = [thread EXCEPT ![t].pc = "reload"]
      BY <2>2, <3>3 DEF Call, Good, ServiceTypeOK
    <3>4. ASSUME NEW a, thread' = [thread EXCEPT ![t].pc = "mark", ![t].attempt = a]
          PROVE  /\ \A u \in Threads \ {t} : thread'[u] = thread[u]
                 /\ thread'[t].pc \in {"idle", "wait", "reload", "mark"}
      BY <2>2, <3>4 DEF Call, Good, ServiceTypeOK
    <3> QED
      BY <2>3, <3>1, <3>2, <3>3, <3>4
  <2> QED
    BY <2>1, <2>4, OneMoves
<1> QED
  BY <1>1, <1>2

\* The lane is nothing the promise knows.
LEMMA LanePromises ==
  ASSUME Good, DoneGood, NEW t \in Threads,
         ClaimLane(t) \/ JoinActive(t) \/ Answer(t) \/ WaitTimeout(t) \/ ReleaseLane(t)
  PROVE  Both
<1>1. UNCHANGED <<rows, calls, delivered>>
  BY DEF ClaimLane, JoinActive, Answer, WaitTimeout, ReleaseLane
<1>2. CompletedStay
  BY <1>1 DEF CompletedStay
<1>3. AttemptsStay /\ StillCalling
  BY LaneLeavesCalls
<1> QED
  BY <1>1, <1>2, <1>3, StillIsNothing, DoneStaysQuietly DEF Both


\* mark_in_progress: an attempt begins on a row that is not completed.
LEMMA MarkPromises ==
  ASSUME Good, DoneGood, NEW t \in Threads, Mark(t)
  PROVE  Both
<1> DEFINE c == thread[t].credential
           d == thread[t].document
<1>1. /\ UNCHANGED <<calls, delivered>> /\ thread[t].pc = "mark"
      /\ thread[t].pc \in Steps /\ Owner(t)
  BY DEF Mark, Steps, OwnerSteps, Owner
<1>2. d \in Documents /\ IdOf(t) \in RequestIds /\ thread[t].attempt \in Attempts
  BY <1>1, OwnersAreTyped DEF Good
<1>3. PICK at \in Recent :
        \/ ExpireInstead(t, at)
        \/ /\ MarkInProgress(IdOf(t), thread[t].attempt, at)
           /\ IF Markable(IdOf(t), at)
              THEN thread' = [thread EXCEPT ![t].pc = "dispatch"]
              ELSE Settle(t)
  BY DEF Mark
<1>4. CompletedStay
  <2>1. \/ GetOwned(c, d, at) \/ MarkInProgress(IdOf(t), thread[t].attempt, at)
    BY <1>3 DEF ExpireInstead
  <2> QED
    BY <1>2, <2>1, OnlyCompleteCompletes DEF Good, StoreInv
<1>5. \/ MovesTo(t, "release", "request_expired") \/ MovesTo(t, "settle", None)
      \/ MovesTo(t, "dispatch", None) /\ Markable(IdOf(t), at)
           /\ MarkInProgress(IdOf(t), thread[t].attempt, at)
  BY <1>1, <1>3, StepSets, FinishSets DEF ExpireInstead, Settle
<1>6. StillCalling
  BY <1>1, <1>5, OneMoves DEF MovesTo
<1>7. CASE MovesTo(t, "release", "request_expired") \/ MovesTo(t, "settle", None)
  <2>1. AttemptsStay
    BY <1>7, OneMoves DEF MovesTo
  <2> QED
    BY <1>1, <1>4, <1>6, <2>1, StillIsNothing, DoneStaysQuietly DEF Both
<1>8. CASE /\ MovesTo(t, "dispatch", None) /\ Markable(IdOf(t), at)
           /\ MarkInProgress(IdOf(t), thread[t].attempt, at)
  <2>1. RowOf(t)'.state = "in_progress"
    <3>1. IdOf(t)' = IdOf(t)
      BY <1>8 DEF MovesTo, IdOf
    <3>2. Cleanup(at)[IdOf(t)] \in Row
      BY <1>2, <1>8, CleanedOpen
      DEF Markable, Cleanup, OpenStates, Good, StoreInv, GoodTable, GoodRow, Absent
    <3> QED
      BY <1>2, <1>8, <3>1, <3>2 DEF MarkInProgress, RowOf, Row, Cleanup
  <2>2. \A u \in Threads \ {t} : ~Attempting(u)'
    BY <1>1, <1>8, OthersAreBystanders DEF MovesTo, Attempting, Owner, OwnerSteps
  <2>3. DoneGood'
    BY <1>1, <1>4, <2>1, <2>2, DoneStays DEF DoneGood
  <2> QED
    BY <1>1, <1>6, <2>3, StillIsNothing DEF Both
<1> QED
  BY <1>5, <1>7, <1>8

\* The worker call is a submission of a document that was not spent.
LEMMA DispatchPromises ==
  ASSUME Good, Good', DoneGood, NEW t \in Threads, Dispatch(t)
  PROVE  Both
<1> DEFINE c == thread[t].credential
           d == thread[t].document
<1>1. /\ UNCHANGED delivered /\ thread[t].pc = "dispatch"
      /\ thread[t].pc \in Steps /\ Owner(t) /\ Attempting(t)
  BY DEF Dispatch, Steps, OwnerSteps, Owner, Attempting
<1>2. d \in Documents /\ \A u \in Threads \ {t} : thread[u].pc \notin OwnerSteps
  BY <1>1, OwnersAreTyped, OthersAreBystanders DEF Good, Owner
<1>3. PICK at \in Recent :
        \/ ExpireInstead(t, at) /\ UNCHANGED calls
        \/ /\ thread' = [thread EXCEPT ![t].pc = "worker"]
           /\ calls' = [calls EXCEPT ![d] = @ + 1]
           /\ UNCHANGED rows
  BY DEF Dispatch
<1>4. CompletedStay
  BY <1>3, OnlyCompleteCompletes DEF ExpireInstead, Good, StoreInv
<1>5. CASE ExpireInstead(t, at) /\ UNCHANGED calls
  <2>1. MovesTo(t, "release", "request_expired") \/ MovesTo(t, "settle", None)
    BY <1>1, <1>5, StepSets, FinishSets DEF ExpireInstead, Settle
  <2>2. AttemptsStay /\ StillCalling
    BY <1>1, <2>1, OneMoves DEF MovesTo
  <2> QED
    BY <1>1, <1>4, <1>5, <2>2, StillIsNothing, DoneStaysQuietly DEF Both
<1>6. CASE /\ thread' = [thread EXCEPT ![t].pc = "worker"]
           /\ calls' = [calls EXCEPT ![d] = @ + 1]
           /\ UNCHANGED rows
  <2>1. MovesTo(t, "worker", None)
    BY <1>1, <1>6, StepSets
  <2>2. calls'[d] = calls[d] + 1 /\ \A e \in Documents \ {d} : calls'[e] = calls[e]
    BY <1>2, <1>6 DEF Good, ServiceTypeOK
  <2>3. calls[d] = 0 /\ calls'[d] = 1
    BY <1>2, <2>2 DEF Good, AttemptInv, SpentGood
  <2>4. Calling = {} /\ Called = None
    <3>1. Calling = {}
      BY <1>1, <1>2, NobodyCalls DEF Calling, OwnerSteps
    <3> QED
      BY <3>1 DEF Called
  <2>5. Calling' = {d} /\ Called' = d
    <3>1. Calling' = {d}
      BY <1>2, <2>1, OneCalls DEF Calling, MovesTo, OwnerSteps
    <3>2. Calling' # {}
      BY <3>1
    <3> QED
      BY <3>1, <3>2, ChooseOnly DEF Called
  <2>6. Spent' = Spent /\ d \notin Spent
    BY <2>2, <2>3, <2>4, <2>5 DEF Spent
  <2>7. Promise!Submit(d)
    BY <1>1, <2>4, <2>5, <2>6 DEF Promise!Submit, Called, Spent
  <2>8. PromiseStep
    BY <1>2, <2>7 DEF PromiseStep, Promise!PromiseNext
  <2>9. \A id \in RequestIds : rows[id].state = "completed" => calls'[rows[id].document] = 1
    <3> SUFFICES ASSUME NEW id \in RequestIds, rows[id].state = "completed"
                 PROVE  calls'[rows[id].document] = 1
      OBVIOUS
    <3>1. rows[id].document \in Documents
      BY DEF Good, StoreInv, GoodTable, GoodRow, Row, Absent
    <3> QED
      BY <2>2, <2>3, <3>1 DEF DoneGood
  <2>10. DoneGood'
    BY <1>1, <1>2, <1>4, <2>1, <2>9, DoneStays DEF MovesTo, Attempting, OwnerSteps
  <2> QED
    BY <2>8, <2>10 DEF Both
<1> QED
  BY <1>3, <1>5, <1>6

\* A refusal takes the submission back.
LEMMA RefusalPromises ==
  ASSUME Good, Good', DoneGood, NEW t \in Threads, CallRefused(t)
  PROVE  Both
<1> DEFINE d == thread[t].document
<1>1. /\ UNCHANGED delivered /\ thread[t].pc = "worker"
      /\ thread[t].pc \in Steps /\ Owner(t) /\ Attempting(t)
  BY DEF CallRefused, Steps, OwnerSteps, Owner, Attempting
<1>2. MovesTo(t, "release", "worker_unavailable")
  BY <1>1, FinishSets DEF CallRefused
<1>3. /\ Called = d /\ Called # None /\ Calling = {d} /\ d \in Documents /\ calls[d] = 1
      /\ \A u \in Threads \ {t} : thread[u].pc # "worker"
  BY <1>1, WhoCalls
<1>4. calls'[d] = 0 /\ \A e \in Documents \ {d} : calls'[e] = calls[e]
  BY <1>3 DEF CallRefused, Good, ServiceTypeOK
<1>5. Calling' = {} /\ Called' = None
  <2>1. Calling' = {}
    BY <1>2, <1>3, NobodyCalls DEF Calling, MovesTo
  <2> QED
    BY <2>1 DEF Called
<1>6. Spent' = Spent
  BY <1>3, <1>4, <1>5 DEF Spent
<1>7. Promise!Refuse
  BY <1>1, <1>3, <1>5, <1>6 DEF Promise!Refuse, Called, Spent
<1>8. PromiseStep
  BY <1>7 DEF PromiseStep, Promise!PromiseNext
<1>9. CompletedStay
  <2>1. IdOf(t) \in RequestIds /\ ResetReserved(IdOf(t), thread[t].attempt)
    BY <1>1, OwnersAreTyped DEF Good, CallRefused
  <2> QED
    BY <2>1, OnlyCompleteCompletes DEF Good, StoreInv
<1>10. AttemptsStay
  BY <1>2, OneMoves DEF MovesTo
<1>11. \A id \in RequestIds : rows[id].state = "completed" => calls'[rows[id].document] = 1
  <2> SUFFICES ASSUME NEW id \in RequestIds, rows[id].state = "completed"
               PROVE  calls'[rows[id].document] = 1
    OBVIOUS
  <2>1. rows[id].document \in Documents /\ rows[id].document.request_id = id
    BY DEF Good, StoreInv, GoodTable, GoodRow, Row, Absent
  <2>2. rows[id].document # d
    BY <1>1, <2>1 DEF DoneGood, RowOf, IdOf
  <2> QED
    BY <1>4, <2>1, <2>2 DEF DoneGood
<1>12. DoneGood'
  <2>1. \A u \in Threads : Attempting(u) => thread[u].document \in Documents
    BY OwnersAreTyped DEF Good, Attempting, Owner, OwnerSteps
  <2> QED
    BY <1>9, <1>10, <1>11, <2>1, DoneStays DEF AttemptsStay
<1> QED
  BY <1>8, <1>12 DEF Both

\* An attempt that ends without a result spends its document, if it was at a worker.
LEMMA LossPromises ==
  ASSUME Good, DoneGood, NEW t \in Threads,
         CallLost(t) \/ CallInvalid(t) \/ MarkUnsettled(t) \/ StoreFault(t)
  PROVE  Both
<1>1. UNCHANGED <<calls, delivered>> /\ thread[t].pc \in Steps
  BY DEF CallLost, CallInvalid, MarkUnsettled, StoreFault, Steps, OwnerSteps
<1>2. CompletedStay
  <2>1. CASE StoreFault(t)
    BY <2>1 DEF StoreFault, CompletedStay
  <2>2. CASE CallLost(t) \/ CallInvalid(t) \/ MarkUnsettled(t)
    <3>1. Owner(t)
      BY <2>2 DEF CallLost, CallInvalid, MarkUnsettled, Owner, OwnerSteps
    <3>2. IdOf(t) \in RequestIds
      BY <3>1, OwnersAreTyped DEF Good
    <3> QED
      BY <2>2, <3>2, OnlyCompleteCompletes
      DEF CallLost, CallInvalid, MarkUnsettled, Good, StoreInv
  <2> QED
    BY <2>1, <2>2
<1>3. /\ \A u \in Threads \ {t} : thread'[u] = thread[u]
      /\ thread'[t].pc \in {"idle", "release"}
  <2>1. Return(t) \/ \E reply : Finish(t, reply)
    BY DEF CallLost, CallInvalid, MarkUnsettled, StoreFault
  <2>2. CASE Return(t)
    BY <2>2 DEF Return, Idle, Good, ServiceTypeOK
  <2>3. ASSUME NEW reply, Finish(t, reply)
        PROVE  /\ \A u \in Threads \ {t} : thread'[u] = thread[u]
               /\ thread'[t].pc \in {"idle", "release"}
    BY <1>1, <2>3, FinishSets DEF MovesTo
  <2> QED
    BY <2>1, <2>2, <2>3
<1>4. AttemptsStay
  BY <1>3, OneMoves
<1>5. PromiseStep
  <2>1. CASE thread[t].pc # "worker"
    BY <1>1, <1>3, <2>1, OneMoves, StillIsNothing
  <2>2. CASE thread[t].pc = "worker"
    BY <1>1, <1>3, <2>2, WhoCalls, OverIsEnd
  <2> QED
    BY <2>1, <2>2
<1> QED
  BY <1>1, <1>2, <1>4, <1>5, DoneStaysQuietly DEF Both


\* A result spends its document, and the row that keeps it is of that document.
LEMMA ResultPromises ==
  ASSUME Good, DoneGood, NEW t \in Threads, NEW x \in Contents, CallAnswered(t, x)
  PROVE  Both
<1> DEFINE d == thread[t].document
           a == thread[t].attempt
           id == d.request_id
           old == rows[id]
<1>1. /\ UNCHANGED <<calls, delivered>> /\ thread[t].pc = "worker" /\ id = IdOf(t)
      /\ thread[t].pc \in Steps /\ Owner(t) /\ Attempting(t)
  BY DEF CallAnswered, Steps, OwnerSteps, Owner, Attempting, IdOf
<1>2. d \in Documents /\ id \in RequestIds /\ calls[d] = 1
  BY <1>1, WhoCalls, DocumentsAssumption
<1>3. PICK at \in Recent :
        /\ Complete(id, a, x, key, at)
        /\ CASE CompleteError(id, a, at) = "none" -> thread' = [thread EXCEPT ![t].pc = "collect"]
             [] CompleteError(id, a, at) = "expired" -> Finish(t, "request_expired")
             [] CompleteError(id, a, at) = "not_owner" -> Settle(t)
  BY <1>1 DEF CallAnswered
<1>4. CompleteError(id, a, at) \in {"none", "expired", "not_owner"}
  BY DEF CompleteError
<1>5. \/ MovesTo(t, "collect", None) \/ MovesTo(t, "release", "request_expired")
      \/ MovesTo(t, "settle", None)
  BY <1>1, <1>3, <1>4, StepSets, FinishSets DEF Settle
<1>6. /\ \A u \in Threads \ {t} : thread'[u] = thread[u] /\ thread[u].pc \notin OwnerSteps
      /\ thread'[t].pc \in {"collect", "release", "settle"}
  BY <1>1, <1>5, OthersAreBystanders DEF MovesTo, Owner
<1>7. PromiseStep
  BY <1>1, <1>6, OverIsEnd DEF OwnerSteps
<1>8. AttemptsStay
  BY <1>6, OneMoves
<1>9. CASE CompleteError(id, a, at) # "none"
  <2>1. rows' = rows \/ Maintain(at)
    BY <1>3, <1>4, <1>9 DEF Complete, Maintain
  <2>2. CompletedStay
    BY <2>1, OnlyCompleteCompletes DEF Good, StoreInv
  <2> QED
    BY <1>1, <1>7, <1>8, <2>2, DoneStaysQuietly DEF Both
<1>10. CASE CompleteError(id, a, at) = "none"
  <2>1. OwnsAttempt(Cleaned(old, at), a)
    BY <1>10 DEF CompleteError
  <2>2. Cleaned(old, at) = old /\ OwnsAttempt(old, a)
    BY <2>1, CleanedOpen DEF OwnsAttempt, OpenStates
  <2>3. old \in Row /\ old.document = d
    BY <1>1, <1>2, <2>2, OwnRowOnly
    DEF OwnsAttempt, Good, StoreInv, GoodTable, GoodRow, Absent, Files
  <2>4. PICK new : new = [old EXCEPT !.state = "completed",
                                     !.output = [content |-> x, key |-> key]]
    OBVIOUS
  <2>5. new.document = d
    BY <2>3, <2>4 DEF Row
  <2>6. \A i \in RequestIds : rows'[i] = IF i = id THEN new ELSE Cleaned(rows[i], at)
    BY <1>2, <1>3, <1>10, <2>2, <2>4 DEF Complete, Cleanup
  <2>7. \A i \in RequestIds : rows'[i].state = "completed" => calls[rows'[i].document] = 1
    BY <1>2, <2>5, <2>6, CleanedOpen DEF OpenStates, DoneGood
  <2>8. \A u \in Threads : ~Attempting(u)'
    BY <1>6 DEF Attempting, OwnerSteps
  <2>9. DoneGood'
    BY <1>1, <2>7, <2>8 DEF DoneGood
  <2> QED
    BY <1>7, <2>9 DEF Both
<1> QED
  BY <1>9, <1>10

\* Acknowledgement, maintenance, restarts and time promise nothing.
LEMMA OthersPromise ==
  ASSUME Good, DoneGood,
         UNCHANGED vars \/ (\E c \in Credentials, id \in RequestIds, s \in Dispositions :
                              AcknowledgeCall(c, id, s))
         \/ (\E at \in Seconds : Sweep(at)) \/ Restart \/ Tick
  PROVE  Both
<1>1. UNCHANGED <<thread, calls, delivered>>
  BY DEF vars, AcknowledgeCall, Sweep, Restart, Tick
<1>2. GoodTable(rows)
  BY DEF Good, StoreInv
<1>3. CompletedStay
  <2>1. ASSUME NEW c \in Credentials, NEW id \in RequestIds, NEW s \in Dispositions,
               AcknowledgeCall(c, id, s)
        PROVE  CompletedStay
    <3>1. PICK at \in Recent : Acknowledge(c, id, s, at)
      BY <2>1 DEF AcknowledgeCall
    <3> QED
      BY <1>2, <3>1, OnlyCompleteCompletes
  <2>2. ASSUME NEW at \in Seconds, Sweep(at)
        PROVE  CompletedStay
    BY <1>2, <2>2, OnlyCompleteCompletes DEF Sweep
  <2>3. CASE Restart
    BY <1>2, <2>3, OnlyCompleteCompletes DEF Restart
  <2>4. CASE UNCHANGED vars \/ Tick
    BY <2>4 DEF vars, Tick, CompletedStay
  <2> QED
    BY <2>1, <2>2, <2>3, <2>4
<1>4. AttemptsStay /\ StillCalling
  BY <1>1 DEF AttemptsStay, StillCalling, Attempting
<1> QED
  BY <1>1, <1>3, <1>4, StillIsNothing, DoneStaysQuietly DEF Both

\* A crash spends the document that was at a worker, if there was one.
LEMMA CrashPromises ==
  ASSUME Good, DoneGood, Crash
  PROVE  Both
<1>1. UNCHANGED <<rows, calls, delivered>> /\ \A u \in Threads : thread'[u].pc = "idle"
  BY DEF Crash, Idle
<1>2. CompletedStay /\ AttemptsStay
  BY <1>1 DEF CompletedStay, AttemptsStay, Attempting
<1>3. PromiseStep
  <2>1. CASE \E t \in Threads : thread[t].pc = "worker"
    BY <1>1, <2>1, OverIsEnd
  <2>2. CASE \A t \in Threads : thread[t].pc # "worker"
    BY <1>1, <2>2, StillIsNothing DEF StillCalling
  <2> QED
    BY <2>1, <2>2
<1> QED
  BY <1>1, <1>2, <1>3, DoneStaysQuietly DEF Both

\* Every step of the process is a step of the promise, or none.
LEMMA ServiceStepIsPromiseStep ==
  ASSUME Good, Good', DoneGood, [ServiceNext]_vars
  PROVE  Both
<1>1. ASSUME NEW t \in Threads, ThreadStep(t) \/ WaitTimeout(t) \/ StoreFault(t)
      PROVE  Both
  BY <1>1, ReadPromises, LanePromises, MarkPromises, DispatchPromises, RefusalPromises,
     LossPromises, ResultPromises
  DEF ThreadStep, WorkerReturns
<1>2. ASSUME NEW t \in Threads, NEW c \in Credentials, NEW d \in Documents, Infer(t, c, d)
      PROVE  Both
  BY <1>2, InferPromises
<1>3. CASE UNCHANGED vars \/ (\E c \in Credentials, id \in RequestIds, s \in Dispositions :
                                AcknowledgeCall(c, id, s))
           \/ (\E at \in Seconds : Sweep(at)) \/ Restart \/ Tick
  BY <1>3, OthersPromise
<1>4. CASE Crash
  BY <1>4, CrashPromises
<1> QED
  BY <1>1, <1>2, <1>3, <1>4 DEF ServiceNext

-----------------------------------------------------------------------------------
(* The promise to the clients.                                                     *)

\* Threads, lane, transactions, expiry, tombstones, crashes, key changes and restarts
\* together keep the promise of InferencePromise (app.py:148-399): one worker call at a
\* time, no document spent twice, one result and one reader for each.
THEOREM ServiceKeepsPromise ==
  ASSUME RetentionCovers
  PROVE  ServiceSpec => PromiseKept
<1>1. ServiceInit => Promise!PromiseInit /\ DoneGood
  <2> SUFFICES ASSUME ServiceInit PROVE Promise!PromiseInit /\ DoneGood
    OBVIOUS
  <2>1. \A t \in Threads : thread[t].pc = "idle"
    BY DEF ServiceInit, Idle
  <2>2. Calling = {}
    BY <2>1, NobodyCalls DEF Calling
  <2>3. {d \in Documents : calls[d] > 0} \ Calling = {}
    BY DEF ServiceInit
  <2>4. DoneGood
    BY <2>1 DEF ServiceInit, StoreInit, Absent, DoneGood, Attempting
  <2> QED
    BY <2>2, <2>3, <2>4 DEF ServiceInit, Promise!PromiseInit
<1>2. Good /\ Good' /\ DoneGood /\ [ServiceNext]_vars => DoneGood' /\ PromiseStep
  BY ServiceStepIsPromiseStep DEF Both
<1>3. Good /\ Good' /\ DoneGood /\ [ServiceNext]_vars
        => DoneGood' /\ [Promise!PromiseNext]_(Promise!promiseVars)
  BY <1>2 DEF PromiseStep
<1> QED
  BY <1>1, <1>3, AttemptInvariant, PTL DEF ServiceSpec, PromiseKept, Promise!PromiseSpec

-----------------------------------------------------------------------------------
(* The gateway does not notice where the ends of its calls come from.              *)

\* Every clause that handles an outcome is an end of the worker call.
LEMMA HandlerReturns ==
  ASSUME NEW t \in Threads, Handler(t)
  PROVE  WorkerReturns(t)
BY DEF Handler, WorkerReturns

\* A step of the composition is a step of the gateway, or none.
LEMMA ServedIsService ==
  ASSUME [ServedNext]_servedVars
  PROVE  [ServiceNext]_vars
<1>1. ASSUME NEW t \in Threads,
             PlainStep(t) \/ ServedDispatch(t) \/ HandleOutcome(t) \/ ServedFault(t)
      PROVE  ServiceNext
  <2>1. (\E c \in Credentials, d \in Documents : Infer(t, c, d))
        \/ ThreadStep(t) \/ WaitTimeout(t) \/ StoreFault(t)
    BY <1>1, HandlerReturns DEF PlainStep, ServedDispatch, HandleOutcome, ServedFault, ThreadStep
  <2> QED
    BY <2>1 DEF ServiceNext
<1>2. CASE ServedCrash \/ CommonStep
  BY <1>2 DEF ServedCrash, CommonStep, ServiceNext
<1>3. CASE WorkerStep \/ UNCHANGED servedVars
  BY <1>3 DEF WorkerStep, servedVars
<1> QED
  BY <1>1, <1>2, <1>3 DEF ServedNext

\* Composed with the worker, the process does nothing it would not do alone: what is proved
\* of GatewayService holds of the composition (app.py:200-252, worker.py:173-180).
THEOREM ServedImplementsService == ServedSpec => ServiceSpec
BY ServedIsService, PTL DEF ServedSpec, ServedInit, ServiceSpec

-----------------------------------------------------------------------------------
(* What the gateway and the worker know of each other.                             *)

WorkerTypes ==
  /\ serving \in Documents \cup {None}
  /\ outcome \in [Documents -> {"none", "taken"} \cup Worker!Endings]
  /\ taken \in [Documents -> Nat]
  /\ adrift \subseteq Documents

\* The worker serves the request of the thread that is with it, or has ended its call.
CallsAgree ==
  /\ serving # None => \E t \in Threads : thread[t].pc = "worker"
  /\ \A t \in Threads : thread[t].pc = "worker" =>
       IF serving = None
       THEN outcome[thread[t].document] \in Worker!Endings
       ELSE serving = thread[t].document /\ outcome[serving] \in {"none", "taken"}

\* No server has the document, or will have it.
WithNobody(d) == taken[d] = 0 /\ d \notin adrift

\* How the counts of the gateway and of the servers go together.
CountsAgree(d) ==
  /\ taken[d] <= calls[d]
  /\ d \in adrift => taken[d] < calls[d]
  /\ outcome[d] \in {"none", "unavailable"} => WithNobody(d)
  /\ calls[d] = 0 => outcome[d] \in {"none", "unavailable"}

WorkerInv == WorkerTypes /\ CallsAgree /\ \A d \in Documents : CountsAgree(d)

\* The process and the worker start with nothing between them.
LEMMA WorkerInitially == ServedInit => WorkerInv
<1> SUFFICES ASSUME ServedInit PROVE WorkerInv
  OBVIOUS
<1>1. \A t \in Threads : thread[t].pc # "worker"
  BY DEF ServedInit, ServiceInit, Idle
<1>2. WorkerTypes
  BY DEF ServedInit, Worker!WorkerInit, WorkerTypes
<1>3. CallsAgree
  BY <1>1 DEF ServedInit, Worker!WorkerInit, CallsAgree
<1>4. \A d \in Documents : CountsAgree(d)
  BY DEF ServedInit, ServiceInit, Worker!WorkerInit, CountsAgree, WithNobody
<1> QED
  BY <1>2, <1>3, <1>4 DEF WorkerInv

\* Where nobody calls and nobody counts, nothing changes between them.
LEMMA QuietKeepsWorker ==
  ASSUME WorkerInv, StillCalling, UNCHANGED <<calls, workerVars>>
  PROVE  WorkerInv'
BY DEF WorkerInv, WorkerTypes, CallsAgree, CountsAgree, WithNobody, StillCalling, workerVars

\* The steps of the process that have nothing to do with the worker leave its call alone.
LEMMA PlainStepIsQuiet ==
  ASSUME Good, NEW t \in Threads, PlainStep(t)
  PROVE  StillCalling /\ UNCHANGED <<calls, workerVars>>
<1>1. UNCHANGED <<calls, workerVars>>
  BY DEF PlainStep, Infer, ClaimLane, JoinActive, WaitTimeout, Reload, Answer, Mark, Collect,
         MarkUnsettled, ReleaseLane
<1>2. CASE \E c \in Credentials, d \in Documents : Infer(t, c, d)
  <2>1. PICK c \in Credentials, d \in Documents : Infer(t, c, d)
    BY <1>2
  <2>2. thread[t].pc = "idle"
    BY <2>1 DEF Infer, Idle
  <2>3. \/ thread' = thread
        \/ \E s \in {"claim", "join"} :
             thread' = [thread EXCEPT ![t] = [pc |-> s, credential |-> c, document |-> d,
                                              attempt |-> None, reply |-> None, deadline |-> 0]]
    BY <2>1 DEF Infer, Idle
  <2>4. /\ \A u \in Threads \ {t} : thread'[u] = thread[u]
        /\ thread'[t].pc # "worker"
    BY <2>2, <2>3 DEF Good, ServiceTypeOK
  <2> QED
    BY <1>1, <2>2, <2>4, OneMoves
<1>3. CASE ClaimLane(t) \/ JoinActive(t) \/ Answer(t) \/ WaitTimeout(t) \/ ReleaseLane(t)
  BY <1>1, <1>3, LaneLeavesCalls
<1>4. CASE Reload(t) \/ Collect(t) \/ Mark(t) \/ MarkUnsettled(t)
  <2>1. thread[t].pc \in {"reload", "collect", "mark", "settle"} /\ thread[t].pc \in Steps
    BY <1>4 DEF Reload, Collect, Mark, MarkUnsettled, Steps, OwnerSteps
  <2>2. \/ Return(t)
        \/ Concludes(t)
        \/ \E reply : Finish(t, reply)
        \/ \E s \in {"dispatch", "settle"} : thread' = [thread EXCEPT ![t].pc = s]
    BY <1>4, ReloadEnds DEF Collect, Mark, MarkUnsettled, ExpireInstead, Settle
  <2>3. /\ \A u \in Threads \ {t} : thread'[u] = thread[u]
        /\ thread'[t].pc # "worker"
    <3>1. CASE Return(t)
      BY <3>1 DEF Return, Idle, Good, ServiceTypeOK
    <3>2. ASSUME NEW reply, Finish(t, reply)
          PROVE  /\ \A u \in Threads \ {t} : thread'[u] = thread[u]
                 /\ thread'[t].pc # "worker"
      BY <2>1, <3>2, FinishSets DEF MovesTo
    <3>3. ASSUME NEW s \in {"dispatch", "settle"}, thread' = [thread EXCEPT ![t].pc = s]
          PROVE  /\ \A u \in Threads \ {t} : thread'[u] = thread[u]
                 /\ thread'[t].pc # "worker"
      BY <2>1, <3>3, StepSets DEF MovesTo
    <3>4. CASE Concludes(t)
      BY <2>1, <3>4, ConclusionSets DEF MovesTo
    <3> QED
      BY <2>2, <3>1, <3>2, <3>3, <3>4
  <2> QED
    BY <1>1, <2>1, <2>3, OneMoves
<1> QED
  BY <1>2, <1>3, <1>4 DEF PlainStep

-----------------------------------------------------------------------------------
(* The steps of the composition.                                                   *)

\* The worker is called as its contract says, and what is known of it is kept.
CalledWell == WorkerInv' /\ [Worker!WorkerNext]_(Worker!workerVars)

\* The variables of the two modules are the same.
LEMMA StillWorker ==
  ASSUME WorkerInv', UNCHANGED workerVars
  PROVE  CalledWell
BY DEF CalledWell, workerVars, Worker!workerVars

\* A document is submitted that nobody has, and nobody will get.
LEMMA DispatchCalls ==
  ASSUME Good, Good', WorkerInv, NEW t \in Threads, ServedDispatch(t)
  PROVE  CalledWell
<1> DEFINE d == thread[t].document
<1>1. Dispatch(t) /\ thread[t].pc = "dispatch" /\ thread[t].pc \in Steps /\ Owner(t)
  BY DEF ServedDispatch, Dispatch, Steps, OwnerSteps, Owner
<1>2. d \in Documents /\ \A u \in Threads \ {t} : thread[u].pc # "worker"
  BY <1>1, OwnersAreTyped, OthersAreBystanders DEF Good, Owner, OwnerSteps
<1>3. PICK at \in Recent :
        \/ ExpireInstead(t, at) /\ UNCHANGED calls
        \/ /\ thread' = [thread EXCEPT ![t].pc = "worker"]
           /\ calls' = [calls EXCEPT ![d] = @ + 1]
  BY <1>1 DEF Dispatch
<1>4. CASE ExpireInstead(t, at) /\ UNCHANGED calls
  <2>1. MovesTo(t, "release", "request_expired") \/ MovesTo(t, "settle", None)
    BY <1>1, <1>4, StepSets, FinishSets DEF ExpireInstead, Settle
  <2>2. StillCalling /\ thread'[t].pc # "worker"
    BY <1>1, <2>1, OneMoves DEF MovesTo
  <2> QED
    BY <1>4, <2>2, QuietKeepsWorker, StillWorker DEF ServedDispatch
<1>5. CASE /\ thread' = [thread EXCEPT ![t].pc = "worker"]
           /\ calls' = [calls EXCEPT ![d] = @ + 1]
  <2>1. MovesTo(t, "worker", None)
    BY <1>1, <1>5, StepSets
  <2>2. calls'[d] = calls[d] + 1 /\ \A e \in Documents \ {d} : calls'[e] = calls[e]
    BY <1>2, <1>5 DEF Good, ServiceTypeOK
  <2>3. calls[d] = 0 /\ calls'[d] = 1
    BY <1>2, <2>2 DEF Good, AttemptInv, SpentGood
  <2>4. Worker!Invoke(d)
    BY <2>1 DEF ServedDispatch, MovesTo
  <2>5. serving = None
    BY <1>1, <1>2 DEF WorkerInv, CallsAgree
  <2>6. outcome[d] \in {"none", "unavailable"} /\ WithNobody(d)
    BY <1>2, <2>3 DEF WorkerInv, CountsAgree
  <2>7. Worker!WorkerNext
    BY <1>2, <2>4, <2>5, <2>6 DEF Worker!WorkerNext, Worker!Begin
  <2>8. /\ serving' = d /\ outcome'[d] = "none" /\ UNCHANGED <<taken, adrift>>
        /\ \A e \in Documents \ {d} : outcome'[e] = outcome[e]
    BY <1>2, <2>4 DEF Worker!Invoke, WorkerInv, WorkerTypes
  <2>9. WorkerTypes'
    BY <1>2, <2>4 DEF Worker!Invoke, WorkerInv, WorkerTypes
  <2>10. CallsAgree'
    <3>1. \A u \in Threads : thread'[u].pc = "worker" => u = t
      BY <1>2, <2>1 DEF MovesTo
    <3>2. thread'[t].pc = "worker" /\ thread'[t].document = d /\ d # None
      BY <1>2, <2>1, NoneAssumption DEF MovesTo
    <3> QED
      BY <2>8, <3>1, <3>2 DEF CallsAgree
  <2>11. \A e \in Documents : CountsAgree(e)'
    <3> SUFFICES ASSUME NEW e \in Documents PROVE CountsAgree(e)'
      OBVIOUS
    <3>1. CASE e = d
      BY <2>3, <2>6, <2>8, <3>1 DEF CountsAgree, WithNobody
    <3>2. CASE e # d
      BY <2>2, <2>8, <3>2 DEF WorkerInv, CountsAgree, WithNobody
    <3> QED
      BY <3>1, <3>2
  <2> QED
    BY <2>7, <2>9, <2>10, <2>11 DEF CalledWell, WorkerInv
<1> QED
  BY <1>3, <1>4, <1>5

\* Nobody is with the worker any more, and what it had stays counted.
LEMMA OverKeepsWorker ==
  ASSUME WorkerInv, serving = None, \A u \in Threads : thread'[u].pc # "worker",
         UNCHANGED <<calls, workerVars>>
  PROVE  CalledWell
<1>1. WorkerInv'
  BY DEF WorkerInv, WorkerTypes, CallsAgree, CountsAgree, WithNobody, workerVars
<1> QED
  BY <1>1, StillWorker

\* A result that comes back is recorded, or cannot be.
LEMMA AnswerMoves ==
  ASSUME NEW t \in Threads, NEW x \in Contents, CallAnswered(t, x)
  PROVE  \/ Finish(t, "request_expired")
         \/ \E s \in {"collect", "settle"} : thread' = [thread EXCEPT ![t].pc = s]
<1>1. PICK at \in Recent :
        CASE CompleteError(IdOf(t), thread[t].attempt, at) = "none"
               -> thread' = [thread EXCEPT ![t].pc = "collect"]
          [] CompleteError(IdOf(t), thread[t].attempt, at) = "expired"
               -> Finish(t, "request_expired")
          [] CompleteError(IdOf(t), thread[t].attempt, at) = "not_owner"
               -> Settle(t)
  BY DEF CallAnswered
<1>2. \A n : CompleteError(IdOf(t), thread[t].attempt, n) \in {"none", "expired", "not_owner"}
  BY DEF CompleteError
<1> QED
  BY <1>1, <1>2 DEF Settle

\* A refusal takes a count back only where no server has the document.
LEMMA OutcomeCalls ==
  ASSUME Good, WorkerInv, NEW t \in Threads, HandleOutcome(t)
  PROVE  CalledWell
<1> DEFINE d == thread[t].document
<1>1. /\ thread[t].pc = "worker" /\ serving = None /\ UNCHANGED workerVars
      /\ thread[t].pc \in Steps /\ Owner(t)
  BY DEF HandleOutcome, Steps, OwnerSteps, Owner
<1>2. d \in Documents /\ calls[d] = 1 /\ \A u \in Threads \ {t} : thread[u].pc # "worker"
  BY <1>1, WhoCalls
<1>3. \/ CallRefused(t) /\ outcome[d] = "unavailable"
      \/ CallLost(t) \/ CallInvalid(t) \/ \E x \in Contents : CallAnswered(t, x)
  BY DEF HandleOutcome, Handler
<1>4. \A u \in Threads : thread'[u].pc # "worker"
  <2>1. \/ \E reply : Finish(t, reply)
        \/ \E s \in {"collect", "settle"} : thread' = [thread EXCEPT ![t].pc = s]
    BY <1>3, AnswerMoves DEF CallRefused, CallLost, CallInvalid
  <2>2. thread'[t].pc # "worker" /\ \A u \in Threads \ {t} : thread'[u] = thread[u]
    <3>1. ASSUME NEW reply, Finish(t, reply)
          PROVE  thread'[t].pc # "worker" /\ \A u \in Threads \ {t} : thread'[u] = thread[u]
      BY <1>1, <3>1, FinishSets DEF MovesTo
    <3>2. ASSUME NEW s \in {"collect", "settle"}, thread' = [thread EXCEPT ![t].pc = s]
          PROVE  thread'[t].pc # "worker" /\ \A u \in Threads \ {t} : thread'[u] = thread[u]
      BY <1>1, <3>2, StepSets DEF MovesTo
    <3> QED
      BY <2>1, <3>1, <3>2
  <2> QED
    BY <1>2, <2>2
<1>5. CASE CallLost(t) \/ CallInvalid(t) \/ \E x \in Contents : CallAnswered(t, x)
  <2>1. UNCHANGED calls
    BY <1>5 DEF CallLost, CallInvalid, CallAnswered
  <2> QED
    BY <1>1, <1>4, <2>1, OverKeepsWorker
<1>6. CASE CallRefused(t) /\ outcome[d] = "unavailable"
  <2>1. calls'[d] = 0 /\ \A e \in Documents \ {d} : calls'[e] = calls[e]
    BY <1>2, <1>6 DEF CallRefused, Good, ServiceTypeOK
  <2>2. WithNobody(d)
    BY <1>2, <1>6 DEF WorkerInv, CountsAgree
  <2>3. WorkerTypes' /\ CallsAgree'
    BY <1>1, <1>4 DEF WorkerInv, WorkerTypes, CallsAgree, workerVars
  <2>4. \A e \in Documents : CountsAgree(e)'
    <3> SUFFICES ASSUME NEW e \in Documents PROVE CountsAgree(e)'
      OBVIOUS
    <3>1. CASE e = d
      BY <1>1, <1>6, <2>1, <2>2, <3>1 DEF CountsAgree, WithNobody, workerVars
    <3>2. CASE e # d
      BY <1>1, <2>1, <3>2 DEF WorkerInv, CountsAgree, WithNobody, workerVars
    <3> QED
      BY <3>1, <3>2
  <2>5. WorkerInv'
    BY <2>3, <2>4 DEF WorkerInv
  <2> QED
    BY <1>1, <2>5, StillWorker
<1> QED
  BY <1>3, <1>5, <1>6

\* An error of SQLite ends a call only after the worker has.
LEMMA FaultCalls ==
  ASSUME Good, WorkerInv, NEW t \in Threads, ServedFault(t)
  PROVE  CalledWell
<1>1. /\ StoreFault(t) /\ UNCHANGED <<calls, workerVars>> /\ thread[t].pc \in Steps
      /\ thread[t].pc = "worker" => serving = None
  BY DEF ServedFault, StoreFault, Steps, OwnerSteps
<1>2. thread'[t].pc # "worker" /\ \A u \in Threads \ {t} : thread'[u] = thread[u]
  <2>1. CASE Return(t)
    BY <2>1 DEF Return, Idle, Good, ServiceTypeOK
  <2>2. CASE Finish(t, "internal_error")
    BY <1>1, <2>2, FinishSets DEF MovesTo
  <2> QED
    BY <1>1, <2>1, <2>2 DEF StoreFault
<1>3. CASE thread[t].pc = "worker"
  BY <1>1, <1>2, <1>3, WhoCalls, OverKeepsWorker
<1>4. CASE thread[t].pc # "worker"
  BY <1>1, <1>2, <1>4, OneMoves, QuietKeepsWorker, StillWorker
<1> QED
  BY <1>3, <1>4

\* The document that is served is with a thread, and was counted once.
LEMMA WhoIsServed ==
  ASSUME Good, WorkerInv, serving # None
  PROVE  /\ serving \in Documents /\ calls[serving] = 1
         /\ outcome[serving] \in {"none", "taken"}
         /\ \E t \in Threads : /\ thread[t].pc = "worker" /\ thread[t].document = serving
                               /\ \A u \in Threads \ {t} : thread[u].pc # "worker"
<1>1. PICK t \in Threads : thread[t].pc = "worker"
  BY DEF WorkerInv, CallsAgree
<1> QED
  BY <1>1, WhoCalls DEF WorkerInv, WorkerTypes, CallsAgree

\* An end of the call leaves what the servers have, and leaves a submission on its way only
\* where none of them has the document.
LEMMA EndAgrees ==
  ASSUME Good, WorkerInv, NEW e \in Worker!Endings, Worker!End(e), UNCHANGED calls,
         \/ UNCHANGED thread
         \/ \A t \in Threads : thread'[t].pc # "worker"
  PROVE  CalledWell
<1>1. /\ serving \in Documents /\ calls[serving] = 1 /\ outcome[serving] \in {"none", "taken"}
      /\ \A t \in Threads : thread[t].pc = "worker" => thread[t].document = serving
  BY WhoIsServed DEF Worker!End
<1>2. /\ outcome'[serving] = e /\ \A d \in Documents \ {serving} : outcome'[d] = outcome[d]
      /\ serving' = None /\ UNCHANGED taken
      /\ \/ UNCHANGED adrift
         \/ e = "ambiguous" /\ outcome[serving] = "none" /\ adrift' = adrift \cup {serving}
      /\ e = "unavailable" => outcome[serving] = "none"
  BY <1>1 DEF Worker!End, WorkerInv, WorkerTypes
<1>3. WorkerTypes'
  BY <1>1, <1>2 DEF Worker!End, WorkerInv, WorkerTypes
<1>4. CallsAgree'
  BY <1>1, <1>2 DEF CallsAgree
<1>5. \A d \in Documents : CountsAgree(d)'
  <2> SUFFICES ASSUME NEW d \in Documents PROVE CountsAgree(d)'
    OBVIOUS
  <2>1. CASE d = serving
    BY <1>1, <1>2, <2>1 DEF WorkerInv, CountsAgree, WithNobody, Worker!Endings
  <2>2. CASE d # serving
    BY <1>2, <2>2 DEF WorkerInv, CountsAgree, WithNobody
  <2> QED
    BY <2>1, <2>2
<1>6. Worker!WorkerNext
  BY DEF Worker!WorkerNext
<1> QED
  BY <1>3, <1>4, <1>5, <1>6 DEF CalledWell, WorkerInv

\* A server admits a document it was sent in a call that was counted, and only once for it.
LEMMA TakeAgrees ==
  ASSUME Good, WorkerInv, Worker!Take \/ \E d \in Documents : Worker!TakeLate(d), UNCHANGED vars
  PROVE  CalledWell
<1>1. PICK d \in Documents :
        /\ taken[d] < calls[d]
        /\ taken'[d] = taken[d] + 1 /\ \A b \in Documents \ {d} : taken'[b] = taken[b]
        /\ taken' \in [Documents -> Nat]
        /\ \/ /\ d = serving /\ outcome[d] = "none" /\ outcome'[d] = "taken" /\ UNCHANGED adrift
              /\ \A b \in Documents \ {d} : outcome'[b] = outcome[b]
           \/ d \in adrift /\ adrift' = adrift \ {d} /\ UNCHANGED outcome
        /\ UNCHANGED <<serving, thread, calls>>
  <2>1. CASE Worker!Take
    BY <2>1, WhoIsServed DEF Worker!Take, Worker!Admitted, vars, WorkerInv, WorkerTypes,
                             CountsAgree, WithNobody
  <2>2. ASSUME NEW b \in Documents, Worker!TakeLate(b)
        PROVE  /\ taken[b] < calls[b] /\ b \in adrift /\ adrift' = adrift \ {b}
               /\ taken' = [taken EXCEPT ![b] = @ + 1]
               /\ UNCHANGED <<serving, thread, calls, outcome>>
    BY <2>2 DEF Worker!TakeLate, Worker!Admitted, vars, WorkerInv, CountsAgree
  <2> QED
    BY <2>1, <2>2 DEF WorkerInv, WorkerTypes
<1>2. WorkerTypes'
  BY <1>1 DEF Worker!Take, Worker!TakeLate, WorkerInv, WorkerTypes
<1>3. CallsAgree'
  BY <1>1, NoneAssumption DEF WorkerInv, CallsAgree, Worker!Endings
<1>4. \A b \in Documents : CountsAgree(b)'
  <2> SUFFICES ASSUME NEW b \in Documents PROVE CountsAgree(b)'
    OBVIOUS
  <2>1. calls[d] = 1
    BY <1>1 DEF Good, AttemptInv, SpentGood, WorkerInv, WorkerTypes
  <2>2. CASE b = d
    BY <1>1, <2>1, <2>2 DEF WorkerInv, WorkerTypes, CountsAgree, WithNobody
  <2>3. CASE b # d
    BY <1>1, <2>3 DEF WorkerInv, CountsAgree, WithNobody
  <2> QED
    BY <2>2, <2>3
<1>5. Worker!WorkerNext
  BY DEF Worker!WorkerNext
<1> QED
  BY <1>2, <1>3, <1>4, <1>5 DEF CalledWell, WorkerInv

\* The call dies with the process.
LEMMA CrashCalls ==
  ASSUME Good, WorkerInv, ServedCrash
  PROVE  CalledWell
<1>1. UNCHANGED calls /\ \A t \in Threads : thread'[t].pc # "worker"
  BY DEF ServedCrash, Crash, Idle
<1>2. CASE serving = None
  BY <1>1, <1>2, OverKeepsWorker DEF ServedCrash
<1>3. CASE serving # None
  BY <1>1, <1>3, EndAgrees DEF ServedCrash, Worker!Endings
<1> QED
  BY <1>2, <1>3

\* Every step of the composition calls the worker as its contract says, and keeps what they
\* know of each other.
LEMMA ServedStepCalls ==
  ASSUME Good, Good', WorkerInv, [ServedNext]_servedVars
  PROVE  CalledWell
<1>1. ASSUME NEW t \in Threads, PlainStep(t)
      PROVE  CalledWell
  BY <1>1, PlainStepIsQuiet, QuietKeepsWorker, StillWorker
<1>2. ASSUME NEW t \in Threads, ServedDispatch(t) \/ HandleOutcome(t) \/ ServedFault(t)
      PROVE  CalledWell
  BY <1>2, DispatchCalls, OutcomeCalls, FaultCalls
<1>3. CASE CommonStep \/ UNCHANGED servedVars
  <2>1. UNCHANGED <<thread, calls, workerVars>>
    BY <1>3 DEF CommonStep, AcknowledgeCall, Sweep, Restart, Tick, servedVars, vars
  <2> QED
    BY <2>1, QuietKeepsWorker, StillWorker DEF StillCalling
<1>4. CASE WorkerStep
  <2>1. CASE Worker!Take \/ \E d \in Documents : Worker!TakeLate(d)
    BY <1>4, <2>1, TakeAgrees DEF WorkerStep
  <2>2. ASSUME NEW e \in Worker!Endings, Worker!End(e)
        PROVE  CalledWell
    BY <1>4, <2>2, EndAgrees DEF WorkerStep, vars
  <2> QED
    BY <1>4, <2>1, <2>2 DEF WorkerStep
<1>5. CASE ServedCrash
  BY <1>5, CrashCalls
<1> QED
  BY <1>1, <1>2, <1>3, <1>4, <1>5 DEF ServedNext

-----------------------------------------------------------------------------------
(* The promise to the worker.                                                      *)

\* The inductive invariant of the composition.
THEOREM ServedInvariant ==
  ASSUME RetentionCovers
  PROVE  ServedSpec => [](Good /\ WorkerInv)
<1>1. Good /\ Good' /\ WorkerInv /\ [ServedNext]_servedVars => WorkerInv'
  BY ServedStepCalls DEF CalledWell
<1> QED
  BY <1>1, WorkerInitially, ServedImplementsService, AttemptInvariant, PTL DEF ServedSpec

\* The rows of infer() and initialize() keep every server from admitting a document twice,
\* late submissions and crashes of the gateway included (app.py:190-252, store.py:178-222).
THEOREM ServersAdmitOnce ==
  ASSUME RetentionCovers
  PROVE  ServedSpec => []AdmittedAtMostOnce
<1>1. Good /\ WorkerInv => AdmittedAtMostOnce
  <2> SUFFICES ASSUME Good, WorkerInv, NEW d \in Documents
               PROVE  /\ calls[d] <= 1 /\ taken[d] <= calls[d]
                      /\ d \in adrift => taken[d] < calls[d]
    BY DEF AdmittedAtMostOnce
  <2> QED
    BY DEF Good, AttemptInv, SpentGood, WorkerInv, CountsAgree
<1> QED
  BY <1>1, ServedInvariant, PTL

\* infer() of the gateway keeps the caller's part of the contract of InferenceWorker.infer,
\* which the router relies on: one call at a time, and a request again only after
\* WorkerUnavailable (app.py:190-232, worker.py:34-39).
THEOREM WorkerIsCalledAsAgreed ==
  ASSUME RetentionCovers
  PROVE  ServedSpec => CalledAsAgreed
<1>1. ServedInit => Worker!WorkerInit
  BY DEF ServedInit
<1>2. Good /\ Good' /\ WorkerInv /\ [ServedNext]_servedVars
        => [Worker!WorkerNext]_(Worker!workerVars)
  BY ServedStepCalls DEF CalledWell
<1> QED
  BY <1>1, <1>2, ServedInvariant, PTL DEF ServedSpec, CalledAsAgreed, Worker!WorkerSpec

\* The promise of the gateway holds where the worker takes submissions late or loses them.
THEOREM ServedKeepsPromise ==
  ASSUME RetentionCovers
  PROVE  ServedSpec => PromiseKept
BY ServedImplementsService, ServiceKeepsPromise, PTL
===================================================================================
