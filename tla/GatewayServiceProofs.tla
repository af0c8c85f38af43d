--------------------------- MODULE GatewayServiceProofs ---------------------------
(***********************************************************************************)
(* Theorems of GatewayService, for every number of threads, documents, credentials, *)
(* attempts and keys.  The first part: its steps are steps of the table, so the      *)
(* theorems of RequestStoreProofs hold of it, and the lane has one owner that wakes   *)
(* its waiters.  The second: attempts, worker calls and results, under the condition  *)
(* that tombstones outlast the documents they guard.                                *)
(***********************************************************************************)
EXTENDS GatewayService, RequestStoreProofs

-----------------------------------------------------------------------------------
(* The inductive invariant.                                                        *)

\* The attempt identity of an owner is drawn when the lane is claimed.
OwnersHaveAttempts ==
  \A t \in Threads : Owner(t) => thread[t].attempt \in Attempts

LaneInv == OwnersHaveAttempts /\ SingleOwner /\ WaiterHasOwner

ServiceInv == StoreInv /\ ServiceTypeOK /\ LaneInv

ThreadsTyped == thread' \in [Threads -> Call \cup {Idle}]

\* Thread t alone takes a step, owns the lane before and after it, for the same attempt.
OwnerMoves(t) ==
  /\ ThreadsTyped
  /\ \A u \in Threads \ {t} : thread'[u] = thread[u]
  /\ Owner(t) /\ Owner(t)'
  /\ thread'[t].document = thread[t].document
  /\ thread'[t].attempt = thread[t].attempt

\* Thread t alone takes a step, and owns the lane neither before nor after it.
BystanderMoves(t) ==
  /\ ThreadsTyped
  /\ \A u \in Threads \ {t} : thread'[u] = thread[u]
  /\ ~Owner(t) /\ ~Owner(t)'
  /\ thread'[t].pc = "wait" => lane = thread'[t].document.request_id

-----------------------------------------------------------------------------------
(* Lemmas about threads.                                                           *)

\* A thread with a call has a credential, a document and its identity.
LEMMA CallsAreTyped ==
  ASSUME ServiceTypeOK, NEW t \in Threads, thread[t] # Idle
  PROVE  /\ thread[t] \in Call
         /\ thread[t].credential \in Credentials
         /\ thread[t].document \in Documents
         /\ thread[t].document.expires_at \in Nat
         /\ IdOf(t) \in RequestIds
BY DocumentsAssumption DEF ServiceTypeOK, Call, IdOf

\* A thread that is not idle is recognised by its step.
LEMMA BusyIsNotIdle ==
  ASSUME NEW t \in Threads, thread[t].pc \in Steps
  PROVE  thread[t] # Idle
BY DEF Steps, OwnerSteps, Idle

\* An owner goes to another of its steps.
LEMMA StepMoves ==
  ASSUME ServiceTypeOK, NEW t \in Threads, Owner(t), NEW s \in OwnerSteps,
         thread' = [thread EXCEPT ![t].pc = s]
  PROVE  OwnerMoves(t)
<1>1. thread[t] \in Call
  BY CallsAreTyped, BusyIsNotIdle DEF Owner, Steps
<1>2. thread' = [thread EXCEPT ![t] = [thread[t] EXCEPT !.pc = s]]
  OBVIOUS
<1>3. [thread[t] EXCEPT !.pc = s] \in Call
  BY <1>1 DEF Call, Steps
<1>4. ThreadsTyped
  BY <1>2, <1>3 DEF ThreadsTyped, ServiceTypeOK
<1>5. /\ thread'[t].pc = s
      /\ thread'[t].document = thread[t].document
      /\ thread'[t].attempt = thread[t].attempt
  BY <1>1, <1>2 DEF Call, ServiceTypeOK
<1> QED
  BY <1>2, <1>4, <1>5 DEF OwnerMoves, Owner, ServiceTypeOK

\* An owner goes to the finally clause with its reply.
LEMMA FinishMoves ==
  ASSUME ServiceTypeOK, NEW t \in Threads, Owner(t), NEW reply \in Replies, Finish(t, reply)
  PROVE  OwnerMoves(t)
<1>1. thread[t] \in Call
  BY CallsAreTyped, BusyIsNotIdle DEF Owner, Steps
<1>2. thread' = [thread EXCEPT ![t] = [thread[t] EXCEPT !.pc = "release", !.reply = reply]]
  BY DEF Finish, ServiceTypeOK
<1>3. [thread[t] EXCEPT !.pc = "release", !.reply = reply] \in Call
  BY <1>1 DEF Call, Steps, OwnerSteps
<1>4. ThreadsTyped
  BY <1>2, <1>3 DEF ThreadsTyped, ServiceTypeOK
<1>5. /\ thread'[t].pc = "release"
      /\ thread'[t].document = thread[t].document
      /\ thread'[t].attempt = thread[t].attempt
  BY <1>1, <1>2 DEF Call, ServiceTypeOK
<1> QED
  BY <1>2, <1>4, <1>5 DEF OwnerMoves, Owner, ServiceTypeOK, OwnerSteps

\* A call that owns nothing returns.
LEMMA ReturnMoves ==
  ASSUME ServiceTypeOK, NEW t \in Threads, ~Owner(t), Return(t)
  PROVE  BystanderMoves(t)
<1>1. thread' = [thread EXCEPT ![t] = Idle]
  BY DEF Return
<1>2. ThreadsTyped
  BY <1>1 DEF ThreadsTyped, ServiceTypeOK
<1>3. thread'[t] = Idle /\ Idle.pc = "idle"
  BY <1>1 DEF ServiceTypeOK, Idle
<1> QED
  BY <1>1, <1>2, <1>3 DEF BystanderMoves, Owner, OwnerSteps, ServiceTypeOK

\* A reload that finds no answer in the row goes to tell its client what that means.
Concludes(t) ==
  \E reply \in {"worker_unavailable", "inference_timeout"} :
    thread' = [thread EXCEPT ![t].pc = "answer", ![t].reply = reply]

\* A reload returns, or has something to tell.
LEMMA ReloadEnds ==
  ASSUME NEW t \in Threads, Reload(t)
  PROVE  Return(t) \/ Concludes(t)
BY DEF Reload, Concludes, Conclusion

\* A call that owns nothing concludes.
LEMMA ConclusionMoves ==
  ASSUME ServiceTypeOK, NEW t \in Threads, thread[t].pc \in Steps, ~Owner(t), Concludes(t)
  PROVE  BystanderMoves(t)
<1>1. thread[t] \in Call
  BY CallsAreTyped, BusyIsNotIdle
<1>2. PICK reply \in {"worker_unavailable", "inference_timeout"} :
        thread' = [thread EXCEPT ![t] = [thread[t] EXCEPT !.pc = "answer", !.reply = reply]]
  BY DEF Concludes, ServiceTypeOK
<1>3. [thread[t] EXCEPT !.pc = "answer", !.reply = reply] \in Call
  BY <1>1 DEF Call, Steps, Replies
<1>4. ThreadsTyped
  BY <1>2, <1>3 DEF ThreadsTyped, ServiceTypeOK
<1>5. thread'[t].pc = "answer"
  BY <1>1, <1>2 DEF Call, ServiceTypeOK
<1> QED
  BY <1>2, <1>4, <1>5 DEF BystanderMoves, Owner, OwnerSteps, ServiceTypeOK

\* A call sets out to wait for the lane of its own request.
LEMMA WaitingMoves ==
  ASSUME ServiceTypeOK, NEW t \in Threads, thread[t].pc \in {"claim", "join"},
         lane = IdOf(t), thread' = Waiting(t)
  PROVE  BystanderMoves(t)
<1>1. thread[t] \in Call /\ thread[t].document.expires_at \in Nat
  BY CallsAreTyped, BusyIsNotIdle DEF Steps
<1> DEFINE patience == clock + WorkerTimeout + 1
           limit == IF thread[t].document.expires_at <= patience
                    THEN thread[t].document.expires_at ELSE patience
           call == [thread[t] EXCEPT !.pc = "wait", !.deadline = limit]
<1>2. limit \in Int
  BY <1>1, ServiceAssumption, LimitsAssumption DEF ServiceTypeOK, Seconds
<1>3. thread' = [thread EXCEPT ![t] = call]
  BY DEF Waiting, ServiceTypeOK
<1> HIDE DEF limit
<1>4. call \in Call /\ call.pc = "wait" /\ call.document = thread[t].document
  BY <1>1, <1>2 DEF Call, Steps, OwnerSteps
<1> HIDE DEF call
<1>5. ThreadsTyped
  BY <1>3, <1>4 DEF ThreadsTyped, ServiceTypeOK
<1>6. thread'[t] = call
  BY <1>3 DEF ServiceTypeOK
<1> QED
  BY <1>3, <1>4, <1>5, <1>6 DEF BystanderMoves, Owner, OwnerSteps, ServiceTypeOK, IdOf

-----------------------------------------------------------------------------------
(* Lemmas about the lane.                                                          *)

\* The lane stays with its owner.
LEMMA OwnerKeepsLane ==
  ASSUME ServiceTypeOK, LaneInv, NEW t \in Threads, OwnerMoves(t), lane' = lane
  PROVE  LaneInv'
<1>1. \A u \in Threads : Owner(u)' <=> Owner(u)
  BY DEF OwnerMoves, Owner
<1>2. \A u \in Threads : Owner(u) => IdOf(u)' = IdOf(u) /\ thread'[u].attempt = thread[u].attempt
  BY DEF OwnerMoves, Owner, IdOf
<1>3. \A u \in Threads : thread'[u].pc = "wait" => u # t /\ thread'[u] = thread[u]
  BY DEF OwnerMoves, Owner, OwnerSteps
<1>4. OwnersHaveAttempts'
  BY <1>1, <1>2 DEF OwnersHaveAttempts, LaneInv
<1>5. SingleOwner'
  BY <1>1, <1>2 DEF SingleOwner, LaneInv
<1>6. WaiterHasOwner'
  BY <1>3 DEF WaiterHasOwner, LaneInv, IdOf
<1> QED
  BY <1>4, <1>5, <1>6 DEF LaneInv

\* The lane is no concern of a bystander.
LEMMA BystanderKeepsLane ==
  ASSUME ServiceTypeOK, LaneInv, NEW t \in Threads, BystanderMoves(t), lane' = lane
  PROVE  LaneInv'
<1>1. \A u \in Threads : Owner(u)' <=> Owner(u)
  BY DEF BystanderMoves, Owner
<1>2. \A u \in Threads : Owner(u) => IdOf(u)' = IdOf(u) /\ thread'[u].attempt = thread[u].attempt
  BY DEF BystanderMoves, Owner, IdOf
<1>3. \A u \in Threads : thread'[u].pc = "wait" => lane = thread'[u].document.request_id
  BY DEF BystanderMoves, LaneInv, WaiterHasOwner, IdOf
<1>4. OwnersHaveAttempts'
  BY <1>1, <1>2 DEF OwnersHaveAttempts, LaneInv
<1>5. SingleOwner'
  BY <1>1, <1>2 DEF SingleOwner, LaneInv
<1>6. WaiterHasOwner'
  BY <1>3 DEF WaiterHasOwner, IdOf
<1> QED
  BY <1>4, <1>5, <1>6 DEF LaneInv

-----------------------------------------------------------------------------------
(* The steps of the process are methods of the table.                              *)

\* A method of the table, called with a sample the clock has shown.
TimelyStep == \E at \in Seconds : at <= clock /\ StoreCall(at)

\* One that neither files a request nor acknowledges it.
TimelyAttempt == \E at \in Seconds : at <= clock /\ AttemptCall(at)

\* It is such a method.
LEMMA TimelyAttemptIsStep == TimelyAttempt => TimelyStep
BY DEF TimelyAttempt, TimelyStep, StoreCall

\* A recent clock sample is a second the clock has shown.
LEMMA SamplesAreSeconds == \A at \in Recent : at \in Seconds /\ at <= clock
BY DEF Recent

\* Each method, called with proper arguments, is such a step: those that find or file a
\* row,
LEMMA ReadsAreSteps ==
  ASSUME NEW at \in Seconds, at <= clock, NEW c \in Credentials, NEW d \in Documents
  PROVE  /\ Admit(c, d, at) => TimelyStep
         /\ GetOwned(c, d, at) => TimelyAttempt
BY DEF TimelyStep, TimelyAttempt, StoreCall, AttemptCall

\* those of maintenance and start-up,
LEMMA SweepsAreSteps ==
  ASSUME NEW at \in Seconds, at <= clock
  PROVE  (Maintain(at) => TimelyAttempt) /\ (Initialize(at) => TimelyAttempt)
BY DEF TimelyAttempt, AttemptCall

\* and those that begin or end an attempt.
LEMMA UpdatesAreSteps ==
  ASSUME ServiceTypeOK, NEW id \in RequestIds, NEW a \in Attempts
  PROVE  /\ ResetReserved(id, a) => TimelyAttempt
         /\ MarkAmbiguous(id, a) => TimelyAttempt
         /\ MarkFailed(id, a) => TimelyAttempt
         /\ \A at \in Recent : MarkInProgress(id, a, at) => TimelyAttempt
         /\ \A at \in Recent, x \in Contents, k \in Keys :
              Complete(id, a, x, k, at) => TimelyAttempt
<1>1. clock \in Seconds /\ clock <= clock
  BY DEF ServiceTypeOK, Seconds
<1> QED
  BY <1>1, SamplesAreSeconds DEF TimelyAttempt, AttemptCall

\* What every owner knows of its request and its attempt.
LEMMA OwnersAreTyped ==
  ASSUME ServiceTypeOK, LaneInv, NEW t \in Threads, Owner(t)
  PROVE  /\ thread[t].credential \in Credentials
         /\ thread[t].document \in Documents
         /\ IdOf(t) \in RequestIds
         /\ thread[t].attempt \in Attempts
<1>1. thread[t] # Idle
  BY BusyIsNotIdle DEF Owner, Steps
<1> QED
  BY <1>1, CallsAreTyped DEF LaneInv, OwnersHaveAttempts

\* Past its expiry a request is reloaded: a step of the table.
LEMMA ExpireIsStep ==
  ASSUME ServiceTypeOK, LaneInv, NEW t \in Threads, Owner(t), NEW at \in Recent,
         ExpireInstead(t, at)
  PROVE  TimelyAttempt
BY OwnersAreTyped, ReadsAreSteps, SamplesAreSeconds DEF ExpireInstead

\* A step of a thread is a step of the table or leaves it alone.
LEMMA ThreadTableStep ==
  ASSUME ServiceTypeOK, LaneInv, NEW t \in Threads,
         ThreadStep(t) \/ WaitTimeout(t) \/ StoreFault(t)
  PROVE  rows' = rows \/ TimelyAttempt
<1>1. CASE \/ ClaimLane(t) \/ JoinActive(t) \/ ReleaseLane(t)
           \/ Answer(t) \/ WaitTimeout(t) \/ StoreFault(t)
  BY <1>1 DEF ClaimLane, JoinActive, ReleaseLane, Answer, WaitTimeout, StoreFault
<1>2. CASE Reload(t)
  <2>1. thread[t] # Idle
    BY <1>2, BusyIsNotIdle DEF Reload, Steps
  <2> QED
    BY <1>2, <2>1, CallsAreTyped, ReadsAreSteps, SamplesAreSeconds DEF Reload
<1>3. CASE Mark(t)
  <2>1. Owner(t)
    BY <1>3 DEF Mark, Owner, OwnerSteps
  <2> QED
    BY <1>3, <2>1, ExpireIsStep, OwnersAreTyped, UpdatesAreSteps, SamplesAreSeconds DEF Mark
<1>4. CASE Dispatch(t)
  <2>1. Owner(t)
    BY <1>4 DEF Dispatch, Owner, OwnerSteps
  <2> QED
    BY <1>4, <2>1, ExpireIsStep, SamplesAreSeconds DEF Dispatch
<1>5. CASE CallRefused(t) \/ CallLost(t) \/ CallInvalid(t) \/ MarkUnsettled(t)
  <2>1. Owner(t)
    BY <1>5 DEF CallRefused, CallLost, CallInvalid, MarkUnsettled, Owner, OwnerSteps
  <2> QED
    BY <1>5, <2>1, OwnersAreTyped, UpdatesAreSteps
    DEF CallRefused, CallLost, CallInvalid, MarkUnsettled
<1>6. ASSUME NEW x \in Contents, CallAnswered(t, x)
      PROVE  TimelyAttempt
  <2>1. Owner(t)
    BY <1>6 DEF CallAnswered, Owner, OwnerSteps
  <2>2. key \in Keys
    BY DEF ServiceTypeOK
  <2> QED
    BY <1>6, <2>1, <2>2, OwnersAreTyped, UpdatesAreSteps, SamplesAreSeconds DEF CallAnswered
<1>7. CASE Collect(t)
  <2>1. Owner(t)
    BY <1>7 DEF Collect, Owner, OwnerSteps
  <2> QED
    BY <1>7, <2>1, OwnersAreTyped, ReadsAreSteps, SamplesAreSeconds DEF Collect
<1> QED
  BY <1>1, <1>2, <1>3, <1>4, <1>5, <1>6, <1>7 DEF ThreadStep, WorkerReturns

\* Every step of the process leaves the table alone or is a method of RequestStore, called
\* with a sample that is not ahead of the clock.
LEMMA TableStep ==
  ASSUME ServiceTypeOK, LaneInv, [ServiceNext]_vars
  PROVE  rows' = rows \/ TimelyStep
<1>1. CASE UNCHANGED vars
  BY <1>1 DEF vars
<1>2. ASSUME NEW t \in Threads, NEW c \in Credentials, NEW d \in Documents, Infer(t, c, d)
      PROVE  TimelyStep
  BY <1>2, ReadsAreSteps, SamplesAreSeconds DEF Infer
<1>3. ASSUME NEW t \in Threads, ThreadStep(t) \/ WaitTimeout(t) \/ StoreFault(t)
      PROVE  rows' = rows \/ TimelyStep
  BY <1>3, ThreadTableStep, TimelyAttemptIsStep
<1>4. ASSUME NEW c \in Credentials, NEW id \in RequestIds, NEW s \in Dispositions,
             AcknowledgeCall(c, id, s)
      PROVE  TimelyStep
  BY <1>4, SamplesAreSeconds DEF AcknowledgeCall, TimelyStep, StoreCall
<1>5. ASSUME NEW at \in Seconds, Sweep(at)
      PROVE  TimelyStep
  BY <1>5, SweepsAreSteps, TimelyAttemptIsStep DEF Sweep
<1>6. CASE Crash \/ Tick
  BY <1>6 DEF Crash, Tick
<1>7. CASE Restart
  <2>1. clock \in Seconds /\ clock <= clock
    BY DEF ServiceTypeOK, Seconds
  <2> QED
    BY <1>7, <2>1, SweepsAreSteps, TimelyAttemptIsStep DEF Restart
<1> QED
  BY <1>1, <1>2, <1>3, <1>4, <1>5, <1>6, <1>7 DEF ServiceNext

\* Such a step is one of RequestStore.
LEMMA TimelyStepIsStore == TimelyStep => StoreNext
BY DEF TimelyStep, StoreCall, AttemptCall, StoreNext

-----------------------------------------------------------------------------------
(* The steps of one thread.                                                        *)

Kept == ServiceTypeOK' /\ LaneInv'

\* A thread that moves as an owner or as a bystander keeps the invariant, when the other
\* variables keep their type.
LEMMA MovesKeep ==
  ASSUME ServiceTypeOK, LaneInv, NEW t \in Threads, OwnerMoves(t) \/ BystanderMoves(t),
         UNCHANGED <<clock, up, key, lane>>,
         calls' \in [Documents -> Int], delivered' \subseteq Delivery
  PROVE  Kept
<1>1. LaneInv'
  BY OwnerKeepsLane, BystanderKeepsLane
<1>2. ThreadsTyped
  BY DEF OwnerMoves, BystanderMoves
<1>3. ServiceTypeOK'
  BY <1>2 DEF ServiceTypeOK, ThreadsTyped
<1> QED
  BY <1>1, <1>3 DEF Kept

\* What is delivered from a well-formed row is a delivery.
LEMMA DeliverIsTyped ==
  ASSUME ServiceTypeOK, NEW c \in Credentials, NEW d \in Documents, NEW id, NEW row,
         GoodRow(id, row), Deliver(c, d, row)
  PROVE  delivered' \subseteq Delivery
<1>1. CASE ~Readable(row)
  BY <1>1 DEF Deliver, ServiceTypeOK
<1>2. CASE Readable(row)
  <2>1. row \in Row /\ row.output # None
    BY <1>2 DEF Readable, GoodRow, Absent
  <2>2. row.output \in Outputs
    BY <2>1 DEF Row
  <2>3. row.output.content \in Contents
    BY <2>2 DEF Outputs
  <2>4. [credential |-> c, document |-> d, content |-> row.output.content] \in Delivery
    BY <2>3 DEF Delivery
  <2> QED
    BY <1>2, <2>4 DEF Deliver, ServiceTypeOK
<1> QED
  BY <1>1, <1>2

\* An existing record is answered with one of the replies.
LEMMA RepliesAreTyped ==
  ASSUME NEW row
  PROVE  ReplyTo(row) \in Replies
BY DEF ReplyTo, Replies

\* Admission: the call goes on to the lane, waits for it, or is answered at once.
LEMMA InferKeeps ==
  ASSUME ServiceTypeOK, LaneInv, GoodTable(rows'), NEW t \in Threads, NEW c \in Credentials,
         NEW d \in Documents, Infer(t, c, d)
  PROVE  Kept
<1> DEFINE row == rows'[d.request_id]
           call(pc) == [pc |-> pc, credential |-> c, document |-> d,
                        attempt |-> None, reply |-> None, deadline |-> 0]
<1>1. GoodRow(d.request_id, row)
  BY DocumentsAssumption DEF GoodTable
<1>2. delivered' \subseteq Delivery
  BY <1>1, DeliverIsTyped DEF Infer, ServiceTypeOK
<1>3. \/ thread' = thread
      \/ thread' = [thread EXCEPT ![t] = call("claim")]
      \/ thread' = [thread EXCEPT ![t] = call("join")]
  BY DEF Infer, Idle
<1>4. \A pc \in {"claim", "join"} : call(pc) \in Call /\ call(pc).pc = pc
  BY DEF Call, Steps
<1>5. thread[t].pc = "idle"
  BY DEF Infer, Idle
<1> HIDE DEF call, row
<1>6. BystanderMoves(t)
  <2>1. CASE thread' = thread
    BY <1>5, <2>1 DEF BystanderMoves, ThreadsTyped, Owner, OwnerSteps, ServiceTypeOK
  <2>2. ASSUME NEW pc \in {"claim", "join"}, thread' = [thread EXCEPT ![t] = call(pc)]
        PROVE  BystanderMoves(t)
    <3>1. ThreadsTyped
      BY <1>4, <2>2 DEF ThreadsTyped, ServiceTypeOK
    <3>2. thread'[t].pc = pc
      BY <1>4, <2>2 DEF ServiceTypeOK
    <3> QED
      BY <1>5, <2>2, <3>1, <3>2 DEF BystanderMoves, Owner, OwnerSteps, ServiceTypeOK
  <2> QED
    BY <1>3, <2>1, <2>2
<1>7. UNCHANGED <<clock, up, key, lane, calls>>
  BY DEF Infer
<1> QED
  BY <1>2, <1>6, <1>7, MovesKeep DEF ServiceTypeOK

\* The lane is claimed for a new attempt, waited for, or given up.
LEMMA ClaimKeeps ==
  ASSUME ServiceTypeOK, LaneInv, NEW t \in Threads, ClaimLane(t)
  PROVE  Kept
<1>1. thread[t] \in Call /\ IdOf(t) \in RequestIds
  BY CallsAreTyped, BusyIsNotIdle DEF ClaimLane, Steps
<1>2. ~Owner(t) /\ thread[t].pc = "claim"
  BY DEF ClaimLane, Owner, OwnerSteps
<1>3. UNCHANGED <<clock, up, key, calls, delivered>>
  BY DEF ClaimLane
<1>4. CASE lane # None
  <2>1. lane' = lane
    BY <1>4 DEF ClaimLane, Claimed
  <2>2. BystanderMoves(t)
    BY <1>2, <1>4, WaitingMoves, ReturnMoves DEF ClaimLane, Claimed
  <2> QED
    BY <1>3, <2>1, <2>2, MovesKeep DEF ServiceTypeOK
<1>5. CASE lane = None
  <2>1. PICK a \in FreshAttempts :
          thread' = [thread EXCEPT ![t].pc = "mark", ![t].attempt = a]
    BY <1>1, <1>5, ServiceAssumption DEF ClaimLane, Claimed
  <2>2. a \in Attempts
    BY DEF FreshAttempts
  <2>3. lane' = IdOf(t)
    BY <1>1, <1>5, ServiceAssumption DEF ClaimLane, Claimed
  <2> DEFINE call == [thread[t] EXCEPT !.pc = "mark", !.attempt = a]
  <2>4. call \in Call
    BY <1>1, <2>2 DEF Call, Steps, OwnerSteps
  <2>5. thread' = [thread EXCEPT ![t] = call]
    BY <2>1 DEF ServiceTypeOK
  <2>6. call.pc = "mark" /\ call.attempt = a /\ call.document = thread[t].document
    BY <1>1 DEF Call
  <2> HIDE DEF call
  <2>7. ThreadsTyped
    BY <2>4, <2>5 DEF ThreadsTyped, ServiceTypeOK
  <2>8. thread'[t] = call /\ \A u \in Threads \ {t} : thread'[u] = thread[u]
    BY <2>5 DEF ServiceTypeOK
  <2>9. \A u \in Threads : ~Owner(u) /\ thread[u].pc # "wait"
    <3>1. \A u \in Threads : thread[u].pc \in Steps => IdOf(u) # None
      BY BusyIsNotIdle, CallsAreTyped, ServiceAssumption
    <3> QED
      BY <1>5, <3>1 DEF LaneInv, SingleOwner, WaiterHasOwner, Owner, Steps
  <2>10. \A u \in Threads : (Owner(u)' <=> u = t) /\ thread'[u].pc # "wait"
    BY <2>6, <2>8, <2>9 DEF Owner, OwnerSteps
  <2>11. IdOf(t)' = lane' /\ thread'[t].attempt \in Attempts
    BY <2>2, <2>3, <2>6, <2>8 DEF IdOf
  <2>12. LaneInv'
    BY <2>10, <2>11 DEF LaneInv, OwnersHaveAttempts, SingleOwner, WaiterHasOwner
  <2>13. ServiceTypeOK'
    BY <1>1, <1>3, <2>3, <2>7 DEF ServiceTypeOK, ThreadsTyped
  <2> QED
    BY <2>12, <2>13 DEF Kept
<1> QED
  BY <1>4, <1>5

\* A repeat of a request in progress waits for its owner, or reloads it at once.
LEMMA JoinKeeps ==
  ASSUME ServiceTypeOK, LaneInv, NEW t \in Threads, JoinActive(t)
  PROVE  Kept
<1>1. thread[t] \in Call
  BY CallsAreTyped, BusyIsNotIdle DEF JoinActive, Steps
<1>2. CASE lane = IdOf(t)
  BY <1>2, WaitingMoves, MovesKeep DEF JoinActive, ServiceTypeOK
<1>3. CASE lane # IdOf(t)
  <2>1. thread' = [thread EXCEPT ![t] = [thread[t] EXCEPT !.pc = "reload"]]
    BY <1>3 DEF JoinActive
  <2>2. [thread[t] EXCEPT !.pc = "reload"] \in Call
    BY <1>1 DEF Call, Steps
  <2>3. ThreadsTyped
    BY <2>1, <2>2 DEF ThreadsTyped, ServiceTypeOK
  <2>4. thread'[t].pc = "reload"
    BY <1>1, <2>1 DEF Call, ServiceTypeOK
  <2>5. BystanderMoves(t)
    BY <2>1, <2>3, <2>4 DEF BystanderMoves, Owner, OwnerSteps, JoinActive, ServiceTypeOK
  <2> QED
    BY <2>5, MovesKeep DEF JoinActive, ServiceTypeOK
<1> QED
  BY <1>2, <1>3

\* A call that waited, or joined too late, reads the row, answers and returns.
LEMMA ReloadKeeps ==
  ASSUME ServiceTypeOK, LaneInv, GoodTable(rows'), NEW t \in Threads,
         Reload(t) \/ Answer(t) \/ WaitTimeout(t)
  PROVE  Kept
<1>1. BystanderMoves(t)
  <2>1. thread[t].pc \in Steps /\ ~Owner(t)
    BY DEF Reload, Answer, WaitTimeout, Owner, OwnerSteps, Steps
  <2>2. Return(t) \/ Concludes(t)
    BY ReloadEnds DEF Answer, WaitTimeout
  <2> QED
    BY <2>1, <2>2, ReturnMoves, ConclusionMoves
<1>2. delivered' \subseteq Delivery
  <2>1. CASE Answer(t) \/ WaitTimeout(t)
    BY <2>1 DEF Answer, WaitTimeout, ServiceTypeOK
  <2>2. CASE Reload(t)
    <3>1. thread[t] # Idle
      BY <2>2, BusyIsNotIdle DEF Reload, Steps
    <3>2. GoodRow(IdOf(t), rows'[IdOf(t)])
      BY <3>1, CallsAreTyped DEF GoodTable
    <3> QED
      BY <2>2, <3>1, <3>2, CallsAreTyped, DeliverIsTyped DEF Reload, ServiceTypeOK, IdOf
  <2> QED
    BY <2>1, <2>2
<1> QED
  BY <1>1, <1>2, MovesKeep DEF Reload, Answer, WaitTimeout, ServiceTypeOK

\* An expired request ends its call through the finally clause or the error handler.
LEMMA ExpireMoves ==
  ASSUME ServiceTypeOK, NEW t \in Threads, Owner(t), NEW at, ExpireInstead(t, at)
  PROVE  OwnerMoves(t)
BY FinishMoves, StepMoves DEF ExpireInstead, Settle, Replies, OwnerSteps

\* The owner marks its row, and begins the worker call.
LEMMA MarkKeeps ==
  ASSUME ServiceTypeOK, LaneInv, NEW t \in Threads, Mark(t) \/ Dispatch(t)
  PROVE  Kept
<1>1. Owner(t)
  BY DEF Mark, Dispatch, Owner, OwnerSteps
<1>2. {"dispatch", "worker", "settle"} \subseteq OwnerSteps
  BY DEF OwnerSteps
<1>3. OwnerMoves(t)
  <2>1. CASE Mark(t)
    BY <1>1, <1>2, <2>1, ExpireMoves, StepMoves DEF Mark, Settle
  <2>2. CASE Dispatch(t)
    BY <1>1, <1>2, <2>2, ExpireMoves, StepMoves DEF Dispatch
  <2> QED
    BY <2>1, <2>2
<1>4. calls' \in [Documents -> Int]
  BY DEF Mark, Dispatch, ServiceTypeOK
<1> QED
  BY <1>3, <1>4, MovesKeep DEF Mark, Dispatch, ServiceTypeOK

\* The outcome of the worker call is recorded.
LEMMA OutcomeKeeps ==
  ASSUME ServiceTypeOK, LaneInv, NEW t \in Threads, WorkerReturns(t) \/ MarkUnsettled(t)
  PROVE  Kept
<1>1. Owner(t)
  BY DEF WorkerReturns, CallRefused, CallLost, CallInvalid, CallAnswered, MarkUnsettled,
         Owner, OwnerSteps
<1>2. CASE CallRefused(t)
  <2>1. OwnerMoves(t)
    BY <1>1, <1>2, FinishMoves DEF CallRefused, Replies
  <2>2. calls' \in [Documents -> Int]
    <3>1. calls \in [Documents -> Int] /\ thread[t].document \in Documents
      BY <1>1, OwnersAreTyped DEF ServiceTypeOK
    <3>2. calls[thread[t].document] - 1 \in Int
      BY <3>1
    <3> QED
      BY <1>2, <3>1, <3>2 DEF CallRefused
  <2> QED
    BY <1>2, <2>1, <2>2, MovesKeep DEF CallRefused, ServiceTypeOK
<1>3. CASE CallLost(t) \/ CallInvalid(t) \/ MarkUnsettled(t)
  <2>1. OwnerMoves(t)
    BY <1>1, <1>3, FinishMoves DEF CallLost, CallInvalid, MarkUnsettled, Replies
  <2> QED
    BY <1>3, <2>1, MovesKeep DEF CallLost, CallInvalid, MarkUnsettled, ServiceTypeOK
<1>4. ASSUME NEW x \in Contents, CallAnswered(t, x)
      PROVE  Kept
  <2>1. PICK at \in Recent :
          CASE CompleteError(IdOf(t), thread[t].attempt, at) = "none"
                 -> thread' = [thread EXCEPT ![t].pc = "collect"]
            [] CompleteError(IdOf(t), thread[t].attempt, at) = "expired"
                 -> Finish(t, "request_expired")
            [] CompleteError(IdOf(t), thread[t].attempt, at) = "not_owner"
                 -> Settle(t)
    BY <1>4 DEF CallAnswered
  <2>2. CompleteError(IdOf(t), thread[t].attempt, at) \in {"none", "expired", "not_owner"}
    BY DEF CompleteError
  <2>3. \/ thread' = [thread EXCEPT ![t].pc = "collect"]
        \/ Finish(t, "request_expired")
        \/ Settle(t)
    BY <2>1, <2>2
  <2>4. OwnerMoves(t)
    BY <1>1, <2>3, FinishMoves, StepMoves DEF Settle, OwnerSteps, Replies
  <2> QED
    BY <1>4, <2>4, MovesKeep DEF CallAnswered, ServiceTypeOK
<1> QED
  BY <1>2, <1>3, <1>4 DEF WorkerReturns

\* The completed record is read back and answered.
LEMMA CollectKeeps ==
  ASSUME ServiceTypeOK, LaneInv, GoodTable(rows'), NEW t \in Threads, Collect(t)
  PROVE  Kept
<1>1. Owner(t)
  BY DEF Collect, Owner, OwnerSteps
<1>2. OwnerMoves(t)
  BY <1>1, FinishMoves, StepMoves, RepliesAreTyped DEF Collect, Settle, OwnerSteps
<1>3. GoodRow(IdOf(t), rows'[IdOf(t)])
  BY <1>1, OwnersAreTyped DEF GoodTable
<1>4. delivered' \subseteq Delivery
  BY <1>1, <1>3, OwnersAreTyped, DeliverIsTyped DEF Collect, ServiceTypeOK, IdOf
<1> QED
  BY <1>2, <1>4, MovesKeep DEF Collect, ServiceTypeOK

\* A failing transaction ends the call of an owner through the finally clause.
LEMMA FaultKeeps ==
  ASSUME ServiceTypeOK, LaneInv, NEW t \in Threads, StoreFault(t)
  PROVE  Kept
<1>1. OwnerMoves(t) \/ BystanderMoves(t)
  <2>1. CASE thread[t].pc = "reload"
    BY <2>1, ReturnMoves DEF StoreFault, Owner, OwnerSteps
  <2>2. CASE thread[t].pc # "reload"
    BY <2>2, FinishMoves DEF StoreFault, Owner, OwnerSteps, Replies
  <2> QED
    BY <2>1, <2>2
<1> QED
  BY <1>1, MovesKeep DEF StoreFault, ServiceTypeOK

\* Releasing the lane wakes everyone who waits: with one owner, all of them wait for it.
LEMMA ReleaseKeeps ==
  ASSUME ServiceTypeOK, LaneInv, NEW t \in Threads, ReleaseLane(t)
  PROVE  Kept
<1>1. Owner(t)
  BY DEF ReleaseLane, Owner, OwnerSteps
<1>2. \A u \in Threads \ {t} : ~Owner(u)
  BY <1>1 DEF LaneInv, SingleOwner
<1>3. \A u \in Threads : thread'[u] = IF u = t THEN Idle ELSE Woken(thread[u])
  BY DEF ReleaseLane
<1>4. \A u \in Threads : thread[u].pc = "wait" =>
        Woken(thread[u]) \in Call /\ Woken(thread[u]).pc = "reload"
  <2> SUFFICES ASSUME NEW u \in Threads, thread[u].pc = "wait"
               PROVE  Woken(thread[u]) \in Call /\ Woken(thread[u]).pc = "reload"
    OBVIOUS
  <2>1. thread[u] \in Call
    BY CallsAreTyped, BusyIsNotIdle DEF Steps
  <2>2. Woken(thread[u]) = [thread[u] EXCEPT !.pc = "reload", !.deadline = 0]
    BY DEF Woken
  <2>3. [thread[u] EXCEPT !.pc = "reload", !.deadline = 0] \in Call
    <3>1. 0 \in Int
      OBVIOUS
    <3> QED
      BY <2>1, <3>1, Zenon DEF Call, Steps
  <2>4. [thread[u] EXCEPT !.pc = "reload", !.deadline = 0].pc = "reload"
    BY <2>1 DEF Call
  <2> QED
    BY <2>2, <2>3, <2>4
<1>5. \A u \in Threads : thread[u].pc # "wait" => Woken(thread[u]) = thread[u]
  BY DEF Woken
<1>6. ThreadsTyped
  <2>1. \A u \in Threads : Woken(thread[u]) \in Call \cup {Idle}
    BY <1>4, <1>5 DEF ServiceTypeOK
  <2> QED
    BY <2>1 DEF ReleaseLane, ThreadsTyped
<1>7. \A u \in Threads : ~Owner(u)' /\ thread'[u].pc # "wait"
  <2>1. Idle.pc = "idle"
    BY DEF Idle
  <2>2. \A u \in Threads \ {t} : ~Owner(u)' /\ thread'[u].pc # "wait"
    BY <1>2, <1>3, <1>4, <1>5 DEF Owner, OwnerSteps
  <2> QED
    BY <1>3, <2>1, <2>2 DEF Owner, OwnerSteps
<1>8. LaneInv'
  <2>1. lane' = None
    BY DEF ReleaseLane
  <2> QED
    BY <1>7, <2>1 DEF LaneInv, OwnersHaveAttempts, SingleOwner, WaiterHasOwner
<1>9. ServiceTypeOK'
  BY <1>6 DEF ReleaseLane, ThreadsTyped, ServiceTypeOK
<1> QED
  BY <1>8, <1>9 DEF Kept

\* A crash drops every call together with the lane.
LEMMA CrashKeeps ==
  ASSUME ServiceTypeOK, Crash
  PROVE  Kept
<1>1. \A t \in Threads : thread'[t].pc = "idle"
  BY DEF Crash, Idle
<1>2. LaneInv'
  BY <1>1 DEF Crash, LaneInv, OwnersHaveAttempts, SingleOwner, WaiterHasOwner, Owner, OwnerSteps
<1>3. ServiceTypeOK'
  BY DEF Crash, ServiceTypeOK
<1> QED
  BY <1>2, <1>3 DEF Kept

\* Steps that touch neither threads nor lane.
LEMMA OthersKeep ==
  ASSUME ServiceTypeOK, LaneInv, UNCHANGED <<lane, thread, calls, delivered>>,
         clock' \in Seconds, up' \in BOOLEAN, key' \in Keys
  PROVE  Kept
<1>1. LaneInv'
  BY DEF LaneInv, OwnersHaveAttempts, SingleOwner, WaiterHasOwner, Owner, IdOf
<1>2. ServiceTypeOK'
  BY DEF ServiceTypeOK
<1> QED
  BY <1>1, <1>2 DEF Kept

-----------------------------------------------------------------------------------
(* Theorems.                                                                       *)

\* The process starts with an empty table, no call and a free lane.
LEMMA ServiceInitially == ServiceInit => ServiceInv
<1> SUFFICES ASSUME ServiceInit PROVE ServiceInv
  OBVIOUS
<1>1. StoreInv
  BY StoreInitially DEF ServiceInit
<1>2. \A t \in Threads : thread[t] = Idle /\ thread[t].pc = "idle"
  BY DEF ServiceInit, Idle
<1>3. LaneInv
  BY <1>2 DEF ServiceInit, LaneInv, OwnersHaveAttempts, SingleOwner, WaiterHasOwner, Owner,
              OwnerSteps
<1>4. ServiceTypeOK
  BY LimitsAssumption DEF ServiceInit, ServiceTypeOK, Seconds
<1> QED
  BY <1>1, <1>3, <1>4 DEF ServiceInv

\* Every step of the process keeps the invariant of the table, of the lane and the types.
LEMMA ServiceStep == ServiceInv /\ [ServiceNext]_vars => ServiceInv'
<1> SUFFICES ASSUME ServiceInv, [ServiceNext]_vars PROVE ServiceInv'
  OBVIOUS
<1>1. StoreInv'
  BY TableStep, TimelyStepIsStore, StoreStep DEF ServiceInv
<1>2. GoodTable(rows')
  BY <1>1 DEF StoreInv, GoodTable, GoodRow
<1>3. Kept
  <2> USE DEF ServiceInv
  <2>1. CASE UNCHANGED vars
    BY <2>1, OthersKeep DEF vars, ServiceTypeOK
  <2>2. ASSUME NEW t \in Threads, NEW c \in Credentials, NEW d \in Documents, Infer(t, c, d)
        PROVE  Kept
    BY <1>2, <2>2, InferKeeps
  <2>3. ASSUME NEW t \in Threads, ThreadStep(t)
        PROVE  Kept
    BY <1>2, <2>3, ClaimKeeps, JoinKeeps, ReloadKeeps, MarkKeeps, OutcomeKeeps, CollectKeeps,
       ReleaseKeeps DEF ThreadStep
  <2>4. ASSUME NEW t \in Threads, WaitTimeout(t)
        PROVE  Kept
    BY <1>2, <2>4, ReloadKeeps
  <2>5. ASSUME NEW t \in Threads, StoreFault(t)
        PROVE  Kept
    BY <2>5, FaultKeeps
  <2>6. ASSUME NEW c \in Credentials, NEW id \in RequestIds, NEW s \in Dispositions,
               AcknowledgeCall(c, id, s)
        PROVE  Kept
    BY <2>6, OthersKeep DEF AcknowledgeCall, ServiceTypeOK
  <2>7. ASSUME NEW at \in Seconds, Sweep(at)
        PROVE  Kept
    BY <2>7, OthersKeep DEF Sweep, ServiceTypeOK
  <2>8. CASE Crash
    BY <2>8, CrashKeeps
  <2>9. CASE Restart
    BY <2>9, OthersKeep DEF Restart, ServiceTypeOK
  <2>10. CASE Tick
    <3>1. clock + 1 \in Seconds
      BY <2>10, LimitsAssumption DEF Tick, ServiceTypeOK, Seconds
    <3> QED
      BY <2>10, <3>1, OthersKeep DEF Tick, ServiceTypeOK
  <2> QED
    BY <2>1, <2>2, <2>3, <2>4, <2>5, <2>6, <2>7, <2>8, <2>9, <2>10 DEF ServiceNext
<1> QED
  BY <1>1, <1>3 DEF Kept, ServiceInv

\* The inductive invariant of the process.
THEOREM ServiceInvariant == ServiceSpec => []ServiceInv
BY ServiceInitially, ServiceStep, PTL DEF ServiceSpec

\* Whatever threads, faults and crashes do, every variable keeps its shape.
THEOREM ServiceTypeCorrect == ServiceSpec => []ServiceTypeOK
<1>1. ServiceInv => ServiceTypeOK
  BY DEF ServiceInv
<1> QED
  BY <1>1, ServiceInvariant, PTL

\* GatewayService._active has one owner, for the owner's request, and none is left behind
\* by any way out of infer() (app.py:174-252, 349-360), for any number of threads.
THEOREM LaneHasOneOwner == ServiceSpec => []SingleOwner
<1>1. ServiceInv => SingleOwner
  BY DEF ServiceInv, LaneInv
<1> QED
  BY <1>1, ServiceInvariant, PTL

\* No wakeup is lost: whoever waits (app.py:371-384) waits for the attempt that holds the
\* lane, which sets its event when it lets go.
THEOREM NoLostWakeup == ServiceSpec => []WaiterHasOwner
<1>1. ServiceInv => WaiterHasOwner
  BY DEF ServiceInv, LaneInv
<1> QED
  BY <1>1, ServiceInvariant, PTL

\* The process uses the table only as RequestStore allows: every behaviour of it is one of
\* StoreSpec.
THEOREM ServiceImplementsStore == ServiceSpec => StoreSpec
<1>1. ServiceInit => StoreInit
  BY DEF ServiceInit
<1>2. ServiceInv /\ [ServiceNext]_vars => [StoreNext]_rows
  BY TableStep, TimelyStepIsStore DEF ServiceInv
<1> QED
  BY <1>1, <1>2, ServiceInvariant, PTL DEF ServiceSpec, StoreSpec

\* What is proved of the table holds while the process runs, crashes and restarts: no
\* ciphertext outlives its completed row, the open rows stay within the limits, no row
\* goes backwards in its life, and no result is dropped before its time.
THEOREM ServiceKeepsTable ==
  ServiceSpec => /\ [](SealedWhileCompleted /\ OpenWithinCapacity)
                 /\ LifecycleRespected
                 /\ ResultKeptUntilAckOrExpiry
BY ServiceImplementsStore, CiphertextOnlyWhileCompleted, AdmissionBounded, LifecycleHolds,
   ResultsAreKept, PTL

\* One step of the process, seen by one row.
LEMMA ServiceMovesRow ==
  ASSUME ServiceInv, [ServiceNext]_vars, NEW id \in RequestIds, rows'[id] # rows[id]
  PROVE  \E at \in Seconds : at <= clock /\ RowMoves(rows[id], rows'[id], at)
<1>1. GoodTable(rows) /\ ServiceTypeOK /\ LaneInv
  BY DEF ServiceInv, StoreInv, GoodTable, GoodRow
<1>2. PICK at \in Seconds : at <= clock /\ StoreCall(at)
  BY <1>1, TableStep DEF TimelyStep
<1> QED
  BY <1>1, <1>2, CallMoves

\* A tombstone keeps its place until its retention is over by the clock of the process,
\* whatever samples the calls and the sweeps were handed: no other call files a row there
\* before (store.py:280-316, 518-536).
THEOREM TombstonesKept == ServiceSpec => TombstoneKept
<1>1. ASSUME ServiceInv, [ServiceNext]_vars, NEW id \in RequestIds,
             rows[id].state \in Tombstones, rows'[id] # rows[id]
      PROVE  clock > rows[id].closed_at + Retention
  <2>1. PICK at \in Seconds : at <= clock /\ RowMoves(rows[id], rows'[id], at)
    BY <1>1, ServiceMovesRow
  <2>2. Forgets(rows[id], rows'[id], at)
    BY <1>1, <2>1 DEF RowMoves, Lapses, Advances, Attempted, Tombstones
  <2>3. rows[id].closed_at \in Int
    BY <1>1 DEF ServiceInv, StoreInv, GoodTable, Row, Absent, Tombstones, Seconds
  <2>4. clock \in Int /\ Retention \in Int
    BY <1>1, LimitsAssumption DEF ServiceInv, ServiceTypeOK, Seconds
  <2> QED
    BY <2>1, <2>2, <2>3, <2>4 DEF Forgets, Seconds
<1>2. ServiceInv /\ [ServiceNext]_vars =>
        [\A id \in RequestIds :
           (rows[id].state \in Tombstones /\ rows'[id] # rows[id]) =>
             clock > rows[id].closed_at + Retention]_vars
  BY <1>1
<1> QED
  BY <1>2, ServiceInvariant, PTL DEF ServiceSpec, TombstoneKept

\* No transaction expires a request before the clock shows its expires_at: samples lag,
\* they never lead (store.py:518-528).
THEOREM NothingLapsesEarly == ServiceSpec => NothingExpiresEarly
<1>1. ASSUME ServiceInv, [ServiceNext]_vars, NEW id \in RequestIds,
             rows[id].state \notin {"expired", "absent"}, rows'[id].state = "expired"
      PROVE  clock >= rows[id].document.expires_at
  <2>1. PICK at \in Seconds : at <= clock /\ RowMoves(rows[id], rows'[id], at)
    BY <1>1, ServiceMovesRow
  <2>2. Lapses(rows[id], rows'[id], at)
    BY <1>1, <2>1 DEF RowMoves, Forgets, Advances, Attempted
  <2>3. rows[id].document.expires_at \in Int
    BY <1>1, DocumentsAssumption DEF ServiceInv, StoreInv, GoodTable, Row, Absent
  <2>4. clock \in Int
    BY <1>1 DEF ServiceInv, ServiceTypeOK, Seconds
  <2> QED
    BY <2>1, <2>2, <2>3, <2>4 DEF Lapses, Seconds
<1>2. ServiceInv /\ [ServiceNext]_vars =>
        [\A id \in RequestIds :
           (rows[id].state \notin {"expired", "absent"} /\ rows'[id].state = "expired") =>
             clock >= rows[id].document.expires_at]_vars
  BY <1>1
<1> QED
  BY <1>2, ServiceInvariant, PTL DEF ServiceSpec, NothingExpiresEarly

-----------------------------------------------------------------------------------
(* Attempts, worker calls and results: their inductive invariant.                   *)

\* A tombstone stays longer than its document can still be submitted, by any sample.
RetentionCovers == Retention >= Lifetime + 2 * MaxLag

\* Every sample that is taken from now on finds the document expired.
Gone(d) == d.expires_at <= clock - MaxLag

RowOf(t) == rows[IdOf(t)]

\* The row is the one that c has filed for d.
Files(row, c, d) == row.document = d /\ row.credential = c

\* A row expires at most a lifetime from now, and a tombstone is of a document that
\* expired at most a lifetime after the second it was closed in.
TimeGood(row) == row # Absent =>
  /\ row.document.expires_at <= clock + Lifetime + 1
  /\ row.state \in Tombstones =>
       row.document.expires_at <= row.closed_at + MaxLag + Lifetime + 1

RowTimes == \A id \in RequestIds : TimeGood(rows[id])

\* What a call was admitted for is on file for as long as anything can come of it.
OnFile(t) ==
  thread[t].pc # "idle" =>
    Files(RowOf(t), thread[t].credential, thread[t].document) \/ Gone(thread[t].document)

Attempting(t) == thread[t].pc \in {"dispatch", "worker"}
Settled(t) ==
  \/ thread[t].pc \in {"collect", "settle"}
  \/ thread[t].pc = "release" /\ thread[t].reply # "internal_error"

\* An attempt has no row before it is marked, the row of its document while the worker is
\* called, and none once it is settled.
AttemptGood(t) ==
  LET call == thread[t]
  IN  /\ call.pc = "mark" => \A id \in RequestIds : rows[id].attempt # call.attempt
      /\ Attempting(t) =>
           \A id \in RequestIds : OwnsAttempt(rows[id], call.attempt) =>
             Files(rows[id], call.credential, call.document)
      /\ Settled(t) => \A id \in RequestIds : ~OwnsAttempt(rows[id], call.attempt)
      /\ call.reply # None => call.pc \in {"release", "answer"}

\* How far the call of a thread has counted.
CountGood(t) ==
  LET d == thread[t].document
  IN  /\ thread[t].pc = "dispatch" => Gone(d) \/ (calls[d] = 0 /\ RowOf(t).state # "reserved")
      /\ thread[t].pc = "worker" => calls[d] = 1
      /\ thread[t].pc = "release" /\ thread[t].reply = "worker_unavailable" => calls[d] = 0

ThreadGood(t) == OnFile(t) /\ AttemptGood(t) /\ CountGood(t)

\* A document that a worker may have is not in line any more.
SpentGood ==
  \A d \in Documents :
    /\ calls[d] \in {0, 1}
    /\ calls[d] = 1 =>
         \/ Gone(d)
         \/ rows[d.request_id].document = d /\ rows[d.request_id].state # "reserved"

\* A result that was delivered is the one that is still stored, or can not be asked for.
ResultGood(x) ==
  LET row == rows[x.document.request_id]
  IN  \/ Gone(x.document)
      \/ /\ Files(row, x.credential, x.document)
         /\ row.state \in Tombstones \cup {"completed"}
         /\ row.state = "completed" => row.output.content = x.content

ResultsGood == (\A x \in delivered : ResultGood(x)) /\ OneResultPerDocument

AttemptInv ==
  /\ RowTimes
  /\ \A t \in Threads : ThreadGood(t)
  /\ SpentGood
  /\ InProgressHasOwner
  /\ ResultsGood

-----------------------------------------------------------------------------------
(* Transactions that start no attempt, end none with a result, and put no row back in *)
(* line.                                                                            *)

QuietRow(old, new) ==
  /\ TimeGood(new)
  /\ \/ new = old
     \/ /\ Files(new, old.credential, old.document)
        /\ new.attempt = old.attempt
        /\ new.state \in Tombstones \cup {"ambiguous", "failed"}
        /\ old.state \in Tombstones \cup {"completed"} => new.state \in Tombstones
     \/ /\ old # Absent => Gone(old.document)
        /\ \/ new = Absent
           \/ new.state = "reserved" /\ new.attempt = None /\ ~Gone(new.document)

QuietTable == \A id \in RequestIds : QuietRow(rows[id], rows'[id])

Good == StoreInv /\ ServiceTypeOK /\ LaneInv /\ AttemptInv

\* The parameters and the clock are integers.
LEMMA Numbers ==
  ASSUME ServiceTypeOK
  PROVE  /\ clock \in Nat /\ MaxLag \in Nat /\ Lifetime \in Nat /\ Retention \in Nat
         /\ \A d \in Documents : d.expires_at \in Nat /\ d.request_id \in RequestIds
         /\ \A at \in Seconds : at \in Nat
         /\ \A at \in Recent : at \in Nat /\ clock - MaxLag <= at /\ at <= clock /\ at \in Seconds
BY DocumentsAssumption, LimitsAssumption, ServiceAssumption DEF ServiceTypeOK, Seconds, Recent

\* _cleanup expires rows that are due, and forgets no document that can still come.
LEMMA CleanedIsQuiet ==
  ASSUME RetentionCovers, ServiceTypeOK, NEW id, NEW row, GoodRow(id, row), TimeGood(row),
         NEW at \in Seconds, at <= clock
  PROVE  QuietRow(row, Cleaned(row, at))
<1> USE Numbers
<1> DEFINE lapsed == Lapse(row, at)
<1>1. CASE row.state \in States \ Tombstones /\ row.document.expires_at <= at
  <2>1. row # Absent /\ row \in Row
    BY <1>1 DEF Absent, States, OpenStates, Tombstones, GoodRow
  <2>2. lapsed = [row EXCEPT !.state = "expired", !.output = None, !.closed_at = at]
    BY <1>1 DEF Lapse
  <2>3. /\ lapsed.state = "expired" /\ lapsed.closed_at = at
        /\ Files(lapsed, row.credential, row.document) /\ lapsed.attempt = row.attempt
    BY <2>1, <2>2 DEF Row, Files
  <2>4. Cleaned(row, at) = lapsed
    BY <2>3 DEF Cleaned, Forget, Tombstones
  <2>5. row.document \in Documents
    BY <2>1 DEF Row
  <2>6. TimeGood(lapsed)
    BY <1>1, <2>1, <2>3, <2>5 DEF TimeGood, Files
  <2> QED
    BY <2>3, <2>4, <2>6 DEF QuietRow, Tombstones
<1>2. CASE ~(row.state \in States \ Tombstones /\ row.document.expires_at <= at)
  <2>1. lapsed = row
    BY <1>2 DEF Lapse
  <2>2. CASE row.state \in Tombstones /\ row.closed_at < at - Retention
    <3>1. row # Absent /\ row \in Row
      BY <2>2 DEF Absent, Tombstones, GoodRow
    <3>2. row.document \in Documents /\ row.closed_at \in Seconds
      BY <3>1 DEF Row
    <3>3. Gone(row.document)
      BY <2>2, <3>1, <3>2 DEF TimeGood, Gone, RetentionCovers
    <3>4. Cleaned(row, at) = Absent
      BY <2>1, <2>2 DEF Cleaned, Forget
    <3> QED
      BY <3>3, <3>4 DEF QuietRow, TimeGood
  <2>3. CASE ~(row.state \in Tombstones /\ row.closed_at < at - Retention)
    BY <2>1, <2>3 DEF Cleaned, Forget, QuietRow
  <2> QED
    BY <2>2, <2>3
<1> QED
  BY <1>1, <1>2

\* A transaction that only cleans up is quiet.
LEMMA CleanupIsQuiet ==
  ASSUME RetentionCovers, Good, NEW at \in Seconds, at <= clock
  PROVE  \A id \in RequestIds : QuietRow(rows[id], Cleanup(at)[id])
BY CleanedIsQuiet DEF Good, StoreInv, GoodTable, AttemptInv, RowTimes, Cleanup

\* One that was rolled back is.
LEMMA NothingIsQuiet ==
  ASSUME Good, rows' = rows
  PROVE  QuietTable
BY DEF Good, AttemptInv, RowTimes, QuietTable, QuietRow

\* A row changed after the cleanup, where the cleanup left it as it was.
LEMMA UpdateIsQuiet ==
  ASSUME RetentionCovers, Good, NEW at \in Seconds, at <= clock, NEW id \in RequestIds, NEW new,
         QuietRow(rows[id], new), rows' = [Cleanup(at) EXCEPT ![id] = new]
  PROVE  QuietTable
<1>1. \A i \in RequestIds : rows'[i] = IF i = id THEN new ELSE Cleanup(at)[i]
  BY DEF Cleanup
<1> QED
  BY <1>1, CleanupIsQuiet DEF QuietTable

\* get_owned and maintain clean up or do nothing.
LEMMA ReadIsQuiet ==
  ASSUME RetentionCovers, Good, NEW at \in Seconds, at <= clock,
         Maintain(at) \/ (\E c \in Credentials, d \in Documents : GetOwned(c, d, at))
  PROVE  QuietTable
<1>1. rows' = rows \/ rows' = Cleanup(at)
  BY DEF Maintain, GetOwned
<1> QED
  BY <1>1, CleanupIsQuiet, NothingIsQuiet DEF QuietTable

\* admit files a document that can still come, in a place whose document can not.
LEMMA AdmitIsQuiet ==
  ASSUME RetentionCovers, Good, NEW at \in Recent, NEW c \in Credentials, NEW d \in Documents,
         LifetimeAllows(d, at), Admit(c, d, at)
  PROVE  QuietTable
<1> DEFINE id == d.request_id
<1>1. at \in Seconds /\ at <= clock /\ id \in RequestIds
  BY Numbers DEF Good
<1>2. CASE AdmitError(c, d, at) # "none"
  BY <1>2, NothingIsQuiet DEF Admit
<1>3. CASE AdmitError(c, d, at) = "none" /\ Cleanup(at)[id] # Absent
  <2>1. rows' = Cleanup(at)
    BY <1>3 DEF Admit
  <2> QED
    BY <1>1, <2>1, CleanupIsQuiet DEF QuietTable
<1>4. CASE AdmitError(c, d, at) = "none" /\ Cleanup(at)[id] = Absent
  <2>1. rows' = [Cleanup(at) EXCEPT ![id] = Reserved(c, d)]
    BY <1>4 DEF Admit
  <2>2. /\ Reserved(c, d).state = "reserved" /\ Reserved(c, d).attempt = None
        /\ Reserved(c, d).document = d
    BY DEF Reserved
  <2>3. TimeGood(Reserved(c, d)) /\ ~Gone(d)
    BY <2>2, Numbers DEF TimeGood, Gone, LifetimeAllows, Tombstones, Good
  <2>4. QuietRow(rows[id], Absent)
    BY <1>1, <1>4, CleanupIsQuiet
  <2>5. rows[id] # Absent => Gone(rows[id].document)
    BY <2>4 DEF QuietRow, Absent, Tombstones
  <2>6. QuietRow(rows[id], Reserved(c, d))
    BY <2>2, <2>3, <2>5 DEF QuietRow
  <2> QED
    BY <1>1, <2>1, <2>6, UpdateIsQuiet
<1> QED
  BY <1>2, <1>3, <1>4

\* acknowledge makes a tombstone of a completed row.
LEMMA AcknowledgeIsQuiet ==
  ASSUME RetentionCovers, Good, NEW at \in Recent, NEW c \in Credentials,
         NEW id \in RequestIds, NEW s \in Dispositions, Acknowledge(c, id, s, at)
  PROVE  QuietTable
<1>1. at \in Seconds /\ at <= clock
  BY Numbers DEF Good
<1>2. CASE AcknowledgeError(c, id, s, at) # "none"
  BY <1>2, NothingIsQuiet DEF Acknowledge
<1>3. CASE AcknowledgeError(c, id, s, at) = "none" /\ Cleanup(at)[id].state # "completed"
  <2>1. rows' = Cleanup(at)
    BY <1>3 DEF Acknowledge
  <2> QED
    BY <1>1, <2>1, CleanupIsQuiet DEF QuietTable
<1>4. CASE AcknowledgeError(c, id, s, at) = "none" /\ Cleanup(at)[id].state = "completed"
  <2> DEFINE old == rows[id]
             new == [old EXCEPT !.state = "acknowledged", !.disposition = s, !.output = None,
                                !.closed_at = at]
  <2>1. Cleanup(at)[id] = old
    BY <1>4, CleanedOpen DEF Cleanup, OpenStates
  <2>2. old \in Row /\ old # Absent /\ old.state = "completed" /\ TimeGood(old)
    BY <1>4, <2>1 DEF Good, StoreInv, GoodTable, GoodRow, Absent, AttemptInv, RowTimes
  <2>3. rows' = [Cleanup(at) EXCEPT ![id] = new]
    BY <1>4, <2>1 DEF Acknowledge
  <2>4. /\ new.state = "acknowledged" /\ new.attempt = old.attempt /\ new.closed_at = at
        /\ Files(new, old.credential, old.document)
    BY <2>2 DEF Row, Files
  <2>5. old.document.expires_at <= clock + Lifetime + 1 /\ old.document \in Documents
    BY <2>2 DEF TimeGood, Row
  <2>6. TimeGood(new)
    BY <2>4, <2>5, Numbers DEF TimeGood, Files, Good
  <2>7. QuietRow(old, new)
    BY <2>4, <2>6 DEF QuietRow, Tombstones
  <2> QED
    BY <1>1, <2>3, <2>7, UpdateIsQuiet
<1> QED
  BY <1>2, <1>3, <1>4

\* An attempt whose outcome is unknown or wrong leaves its row for good.
LEMMA LossIsQuiet ==
  ASSUME Good, NEW id \in RequestIds, NEW a \in Attempts,
         MarkAmbiguous(id, a) \/ MarkFailed(id, a)
  PROVE  /\ QuietTable
         /\ ~OwnsAttempt(rows'[id], a)
<1> DEFINE old == rows[id]
<1>1. CASE ~OwnsAttempt(old, a)
  BY <1>1, NothingIsQuiet DEF MarkAmbiguous, MarkFailed
<1>2. CASE OwnsAttempt(old, a)
  <2>1. old \in Row /\ old # Absent /\ old.state = "in_progress" /\ TimeGood(old)
    BY <1>2 DEF Good, StoreInv, GoodTable, GoodRow, Absent, OwnsAttempt, AttemptInv, RowTimes
  <2>2. PICK s \in {"ambiguous", "failed"} : rows' = [rows EXCEPT ![id].state = s]
    BY <1>2 DEF MarkAmbiguous, MarkFailed
  <2> DEFINE new == [old EXCEPT !.state = s]
  <2>3. rows'[id] = new /\ \A i \in RequestIds \ {id} : rows'[i] = rows[i]
    BY <2>2 DEF Good, StoreInv, GoodTable
  <2>4. /\ new.state = s /\ new.attempt = old.attempt /\ new.document = old.document
        /\ Files(new, old.credential, old.document)
    BY <2>1 DEF Row, Files
  <2>5. TimeGood(new)
    BY <2>1, <2>4 DEF TimeGood, Tombstones
  <2>6. QuietRow(old, new)
    BY <2>1, <2>4, <2>5 DEF QuietRow, Tombstones
  <2>7. QuietTable
    BY <2>3, <2>6 DEF QuietTable, QuietRow, Good, AttemptInv, RowTimes
  <2> QED
    BY <2>3, <2>4, <2>7 DEF OwnsAttempt
<1> QED
  BY <1>1, <1>2

\* initialize() gives up the attempts of a dead process.
LEMMA InitializeIsQuiet ==
  ASSUME RetentionCovers, Good, Initialize(clock)
  PROVE  /\ QuietTable
         /\ \A id \in RequestIds : rows'[id].state # "in_progress"
<1> SUFFICES ASSUME NEW id \in RequestIds
             PROVE  QuietRow(rows[id], rows'[id]) /\ rows'[id].state # "in_progress"
  BY DEF QuietTable
<1> DEFINE old == rows[id]
           mid == Interrupt(old)
           new == Cleaned(mid, clock)
<1>1. rows'[id] = new
  BY DEF Initialize
<1>2. clock \in Seconds /\ clock <= clock
  BY Numbers DEF Good, ServiceTypeOK
<1>3. GoodRow(id, old) /\ TimeGood(old)
  BY DEF Good, StoreInv, GoodTable, AttemptInv, RowTimes
<1>4. GoodRow(id, mid) /\ mid.state # "in_progress"
  <2>1. CASE old.state = "in_progress"
    BY <1>3, <2>1, InterruptIsGood DEF Interrupt, GoodRow, Row, Absent
  <2> QED
    BY <1>3, <2>1, InterruptIsGood DEF Interrupt
<1>5. \/ mid = old
      \/ /\ old.state = "in_progress" /\ mid.state = "ambiguous" /\ mid.attempt = old.attempt
         /\ Files(mid, old.credential, old.document)
  BY <1>3 DEF Interrupt, GoodRow, Row, Absent, Files
<1>6. TimeGood(mid)
  <2>1. mid # Absent => old # Absent
    BY DEF Interrupt, Absent
  <2> QED
    BY <1>3, <1>5, <2>1 DEF TimeGood, Files, Tombstones
<1>7. QuietRow(mid, new)
  BY <1>2, <1>4, <1>6, CleanedIsQuiet DEF Good
<1>8. new.state # "in_progress"
  BY <1>4, <1>7, CleanedOpen DEF OpenStates
<1>9. QuietRow(old, new)
  <2>1. CASE mid = old
    BY <1>7, <2>1
  <2>2. CASE mid # old
    <3>1. /\ old.state = "in_progress" /\ mid.state = "ambiguous" /\ mid.attempt = old.attempt
          /\ Files(mid, old.credential, old.document)
      BY <1>5, <2>2
    <3>2. old # Absent /\ mid # Absent
      BY <3>1 DEF Absent
    <3> HIDE DEF mid, new
    <3> QED
      BY <1>7, <3>1, <3>2 DEF QuietRow, Files, Tombstones
  <2> QED
    BY <2>1, <2>2
<1> QED
  BY <1>1, <1>8, <1>9

\* complete() that is refused, or finds its row expired, is quiet and leaves the attempt
\* without its row.
LEMMA LateResultIsQuiet ==
  ASSUME RetentionCovers, Good, NEW at \in Recent, NEW id \in RequestIds, NEW a \in Attempts,
         NEW x \in Contents, CompleteError(id, a, at) # "none", Complete(id, a, x, key, at)
  PROVE  QuietTable /\ ~OwnsAttempt(rows'[id], a)
<1>1. at \in Seconds /\ at <= clock
  BY Numbers DEF Good
<1>2. CompleteError(id, a, at) \in {"expired", "not_owner"}
  BY DEF CompleteError
<1>3. rows' = rows \/ rows' = Cleanup(at)
  BY <1>2 DEF Complete
<1>4. QuietTable
  BY <1>1, <1>3, CleanupIsQuiet, NothingIsQuiet DEF QuietTable
<1>5. ~OwnsAttempt(Cleaned(rows[id], at), a)
  BY DEF CompleteError, OwnsAttempt
<1>6. OwnsAttempt(rows[id], a) => Cleaned(rows[id], at).state \in {"in_progress", "expired", "absent"}
  <2>1. QuietRow(rows[id], Cleaned(rows[id], at))
    BY <1>1, CleanedIsQuiet DEF Good, StoreInv, GoodTable, AttemptInv, RowTimes
  <2> QED
    BY DEF OwnsAttempt, Cleaned, Forget, Lapse, Absent, States, Tombstones
<1>7. CASE OwnsAttempt(rows[id], a)
  <2>1. Cleaned(rows[id], at) # rows[id]
    BY <1>5, <1>7
  <2>2. Cleaned(rows[id], at).state \in {"expired", "absent"}
    BY <1>6, <1>7, <2>1, CleanedOpen DEF OpenStates
  <2>3. CompleteError(id, a, at) = "expired"
    BY <2>2 DEF CompleteError
  <2>4. rows'[id] = Cleaned(rows[id], at)
    BY <2>3 DEF Complete, Cleanup
  <2> QED
    BY <1>4, <1>5, <2>4
<1>8. CASE ~OwnsAttempt(rows[id], a)
  BY <1>3, <1>4, <1>5, <1>8 DEF Cleanup
<1> QED
  BY <1>7, <1>8

-----------------------------------------------------------------------------------
(* What a quiet transaction leaves of the invariant, while time does not go back.    *)

\* A thread leaves no row behind that nobody works on.
LeavesNoRow(t) ==
  \/ ~up' \/ StoreFaults \/ ~Attempting(t)
  \/ Attempting(t)' /\ thread'[t].attempt = thread[t].attempt
                    /\ thread'[t].document = thread[t].document
  \/ \A id \in RequestIds : ~OwnsAttempt(rows'[id], thread[t].attempt)

\* What is gone stays gone.
LEMMA GoneForGood ==
  ASSUME ServiceTypeOK, clock' \in Seconds, clock' >= clock, NEW d \in Documents, Gone(d)
  PROVE  Gone(d)'
BY Numbers DEF Gone

\* The row of a document that can still come is not given to another.
LEMMA QuietKeepsFile ==
  ASSUME Good, QuietTable, clock' \in Seconds, clock' >= clock,
         NEW c, NEW d \in Documents, Files(rows[d.request_id], c, d)
  PROVE  Files(rows'[d.request_id], c, d) \/ Gone(d)'
<1> DEFINE old == rows[d.request_id]
           new == rows'[d.request_id]
<1>1. QuietRow(old, new)
  BY Numbers DEF QuietTable, Good
<1>2. old # Absent
  BY NoneAssumption DEF Files, Absent
<1>3. Files(new, c, d) \/ Gone(d)
  BY <1>1, <1>2 DEF QuietRow, Files
<1> QED
  BY <1>3, GoneForGood DEF Good

\* A quiet transaction starts no attempt.
LEMMA QuietStartsNothing ==
  ASSUME Good, QuietTable, NEW id \in RequestIds
  PROVE  /\ rows'[id].state = "in_progress" => rows'[id] = rows[id]
         /\ rows'[id].attempt \in {rows[id].attempt, None}
         /\ \A a : OwnsAttempt(rows'[id], a) => rows'[id] = rows[id] /\ OwnsAttempt(rows[id], a)
BY DEF QuietTable, QuietRow, OwnsAttempt, Tombstones, Absent

\* It puts no row in line again.
LEMMA QuietReopensNothing ==
  ASSUME Good, QuietTable, clock' \in Seconds, clock' >= clock, NEW d \in Documents,
         rows[d.request_id].document = d, rows[d.request_id].state # "reserved"
  PROVE  \/ Gone(d)'
         \/ rows'[d.request_id].document = d /\ rows'[d.request_id].state # "reserved"
<1> DEFINE old == rows[d.request_id]
           new == rows'[d.request_id]
<1>1. QuietRow(old, new)
  BY Numbers DEF QuietTable, Good
<1>2. old # Absent
  BY NoneAssumption DEF Absent
<1>3. Gone(d) \/ (new.document = d /\ new.state # "reserved")
  BY <1>1, <1>2 DEF QuietRow, Files, Tombstones
<1> QED
  BY <1>3, GoneForGood DEF Good

\* A row keeps its times while they run.
LEMMA QuietKeepsTimes ==
  ASSUME Good, QuietTable, GoodTable(rows'), clock' \in Seconds, clock' >= clock
  PROVE  RowTimes'
<1> SUFFICES ASSUME NEW id \in RequestIds PROVE TimeGood(rows[id])'
  BY DEF RowTimes
<1>1. TimeGood(rows'[id]) /\ GoodRow(id, rows'[id])
  BY DEF QuietTable, QuietRow, GoodTable
<1>2. CASE rows'[id] = Absent
  BY <1>2 DEF TimeGood, Absent
<1>3. CASE rows'[id] # Absent
  <2>1. rows'[id] \in Row /\ rows'[id].document \in Documents /\ rows'[id].closed_at \in Seconds
    BY <1>1, <1>3 DEF GoodRow, Row
  <2> QED
    BY <1>1, <1>3, <2>1, Numbers DEF TimeGood, Good
<1> QED
  BY <1>2, <1>3

\* A thread that stands still keeps what it knows.
LEMMA StillThreadKeeps ==
  ASSUME Good, QuietTable, clock' \in Seconds, clock' >= clock, calls' = calls,
         NEW t \in Threads, thread'[t] = thread[t]
  PROVE  ThreadGood(t)'
<1>1. ThreadGood(t)
  BY DEF Good, AttemptInv
<1>2. thread[t].pc # "idle" => thread[t].document \in Documents
  BY DEF Good, ServiceTypeOK, Call, Idle
<1>3. OnFile(t)'
  BY <1>1, <1>2, QuietKeepsFile, GoneForGood DEF ThreadGood, OnFile, RowOf, IdOf, Good
<1>4. AttemptGood(t)'
  <2>1. thread'[t].pc = "mark" => \A id \in RequestIds : rows'[id].attempt # thread'[t].attempt
    <3>1. thread[t].pc = "mark" => thread[t].attempt \in Attempts
      BY DEF Good, LaneInv, OwnersHaveAttempts, Owner, OwnerSteps
    <3> QED
      BY <1>1, <3>1, QuietStartsNothing, NoneAssumption DEF ThreadGood, AttemptGood
  <2>2. Attempting(t)' => \A id \in RequestIds : OwnsAttempt(rows'[id], thread'[t].attempt) =>
          Files(rows'[id], thread'[t].credential, thread'[t].document)
    BY <1>1, QuietStartsNothing DEF ThreadGood, AttemptGood, Attempting
  <2>3. Settled(t)' => \A id \in RequestIds : ~OwnsAttempt(rows'[id], thread'[t].attempt)
    BY <1>1, QuietStartsNothing DEF ThreadGood, AttemptGood, Settled
  <2> QED
    BY <1>1, <2>1, <2>2, <2>3 DEF ThreadGood, AttemptGood
<1>5. CountGood(t)'
  <2>1. thread[t].pc = "dispatch" =>
          Gone(thread[t].document)' \/ (calls[thread[t].document] = 0 /\ RowOf(t)'.state # "reserved")
    <3> SUFFICES ASSUME thread[t].pc = "dispatch", ~Gone(thread[t].document)'
                 PROVE  calls[thread[t].document] = 0 /\ RowOf(t)'.state # "reserved"
      OBVIOUS
    <3>1. ~Gone(thread[t].document)
      BY <1>2, GoneForGood DEF Good
    <3>2. /\ calls[thread[t].document] = 0 /\ RowOf(t).state # "reserved"
          /\ RowOf(t).document = thread[t].document
      BY <1>1, <3>1 DEF ThreadGood, CountGood, OnFile, Files
    <3> QED
      BY <1>2, <3>2, QuietReopensNothing DEF RowOf, IdOf
  <2> QED
    BY <1>1, <2>1 DEF ThreadGood, CountGood
<1> QED
  BY <1>3, <1>4, <1>5 DEF ThreadGood

\* The counts agree with a quietly changed table.
LEMMA QuietKeepsSpent ==
  ASSUME Good, QuietTable, clock' \in Seconds, clock' >= clock, calls' = calls
  PROVE  SpentGood'
<1> SUFFICES ASSUME NEW d \in Documents
             PROVE  /\ calls[d] \in {0, 1}
                    /\ calls[d] = 1 =>
                         \/ Gone(d)'
                         \/ /\ rows'[d.request_id].document = d
                            /\ rows'[d.request_id].state # "reserved"
  BY DEF SpentGood
<1>1. SpentGood
  BY DEF Good, AttemptInv
<1> QED
  BY <1>1, GoneForGood, QuietReopensNothing DEF SpentGood, Good

\* A row that stays in progress keeps the thread that works on it.
LEMMA QuietKeepsOwners ==
  ASSUME Good, QuietTable, up' => up \/ \A id \in RequestIds : rows'[id].state # "in_progress",
         \A t \in Threads : thread'[t] = thread[t] \/ LeavesNoRow(t)
  PROVE  InProgressHasOwner'
<1> SUFFICES ASSUME up', ~StoreFaults, NEW id \in RequestIds, rows'[id].state = "in_progress"
             PROVE  \E t \in Threads : /\ thread'[t].pc \in {"dispatch", "worker"}
                                       /\ thread'[t].attempt = rows'[id].attempt
                                       /\ thread'[t].document = rows'[id].document
  BY DEF InProgressHasOwner
<1>1. rows'[id] = rows[id] /\ up
  BY QuietStartsNothing
<1>2. PICK t \in Threads : /\ Attempting(t)
                           /\ thread[t].attempt = rows[id].attempt
                           /\ thread[t].document = rows[id].document
  BY <1>1 DEF Good, AttemptInv, InProgressHasOwner, Attempting
<1>3. OwnsAttempt(rows'[id], thread[t].attempt)
  BY <1>1, <1>2 DEF OwnsAttempt
<1>4. /\ thread'[t].pc \in {"dispatch", "worker"} /\ thread'[t].attempt = thread[t].attempt
      /\ thread'[t].document = thread[t].document
  BY <1>2, <1>3 DEF LeavesNoRow, Attempting
<1> QED
  BY <1>1, <1>2, <1>4

\* What was delivered is still what is stored.
LEMMA QuietKeepsResults ==
  ASSUME Good, QuietTable, clock' \in Seconds, clock' >= clock, delivered' = delivered
  PROVE  ResultsGood'
<1>1. ASSUME NEW x \in delivered
      PROVE  ResultGood(x)'
  <2> DEFINE d == x.document
             old == rows[d.request_id]
             new == rows'[d.request_id]
  <2>1. ResultGood(x) /\ d \in Documents
    BY DEF Good, AttemptInv, ResultsGood, ServiceTypeOK, Delivery
  <2>2. CASE Gone(d)
    BY <2>1, <2>2, GoneForGood DEF ResultGood, Good
  <2>3. CASE ~Gone(d)
    <3>1. /\ Files(old, x.credential, d) /\ old.state \in Tombstones \cup {"completed"}
          /\ old.state = "completed" => old.output.content = x.content
      BY <2>1, <2>3 DEF ResultGood
    <3>2. QuietRow(old, new) /\ old # Absent
      BY <2>1, <3>1, Numbers, NoneAssumption DEF QuietTable, Good, Files, Absent
    <3>3. \/ new = old
          \/ Files(new, x.credential, d) /\ new.state \in Tombstones
      BY <2>3, <3>1, <3>2 DEF QuietRow, Files
    <3>4. new.state \in Tombstones => new.state # "completed"
      BY DEF Tombstones
    <3> QED
      BY <3>1, <3>3, <3>4 DEF ResultGood
  <2> QED
    BY <2>2, <2>3
<1>2. OneResultPerDocument'
  BY DEF Good, AttemptInv, ResultsGood, OneResultPerDocument
<1> QED
  BY <1>1, <1>2 DEF ResultsGood

\* What is delivered from the row of a document that can still come is what was delivered
\* before, if anything was.
LEMMA DeliveryKeepsResults ==
  ASSUME Good, QuietTable, UNCHANGED clock, NEW c \in Credentials, NEW d \in Documents,
         GoodTable(rows'),
         Readable(rows'[d.request_id]) =>
           Files(rows'[d.request_id], c, d) /\ d.expires_at > clock - MaxLag,
         Deliver(c, d, rows'[d.request_id])
  PROVE  ResultsGood'
<1> DEFINE row == rows'[d.request_id]
<1>0. clock' \in Seconds /\ clock' >= clock
  BY Numbers DEF Good, ServiceTypeOK
<1>1. CASE ~Readable(row)
  BY <1>0, <1>1, QuietKeepsResults DEF Deliver
<1>2. CASE Readable(row)
  <2>0. PICK x : x = [credential |-> c, document |-> d, content |-> row.output.content]
    OBVIOUS
  <2>1. /\ row.state = "completed" /\ Files(row, c, d) /\ ~Gone(d)
        /\ delivered' = delivered \cup {x}
    BY <1>2, <2>0, Numbers DEF Readable, Deliver, Gone, Good
  <2>2. row = rows[d.request_id]
    BY <2>1, Numbers DEF QuietTable, QuietRow, Tombstones, Absent, Good
  <2>3. \A y \in delivered : ResultGood(y)'
    <3>1. \A y \in delivered : ResultGood(y) /\ y.document \in Documents
      BY DEF Good, AttemptInv, ResultsGood, ServiceTypeOK, Delivery
    <3> SUFFICES ASSUME NEW y \in delivered PROVE ResultGood(y)'
      OBVIOUS
    <3> DEFINE e == y.document
               old == rows[e.request_id]
               new == rows'[e.request_id]
    <3>2. CASE Gone(e)
      BY <3>1, <3>2, <1>0, GoneForGood DEF ResultGood, Good
    <3>3. CASE ~Gone(e)
      <4>1. /\ Files(old, y.credential, e) /\ old.state \in Tombstones \cup {"completed"}
            /\ old.state = "completed" => old.output.content = y.content
        BY <3>1, <3>3 DEF ResultGood
      <4>2. QuietRow(old, new) /\ old # Absent
        BY <3>1, <4>1, Numbers, NoneAssumption DEF QuietTable, Good, Files, Absent
      <4>3. new = old \/ (Files(new, y.credential, e) /\ new.state \in Tombstones)
        BY <3>3, <4>1, <4>2 DEF QuietRow, Files
      <4>4. new.state \in Tombstones => new.state # "completed"
        BY DEF Tombstones
      <4> QED
        BY <4>1, <4>3, <4>4 DEF ResultGood
    <3> QED
      BY <3>2, <3>3
  <2>4. ResultGood(x)'
    BY <2>0, <2>1 DEF ResultGood, Gone
  <2>5. \A y \in delivered : y.document = d => y = x
    <3> SUFFICES ASSUME NEW y \in delivered, y.document = d PROVE y = x
      OBVIOUS
    <3>1. ResultGood(y) /\ y \in Delivery
      BY DEF Good, AttemptInv, ResultsGood, ServiceTypeOK
    <3>2. y.credential = c /\ y.content = row.output.content
      BY <2>1, <2>2, <3>1 DEF ResultGood, Files
    <3> QED
      BY <2>0, <3>1, <3>2 DEF Delivery
  <2>6. OneResultPerDocument'
    <3>1. OneResultPerDocument
      BY DEF Good, AttemptInv, ResultsGood
    <3> QED
      BY <2>0, <2>1, <2>5, <3>1 DEF OneResultPerDocument
  <2> QED
    BY <2>1, <2>3, <2>4, <2>6 DEF ResultsGood
<1> QED
  BY <1>1, <1>2

\* A quiet transaction, and threads that keep what they know, keep the invariant.
LEMMA QuietKeeps ==
  ASSUME Good, QuietTable, GoodTable(rows'), clock' \in Seconds, clock' >= clock,
         calls' = calls, ResultsGood',
         up' => up \/ \A id \in RequestIds : rows'[id].state # "in_progress",
         \A t \in Threads : thread'[t] = thread[t] \/ (ThreadGood(t)' /\ LeavesNoRow(t))
  PROVE  AttemptInv'
<1>1. \A t \in Threads : ThreadGood(t)'
  BY StillThreadKeeps
<1> QED
  BY <1>1, QuietKeepsTimes, QuietKeepsSpent, QuietKeepsOwners DEF AttemptInv


-----------------------------------------------------------------------------------
(* How the call of a thread moves.                                                 *)

\* Thread t alone moves, to a step of the same call and attempt.
MovesTo(t, pc, reply) ==
  /\ \A u \in Threads \ {t} : thread'[u] = thread[u]
  /\ thread'[t].pc = pc
  /\ thread'[t].reply = reply
  /\ thread'[t].credential = thread[t].credential
  /\ thread'[t].document = thread[t].document
  /\ thread'[t].attempt = thread[t].attempt

\* Another step, with no outcome yet.
LEMMA StepSets ==
  ASSUME Good, NEW t \in Threads, thread[t].pc \in Steps, thread[t].pc \notin {"release", "answer"}, NEW s,
         thread' = [thread EXCEPT ![t].pc = s]
  PROVE  MovesTo(t, s, None)
<1>1. thread[t] \in Call /\ thread[t].reply = None
  BY BusyIsNotIdle, CallsAreTyped DEF Good, AttemptInv, ThreadGood, AttemptGood
<1> QED
  BY <1>1 DEF MovesTo, Call, Good, ServiceTypeOK

\* The finally clause, with the outcome.
LEMMA FinishSets ==
  ASSUME Good, NEW t \in Threads, thread[t].pc \in Steps, NEW reply, Finish(t, reply)
  PROVE  MovesTo(t, "release", reply)
<1>1. thread[t] \in Call
  BY BusyIsNotIdle, CallsAreTyped DEF Good
<1> QED
  BY <1>1 DEF MovesTo, Call, Good, ServiceTypeOK, Finish

\* A reload that concludes keeps its call.
LEMMA ConclusionSets ==
  ASSUME Good, NEW t \in Threads, thread[t].pc \in Steps, Concludes(t)
  PROVE  \E reply : MovesTo(t, "answer", reply)
<1>1. thread[t] \in Call
  BY BusyIsNotIdle, CallsAreTyped DEF Good
<1>2. PICK reply : thread' = [thread EXCEPT ![t].pc = "answer", ![t].reply = reply]
  BY DEF Concludes
<1>3. MovesTo(t, "answer", reply)
  BY <1>1, <1>2 DEF MovesTo, Call, Good, ServiceTypeOK
<1> QED
  BY <1>3

\* A call sets out to wait.
LEMMA WaitingSets ==
  ASSUME Good, NEW t \in Threads, thread[t].pc \in {"claim", "join"}, thread' = Waiting(t)
  PROVE  MovesTo(t, "wait", None)
<1>1. thread[t] \in Call /\ thread[t].reply = None
  BY BusyIsNotIdle, CallsAreTyped DEF Steps, Good, AttemptInv, ThreadGood, AttemptGood
<1> DEFINE patience == clock + WorkerTimeout + 1
           limit == IF thread[t].document.expires_at <= patience
                    THEN thread[t].document.expires_at ELSE patience
<1>2. thread' = [thread EXCEPT ![t] = [thread[t] EXCEPT !.pc = "wait", !.deadline = limit]]
  BY DEF Waiting, Good, ServiceTypeOK
<1> HIDE DEF limit
<1> QED
  BY <1>1, <1>2 DEF MovesTo, Call, Good, ServiceTypeOK

\* A call that has returned knows nothing.
LEMMA IdleIsGood ==
  ASSUME Good, NEW t \in Threads, thread'[t] = Idle
  PROVE  ThreadGood(t)'
<1>1. thread'[t].pc = "idle" /\ thread'[t].reply = None
  BY DEF Idle
<1>2. None # "worker_unavailable"
  BY RepliesAssumption DEF Replies
<1> QED
  BY <1>1, <1>2 DEF ThreadGood, OnFile, AttemptGood, CountGood, Attempting, Settled, Idle

\* An attempt has a row only where its own document is filed.
LEMMA OwnRowOnly ==
  ASSUME Good, NEW t \in Threads, Attempting(t), NEW id \in RequestIds,
         OwnsAttempt(rows[id], thread[t].attempt)
  PROVE  id = IdOf(t) /\ Files(rows[id], thread[t].credential, thread[t].document)
<1>1. Files(rows[id], thread[t].credential, thread[t].document)
  BY DEF Good, AttemptInv, ThreadGood, AttemptGood
<1>2. rows[id] # Absent /\ GoodRow(id, rows[id])
  BY DEF OwnsAttempt, Absent, Good, StoreInv, GoodTable
<1> QED
  BY <1>1, <1>2 DEF GoodRow, Files, IdOf

\* A thread that goes on to no attempt, with a quiet transaction, keeps the invariant.
LEMMA QuietMoveKeeps ==
  ASSUME Good, QuietTable, GoodTable(rows'), UNCHANGED <<clock, up, calls>>, ResultsGood',
         NEW t \in Threads, thread[t].pc \in Steps,
         NEW pc \in {"wait", "reload", "answer", "collect", "settle", "release"}, NEW reply,
         MovesTo(t, pc, reply),
         reply # None => pc \in {"release", "answer"},
         pc = "release" => reply # "worker_unavailable",
         ~Attempting(t) \/ StoreFaults \/ Settled(t)',
         Settled(t)' => \A id \in RequestIds : ~OwnsAttempt(rows'[id], thread[t].attempt)
  PROVE  AttemptInv'
<1>0. clock' \in Seconds /\ clock' >= clock
  BY Numbers DEF Good, ServiceTypeOK
<1>1. thread[t].document \in Documents /\ thread[t].pc # "idle"
  BY BusyIsNotIdle, CallsAreTyped DEF Good, Steps, OwnerSteps
<1>2. OnFile(t)
  BY DEF Good, AttemptInv, ThreadGood
<1>3. OnFile(t)'
  BY <1>0, <1>1, <1>2, QuietKeepsFile, GoneForGood DEF OnFile, RowOf, IdOf, Good, MovesTo
<1>4. AttemptGood(t)'
  BY DEF AttemptGood, MovesTo, Attempting
<1>5. CountGood(t)'
  BY DEF CountGood, MovesTo
<1>6. LeavesNoRow(t)
  BY DEF LeavesNoRow
<1> QED
  BY <1>0, <1>3, <1>4, <1>5, <1>6, QuietKeeps DEF ThreadGood, MovesTo


-----------------------------------------------------------------------------------
(* The steps of a call outside its attempt.                                        *)

\* What admit or get_owned answers from is the row of the caller's own document.
LEMMA AnswersFromFile ==
  ASSUME NEW c \in Credentials, NEW d \in Documents, NEW at, d.request_id \in RequestIds,
         \/ AdmitError(c, d, at) = "none" /\ Admit(c, d, at)
         \/ GetOwnedError(c, d, at) = "none" /\ GetOwned(c, d, at)
  PROVE  Files(rows'[d.request_id], c, d)
<1> DEFINE id == d.request_id
           row == Cleaned(rows[id], at)
<1>1. d # None /\ Cleanup(at)[id] = row
  BY NoneAssumption DEF Cleanup
<1>2. CASE row # Absent
  <2>1. IdentityError(row, c, d) = "none"
    BY <1>2 DEF AdmitError, GetOwnedError
  <2>2. Files(row, c, d)
    BY <1>1, <2>1 DEF IdentityError, Files
  <2>3. rows' = Cleanup(at)
    BY <1>1, <1>2 DEF Admit, GetOwned
  <2> QED
    BY <1>1, <2>2, <2>3
<1>3. CASE row = Absent
  <2>1. rows' = [Cleanup(at) EXCEPT ![id] = Reserved(c, d)]
    BY <1>1, <1>3 DEF Admit, GetOwnedError
  <2>2. rows'[id] = Reserved(c, d)
    BY <2>1 DEF Cleanup
  <2> QED
    BY <2>2 DEF Files, Reserved
<1> QED
  BY <1>2, <1>3

\* Admission files the document and hands over no more than the file holds.
LEMMA InferKeepsAttempts ==
  ASSUME RetentionCovers, Good, GoodTable(rows'), NEW t \in Threads, NEW c \in Credentials,
         NEW d \in Documents, Infer(t, c, d)
  PROVE  AttemptInv'
<1> DEFINE row == rows'[d.request_id]
<1>1. PICK at \in Recent :
        /\ LifetimeAllows(d, at) /\ Admit(c, d, at)
        /\ IF AdmitError(c, d, at) # "none"
           THEN UNCHANGED <<thread, delivered>>
           ELSE /\ Deliver(c, d, row)
                /\ thread' = CASE row.state = "reserved"
                               -> [thread EXCEPT ![t] = [[Idle EXCEPT !.credential = c, !.document = d]
                                                           EXCEPT !.pc = "claim"]]
                          [] row.state = "in_progress"
                               -> [thread EXCEPT ![t] = [[Idle EXCEPT !.credential = c, !.document = d]
                                                           EXCEPT !.pc = "join"]]
                          [] OTHER -> thread
  BY DEF Infer
<1>2. QuietTable /\ UNCHANGED <<clock, up, calls>> /\ thread[t].pc = "idle"
  BY <1>1, AdmitIsQuiet DEF Infer, Idle
<1>3. clock' \in Seconds /\ clock' >= clock
  BY <1>2, Numbers DEF Good, ServiceTypeOK
<1>4. CASE AdmitError(c, d, at) # "none"
  <2>1. UNCHANGED <<thread, delivered>>
    BY <1>1, <1>4
  <2> QED
    BY <1>2, <1>3, <2>1, QuietKeepsResults, QuietKeeps
<1>5. CASE AdmitError(c, d, at) = "none"
  <2>1. Files(row, c, d)
    BY <1>1, <1>5, AnswersFromFile, Numbers DEF Good
  <2>2. d.expires_at > clock - MaxLag
    BY <1>1, Numbers DEF LifetimeAllows, Good
  <2>3. ResultsGood'
    BY <1>1, <1>2, <1>5, <2>1, <2>2, DeliveryKeepsResults
  <2>4. \/ thread' = thread
        \/ \E s \in {"claim", "join"} :
             thread' = [thread EXCEPT ![t] = [pc |-> s, credential |-> c, document |-> d,
                                              attempt |-> None, reply |-> None, deadline |-> 0]]
    BY <1>1, <1>5 DEF Idle
  <2>5. ASSUME NEW s \in {"claim", "join"},
               thread' = [thread EXCEPT ![t] = [pc |-> s, credential |-> c, document |-> d,
                                                attempt |-> None, reply |-> None, deadline |-> 0]]
        PROVE  AttemptInv'
    <3>1. /\ thread'[t].pc = s /\ thread'[t].credential = c /\ thread'[t].document = d
          /\ thread'[t].reply = None
          /\ \A u \in Threads \ {t} : thread'[u] = thread[u]
      BY <2>5 DEF Good, ServiceTypeOK
    <3>2. None # "worker_unavailable"
      BY RepliesAssumption DEF Replies
    <3>3. ThreadGood(t)'
      BY <2>1, <3>1, <3>2
      DEF ThreadGood, OnFile, AttemptGood, CountGood, Attempting, Settled, RowOf, IdOf
    <3>4. LeavesNoRow(t)
      BY <1>2 DEF LeavesNoRow, Attempting
    <3> QED
      BY <1>2, <1>3, <2>3, <3>1, <3>3, <3>4, QuietKeeps
  <2> QED
    BY <1>2, <1>3, <2>3, <2>4, <2>5, QuietKeeps
<1> QED
  BY <1>4, <1>5

\* A row that is read as reserved or completed had not expired by the sample.
LEMMA LateReadIsClosed ==
  ASSUME Good, NEW c, NEW d \in Documents, NEW at \in Recent, GetOwnedError(c, d, at) = "none",
         GetOwned(c, d, at), Files(rows'[d.request_id], c, d),
         rows'[d.request_id].state \in {"reserved", "completed"}
  PROVE  d.expires_at > clock - MaxLag
<1> DEFINE row == rows[d.request_id]
<1>1. d.request_id \in RequestIds /\ at >= clock - MaxLag
  BY Numbers DEF Good
<1>2. rows'[d.request_id] = Cleaned(row, at)
  BY <1>1 DEF GetOwned, Cleanup
<1>3. Cleaned(row, at) = row /\ row.state \in {"reserved", "completed"} /\ row.document = d
  BY <1>2, CleanedOpen DEF Files, OpenStates
<1>4. ~(d.expires_at <= at)
  <2> SUFFICES ASSUME d.expires_at <= at PROVE FALSE
    OBVIOUS
  <2>1. row \in Row
    BY <1>1, <1>3 DEF Good, StoreInv, GoodTable, GoodRow, Absent
  <2>2. Lapse(row, at).state = "expired"
    BY <1>3, <2>1 DEF Lapse, States, OpenStates, Tombstones, Row
  <2>3. Cleaned(row, at).state \notin {"reserved", "completed"}
    BY <2>2 DEF Cleaned, Forget, Absent
  <2> QED
    BY <1>3, <2>3
<1> QED
  BY <1>1, <1>4, Numbers DEF Good

\* A call that waits, reloads or returns has no attempt.
LEMMA BystanderKeepsAttempts ==
  ASSUME RetentionCovers, Good, GoodTable(rows'), NEW t \in Threads,
         JoinActive(t) \/ WaitTimeout(t) \/ Reload(t) \/ Answer(t)
  PROVE  AttemptInv'
<1>1. UNCHANGED <<clock, up, calls>> /\ thread[t].pc \in {"join", "wait", "reload", "answer"}
  BY DEF JoinActive, WaitTimeout, Reload, Answer
<1>2. thread[t].pc \in Steps /\ ~Attempting(t)
  BY <1>1 DEF Steps, Attempting
<1>3. clock' \in Seconds /\ clock' >= clock
  BY <1>1, Numbers DEF Good, ServiceTypeOK
<1>4. CASE JoinActive(t)
  <2>1. QuietTable /\ ResultsGood'
    BY <1>3, <1>4, NothingIsQuiet, QuietKeepsResults DEF JoinActive
  <2>2. MovesTo(t, "wait", None) \/ MovesTo(t, "reload", None)
    BY <1>2, <1>4, WaitingSets, StepSets DEF JoinActive
  <2>3. ~Settled(t)'
    BY <2>2 DEF MovesTo, Settled
  <2> QED
    BY <1>1, <1>2, <2>1, <2>2, <2>3, QuietMoveKeeps, RepliesAssumption DEF Replies
<1>5. CASE WaitTimeout(t) \/ Answer(t) \/ Reload(t)
  <2>1. QuietTable /\ ResultsGood'
    <3>1. CASE WaitTimeout(t) \/ Answer(t)
      BY <1>3, <3>1, NothingIsQuiet, QuietKeepsResults DEF WaitTimeout, Answer
    <3>2. CASE Reload(t)
      <4> DEFINE c == thread[t].credential
                 d == thread[t].document
      <4>1. PICK at \in Recent :
              /\ GetOwned(c, d, at)
              /\ IF GetOwnedError(c, d, at) = "none"
                 THEN Deliver(c, d, rows'[d.request_id]) ELSE UNCHANGED delivered
        BY <3>2 DEF Reload
      <4>2. c \in Credentials /\ d \in Documents /\ d.request_id \in RequestIds
        BY <1>2, BusyIsNotIdle, CallsAreTyped DEF Good, IdOf
      <4>3. QuietTable
        BY <4>1, <4>2, ReadIsQuiet, Numbers DEF Good
      <4>4. CASE GetOwnedError(c, d, at) # "none"
        BY <1>3, <4>1, <4>3, <4>4, QuietKeepsResults
      <4>5. CASE GetOwnedError(c, d, at) = "none"
        <5>1. Files(rows'[d.request_id], c, d)
          BY <4>1, <4>2, <4>5, AnswersFromFile
        <5>2. Readable(rows'[d.request_id]) => d.expires_at > clock - MaxLag
          BY <4>1, <4>2, <4>5, <5>1, LateReadIsClosed DEF Readable
        <5> QED
          BY <1>1, <4>1, <4>2, <4>3, <4>5, <5>1, <5>2, DeliveryKeepsResults
      <4> QED
        BY <4>3, <4>4, <4>5
    <3> QED
      BY <1>5, <3>1, <3>2
  <2>2. Return(t) \/ Concludes(t)
    BY <1>5, ReloadEnds DEF WaitTimeout, Answer
  <2>3. CASE Return(t)
    <3>1. thread'[t] = Idle /\ \A u \in Threads \ {t} : thread'[u] = thread[u]
      BY <2>3 DEF Return, Good, ServiceTypeOK
    <3>2. LeavesNoRow(t) /\ ThreadGood(t)'
      BY <1>2, <3>1, IdleIsGood DEF LeavesNoRow
    <3> QED
      BY <1>1, <1>3, <2>1, <3>1, <3>2, QuietKeeps
  <2>4. CASE Concludes(t)
    <3>1. PICK reply : MovesTo(t, "answer", reply)
      BY <1>2, <2>4, ConclusionSets
    <3>2. ~Settled(t)'
      BY <3>1 DEF MovesTo, Settled
    <3> QED
      BY <1>1, <1>2, <2>1, <3>1, <3>2, QuietMoveKeeps
  <2> QED
    BY <2>2, <2>3, <2>4
<1> QED
  BY <1>4, <1>5


\* A call that claims the lane draws an attempt no row has; others wait or return.
LEMMA ClaimKeepsAttempts ==
  ASSUME RetentionCovers, Good, GoodTable(rows'), NEW t \in Threads, ClaimLane(t)
  PROVE  AttemptInv'
<1>1. /\ UNCHANGED <<rows, clock, up, calls, delivered>>
      /\ thread[t].pc = "claim" /\ thread[t].pc \in Steps /\ ~Attempting(t)
  BY DEF ClaimLane, Steps, Attempting
<1>2. clock' \in Seconds /\ clock' >= clock
  BY <1>1, Numbers DEF Good, ServiceTypeOK
<1>3. QuietTable /\ ResultsGood' /\ LeavesNoRow(t)
  BY <1>1, <1>2, NothingIsQuiet, QuietKeepsResults DEF LeavesNoRow
<1>4. CASE thread' = Waiting(t)
  <2>1. MovesTo(t, "wait", None)
    BY <1>1, <1>4, WaitingSets
  <2> QED
    BY <1>1, <1>3, <2>1, QuietMoveKeeps, RepliesAssumption DEF Replies, MovesTo, Settled
<1>5. CASE Return(t)
  <2>1. thread'[t] = Idle /\ \A u \in Threads \ {t} : thread'[u] = thread[u]
    BY <1>5 DEF Return, Good, ServiceTypeOK
  <2> QED
    BY <1>1, <1>2, <1>3, <2>1, IdleIsGood, QuietKeeps
<1>6. ASSUME NEW a \in FreshAttempts, thread' = [thread EXCEPT ![t].pc = "mark", ![t].attempt = a]
      PROVE  AttemptInv'
  <2>1. thread[t] \in Call /\ ThreadGood(t)
    BY <1>1, BusyIsNotIdle, CallsAreTyped DEF Good, AttemptInv
  <2>2. /\ thread'[t].pc = "mark" /\ thread'[t].attempt = a /\ thread'[t].reply = thread[t].reply
        /\ thread'[t].credential = thread[t].credential
        /\ thread'[t].document = thread[t].document
        /\ \A u \in Threads \ {t} : thread'[u] = thread[u]
    BY <1>6, <2>1 DEF Call, Good, ServiceTypeOK
  <2>3. thread[t].reply = None /\ None # "worker_unavailable"
    BY <1>1, <2>1, RepliesAssumption DEF ThreadGood, AttemptGood, Replies
  <2>4. \A id \in RequestIds : rows[id].attempt # a
    BY DEF FreshAttempts
  <2>5. OnFile(t)'
    BY <1>1, <2>1, <2>2 DEF ThreadGood, OnFile, RowOf, IdOf, Gone
  <2>6. AttemptGood(t)' /\ CountGood(t)'
    BY <1>1, <2>2, <2>3, <2>4 DEF AttemptGood, CountGood, Attempting, Settled
  <2> QED
    BY <1>1, <1>2, <1>3, <2>2, <2>5, <2>6, QuietKeeps DEF ThreadGood
<1> QED
  BY <1>4, <1>5, <1>6 DEF ClaimLane

\* Whoever lets go of the lane returns, and the waiters go to reload.
LEMMA ReleaseKeepsAttempts ==
  ASSUME RetentionCovers, Good, GoodTable(rows'), NEW t \in Threads, ReleaseLane(t)
  PROVE  AttemptInv'
<1>1. UNCHANGED <<rows, clock, up, calls, delivered>> /\ thread[t].pc = "release"
  BY DEF ReleaseLane
<1>2. clock' \in Seconds /\ clock' >= clock
  BY <1>1, Numbers DEF Good, ServiceTypeOK
<1>3. QuietTable /\ ResultsGood'
  BY <1>1, <1>2, NothingIsQuiet, QuietKeepsResults
<1>4. ASSUME NEW u \in Threads
      PROVE  thread'[u] = thread[u] \/ (ThreadGood(u)' /\ LeavesNoRow(u))
  <2>1. CASE u = t
    <3>1. thread'[u] = Idle
      BY <2>1 DEF ReleaseLane
    <3> QED
      BY <1>1, <2>1, <3>1, IdleIsGood DEF LeavesNoRow, Attempting
  <2>2. CASE u # t /\ thread[u].pc = "wait"
    <3>1. thread[u] \in Call /\ ThreadGood(u)
      BY <2>2, BusyIsNotIdle, CallsAreTyped DEF Good, AttemptInv, Steps
    <3>2. thread'[u] = [thread[u] EXCEPT !.pc = "reload", !.deadline = 0]
      BY <2>2 DEF ReleaseLane, Woken
    <3>3. /\ thread'[u].pc = "reload" /\ thread'[u].reply = thread[u].reply
          /\ thread'[u].credential = thread[u].credential
          /\ thread'[u].document = thread[u].document
      BY <3>1, <3>2 DEF Call
    <3>4. thread[u].reply = None /\ None # "worker_unavailable"
      BY <2>2, <3>1, RepliesAssumption DEF ThreadGood, AttemptGood, Replies
    <3>5. OnFile(u)'
      BY <1>1, <2>2, <3>1, <3>3 DEF ThreadGood, OnFile, RowOf, IdOf, Gone
    <3>6. AttemptGood(u)' /\ CountGood(u)'
      BY <3>3, <3>4 DEF AttemptGood, CountGood, Attempting, Settled
    <3> QED
      BY <2>2, <3>5, <3>6 DEF ThreadGood, LeavesNoRow, Attempting
  <2>3. CASE u # t /\ thread[u].pc # "wait"
    BY <2>3 DEF ReleaseLane, Woken
  <2> QED
    BY <2>1, <2>2, <2>3
<1> QED
  BY <1>1, <1>2, <1>3, <1>4, QuietKeeps

-----------------------------------------------------------------------------------
(* The steps of an attempt that end it, or do not begin it.                        *)

\* An attempt that is settled stays settled.
LEMMA SettledStays ==
  ASSUME Good, QuietTable, NEW t \in Threads, Settled(t) \/ thread[t].pc = "mark"
  PROVE  \A id \in RequestIds : ~OwnsAttempt(rows'[id], thread[t].attempt)
<1>1. \A id \in RequestIds : ~OwnsAttempt(rows[id], thread[t].attempt)
  BY DEF Good, AttemptInv, ThreadGood, AttemptGood, OwnsAttempt
<1> QED
  BY <1>1, QuietStartsNothing

\* An attempt that has lost its own row has none.
LEMMA AttemptWithoutRow ==
  ASSUME Good, QuietTable, NEW t \in Threads, Attempting(t),
         ~OwnsAttempt(rows'[IdOf(t)], thread[t].attempt)
  PROVE  \A id \in RequestIds : ~OwnsAttempt(rows'[id], thread[t].attempt)
BY QuietStartsNothing, OwnRowOnly

\* A reload at or after the expiry leaves the row of an attempt expired.
LEMMA ExpiryEndsAttempt ==
  ASSUME RetentionCovers, Good, NEW t \in Threads, Attempting(t) \/ thread[t].pc = "mark",
         NEW at \in Recent, ExpireInstead(t, at)
  PROVE  QuietTable /\ \A id \in RequestIds : ~OwnsAttempt(rows'[id], thread[t].attempt)
<1> DEFINE c == thread[t].credential
           d == thread[t].document
           a == thread[t].attempt
           row == rows[IdOf(t)]
<1>1. Owner(t)
  BY DEF Attempting, Owner, OwnerSteps
<1>2. c \in Credentials /\ d \in Documents /\ IdOf(t) \in RequestIds /\ IdOf(t) = d.request_id
  BY <1>1, OwnersAreTyped DEF Good, IdOf
<1>3. GetOwned(c, d, at) /\ d.expires_at <= at /\ at \in Seconds /\ at <= clock
  BY Numbers DEF ExpireInstead, Good
<1>4. QuietTable
  BY <1>2, <1>3, ReadIsQuiet
<1>5. CASE thread[t].pc = "mark"
  BY <1>4, <1>5, SettledStays
<1>6. CASE Attempting(t)
  <2> SUFFICES ASSUME OwnsAttempt(rows'[IdOf(t)], a) PROVE FALSE
    BY <1>4, <1>6, AttemptWithoutRow
  <2>1. rows'[IdOf(t)] = row /\ OwnsAttempt(row, a) /\ Files(row, c, d)
    BY <1>2, <1>4, <1>6, QuietStartsNothing, OwnRowOnly
  <2>2. row \in Row /\ row.state = "in_progress"
    BY <1>2, <2>1 DEF OwnsAttempt, Good, StoreInv, GoodTable, GoodRow, Absent
  <2>3. Lapse(row, at) = [row EXCEPT !.state = "expired", !.output = None, !.closed_at = at]
    BY <1>3, <2>1, <2>2 DEF Lapse, States, OpenStates, Tombstones, Files
  <2> DEFINE lapsed == [row EXCEPT !.state = "expired", !.output = None, !.closed_at = at]
  <2>4. /\ lapsed.state = "expired" /\ lapsed.closed_at = at
        /\ lapsed.credential = c /\ lapsed.document = d
    BY <2>1, <2>2 DEF Row, Files
  <2>5. ~(at < at - Retention)
    BY <1>3, Numbers DEF Good
  <2> HIDE DEF lapsed
  <2>6. Cleaned(row, at) = lapsed
    BY <2>3, <2>4, <2>5 DEF Cleaned, Forget, lapsed
  <2>7. GetOwnedError(c, d, at) = "none"
    BY <1>2, <2>4, <2>6 DEF GetOwnedError, IdentityError, Absent
  <2>8. rows'[IdOf(t)] = lapsed
    BY <1>2, <1>3, <2>6, <2>7 DEF GetOwned, Cleanup
  <2> QED
    BY <2>1, <2>2, <2>4, <2>8
<1> QED
  BY <1>4, <1>5, <1>6


\* A thread whose attempt holds no row, and whose call goes on to its end, keeps the
\* invariant.
LEMMA EndKeeps ==
  ASSUME RetentionCovers, Good, QuietTable, GoodTable(rows'), UNCHANGED <<clock, up, calls>>,
         ResultsGood', NEW t \in Threads, thread[t].pc \in Steps, thread[t].pc \notin {"release", "answer"},
         \A id \in RequestIds : ~OwnsAttempt(rows'[id], thread[t].attempt),
         \/ Settle(t)
         \/ \E reply : Finish(t, reply) /\ reply \notin {"worker_unavailable", "internal_error"}
  PROVE  AttemptInv'
<1>1. CASE Settle(t)
  <2>1. MovesTo(t, "settle", None) /\ None # "worker_unavailable"
    BY <1>1, StepSets, RepliesAssumption DEF Settle, Replies
  <2>2. Settled(t)'
    BY <2>1 DEF MovesTo, Settled
  <2> QED
    BY <2>1, <2>2, QuietMoveKeeps
<1>2. ASSUME NEW reply, Finish(t, reply), reply \notin {"worker_unavailable", "internal_error"}
      PROVE  AttemptInv'
  <2>1. MovesTo(t, "release", reply)
    BY <1>2, FinishSets
  <2>2. Settled(t)'
    BY <1>2, <2>1 DEF MovesTo, Settled
  <2> QED
    BY <1>2, <2>1, <2>2, QuietMoveKeeps
<1> QED
  BY <1>1, <1>2

\* A request that is refused past its expiry.
LEMMA ExpiryKeeps ==
  ASSUME RetentionCovers, Good, GoodTable(rows'), UNCHANGED <<clock, up, calls, delivered>>,
         NEW t \in Threads, Attempting(t) \/ thread[t].pc = "mark",
         NEW at \in Recent, ExpireInstead(t, at)
  PROVE  AttemptInv'
<1>1. clock' \in Seconds /\ clock' >= clock
  BY Numbers DEF Good, ServiceTypeOK
<1>2. QuietTable /\ \A id \in RequestIds : ~OwnsAttempt(rows'[id], thread[t].attempt)
  BY ExpiryEndsAttempt
<1>3. ResultsGood'
  BY <1>1, <1>2, QuietKeepsResults
<1>4. thread[t].pc \in Steps /\ thread[t].pc \notin {"release", "answer"}
  BY DEF Attempting, Steps, OwnerSteps
<1> QED
  BY <1>2, <1>3, <1>4, EndKeeps DEF ExpireInstead

\* An attempt whose outcome is unknown or wrong, or that could not be settled before.
LEMMA LossKeepsAttempts ==
  ASSUME RetentionCovers, Good, GoodTable(rows'), NEW t \in Threads,
         CallLost(t) \/ CallInvalid(t) \/ MarkUnsettled(t)
  PROVE  AttemptInv'
<1>1. /\ UNCHANGED <<clock, up, calls, delivered>>
      /\ thread[t].pc \in {"worker", "settle"}
      /\ MarkAmbiguous(IdOf(t), thread[t].attempt) \/ MarkFailed(IdOf(t), thread[t].attempt)
      /\ \E reply : Finish(t, reply) /\ reply \notin {"worker_unavailable", "internal_error"}
  BY DEF CallLost, CallInvalid, MarkUnsettled
<1>2. Owner(t) /\ thread[t].pc \in Steps /\ thread[t].pc \notin {"release", "answer"}
  BY <1>1 DEF Owner, OwnerSteps, Steps
<1>3. QuietTable /\ ~OwnsAttempt(rows'[IdOf(t)], thread[t].attempt)
  BY <1>1, <1>2, OwnersAreTyped, LossIsQuiet DEF Good
<1>4. \A id \in RequestIds : ~OwnsAttempt(rows'[id], thread[t].attempt)
  BY <1>1, <1>3, AttemptWithoutRow, SettledStays DEF Attempting, Settled
<1>5. ResultsGood'
  BY <1>1, <1>3, QuietKeepsResults, Numbers DEF Good, ServiceTypeOK
<1> QED
  BY <1>1, <1>2, <1>3, <1>4, <1>5, EndKeeps

\* A result that comes too late for its row.
LEMMA LateResultKeepsAttempts ==
  ASSUME RetentionCovers, Good, GoodTable(rows'), NEW t \in Threads, NEW x \in Contents,
         NEW at \in Recent, thread[t].pc = "worker",
         UNCHANGED <<clock, up, calls, delivered>>,
         CompleteError(IdOf(t), thread[t].attempt, at) # "none",
         Complete(IdOf(t), thread[t].attempt, x, key, at),
         Finish(t, "request_expired") \/ Settle(t)
  PROVE  AttemptInv'
<1>1. Owner(t) /\ thread[t].pc \in Steps /\ thread[t].pc \notin {"release", "answer"} /\ Attempting(t)
  BY DEF Owner, OwnerSteps, Steps, Attempting
<1>2. QuietTable /\ ~OwnsAttempt(rows'[IdOf(t)], thread[t].attempt)
  BY <1>1, OwnersAreTyped, LateResultIsQuiet DEF Good
<1>3. \A id \in RequestIds : ~OwnsAttempt(rows'[id], thread[t].attempt)
  BY <1>1, <1>2, AttemptWithoutRow
<1>4. ResultsGood'
  BY <1>2, QuietKeepsResults, Numbers DEF Good, ServiceTypeOK
<1> QED
  BY <1>1, <1>2, <1>3, <1>4, EndKeeps

\* The completed record is read back.
LEMMA CollectKeepsAttempts ==
  ASSUME RetentionCovers, Good, GoodTable(rows'), NEW t \in Threads, Collect(t)
  PROVE  AttemptInv'
<1> DEFINE c == thread[t].credential
           d == thread[t].document
<1>1. PICK at \in Recent :
        /\ GetOwned(c, d, at)
        /\ IF GetOwnedError(c, d, at) = "none"
           THEN Deliver(c, d, rows'[d.request_id]) /\ Finish(t, ReplyTo(rows'[d.request_id]))
           ELSE UNCHANGED delivered /\ Settle(t)
  BY DEF Collect
<1>2. UNCHANGED <<clock, up, calls>> /\ thread[t].pc = "collect"
  BY DEF Collect
<1>3. Owner(t) /\ thread[t].pc \in Steps /\ thread[t].pc \notin {"release", "answer"} /\ Settled(t)
  BY <1>2 DEF Owner, OwnerSteps, Steps, Settled
<1>4. c \in Credentials /\ d \in Documents /\ d.request_id \in RequestIds
  BY <1>3, OwnersAreTyped DEF Good, IdOf
<1>5. QuietTable
  BY <1>1, <1>4, ReadIsQuiet, Numbers DEF Good
<1>6. \A id \in RequestIds : ~OwnsAttempt(rows'[id], thread[t].attempt)
  BY <1>3, <1>5, SettledStays
<1>7. CASE GetOwnedError(c, d, at) # "none"
  <2>1. ResultsGood'
    BY <1>1, <1>2, <1>5, <1>7, QuietKeepsResults, Numbers DEF Good, ServiceTypeOK
  <2> QED
    BY <1>1, <1>2, <1>3, <1>5, <1>6, <1>7, <2>1, EndKeeps
<1>8. CASE GetOwnedError(c, d, at) = "none"
  <2>1. Files(rows'[d.request_id], c, d)
    BY <1>1, <1>4, <1>8, AnswersFromFile
  <2>2. Readable(rows'[d.request_id]) => d.expires_at > clock - MaxLag
    BY <1>1, <1>4, <1>8, <2>1, LateReadIsClosed DEF Readable
  <2>3. ResultsGood'
    BY <1>1, <1>2, <1>4, <1>5, <1>8, <2>1, <2>2, DeliveryKeepsResults
  <2>4. ReplyTo(rows'[d.request_id]) \notin {"worker_unavailable", "internal_error"}
    BY DEF ReplyTo
  <2> QED
    BY <1>1, <1>2, <1>3, <1>5, <1>6, <1>8, <2>3, <2>4, EndKeeps
<1> QED
  BY <1>7, <1>8

\* A transaction that fails leaves the row of the attempt to the next start.
LEMMA FaultKeepsAttempts ==
  ASSUME RetentionCovers, Good, GoodTable(rows'), NEW t \in Threads, StoreFault(t)
  PROVE  AttemptInv'
<1>1. UNCHANGED <<rows, clock, up, calls, delivered>> /\ StoreFaults
  BY DEF StoreFault
<1>2. clock' \in Seconds /\ clock' >= clock
  BY <1>1, Numbers DEF Good, ServiceTypeOK
<1>3. QuietTable /\ ResultsGood'
  BY <1>1, <1>2, NothingIsQuiet, QuietKeepsResults
<1>4. CASE thread[t].pc = "reload"
  <2>1. thread'[t] = Idle /\ \A u \in Threads \ {t} : thread'[u] = thread[u]
    BY <1>4 DEF StoreFault, Return, Good, ServiceTypeOK
  <2> QED
    BY <1>1, <1>2, <1>3, <2>1, IdleIsGood, QuietKeeps DEF LeavesNoRow
<1>5. CASE thread[t].pc # "reload"
  <2>1. Finish(t, "internal_error") /\ thread[t].pc \in Steps
    BY <1>5 DEF StoreFault, Steps, OwnerSteps
  <2>2. MovesTo(t, "release", "internal_error")
    BY <2>1, FinishSets
  <2>3. ~Settled(t)'
    BY <2>2 DEF MovesTo, Settled
  <2> QED
    BY <1>1, <1>3, <2>1, <2>2, <2>3, QuietMoveKeeps
<1> QED
  BY <1>4, <1>5


-----------------------------------------------------------------------------------
(* The steps by which an attempt begins, is put back in line, or succeeds.          *)

\* The owner of the lane changes the open row of its own request.
OwnRow(old, new) ==
  /\ TimeGood(new)
  /\ Files(new, old.credential, old.document)
  /\ old.state \in {"reserved", "in_progress"}
  /\ new.state \in {"reserved", "in_progress", "completed"}

OwnTable(t) ==
  \A id \in RequestIds :
    QuietRow(rows[id], rows'[id]) \/ (id = IdOf(t) /\ OwnRow(rows[id], rows'[id]))

\* Thread t owns the lane and goes on with the same call.
OwnStep(t) ==
  /\ Owner(t)
  /\ OwnTable(t)
  /\ \E pc, reply : MovesTo(t, pc, reply)
  /\ UNCHANGED <<clock, up, delivered>>

\* Files are kept, by quiet changes and by owners.
LEMMA OwnStepKeepsFile ==
  ASSUME Good, NEW t \in Threads, OwnStep(t), NEW c, NEW d \in Documents,
         Files(rows[d.request_id], c, d)
  PROVE  Files(rows'[d.request_id], c, d) \/ Gone(d)
<1> DEFINE old == rows[d.request_id]
           new == rows'[d.request_id]
<1>1. QuietRow(old, new) \/ OwnRow(old, new)
  BY Numbers DEF OwnStep, OwnTable, Good
<1>2. old # Absent
  BY NoneAssumption DEF Files, Absent
<1> QED
  BY <1>1, <1>2 DEF QuietRow, OwnRow, Files

\* Nobody but the owner has an attempt.
LEMMA OthersAreBystanders ==
  ASSUME Good, NEW t \in Threads, Owner(t), NEW u \in Threads \ {t}
  PROVE  ~Owner(u)
BY DEF Good, LaneInv, SingleOwner

\* What the step of an owner leaves of the invariant for the others.
LEMMA OwnStepKeeps ==
  ASSUME Good, NEW t \in Threads, OwnStep(t)
  PROVE  /\ RowTimes'
         /\ \A u \in Threads \ {t} : ThreadGood(u)'
         /\ OnFile(t)'
         /\ ResultsGood'
<1>1. UNCHANGED <<clock, up, delivered>> /\ Owner(t)
  BY DEF OwnStep
<1>2. RowTimes'
  <2> SUFFICES ASSUME NEW id \in RequestIds PROVE TimeGood(rows[id])'
    BY DEF RowTimes
  <2>1. TimeGood(rows'[id])
    BY DEF OwnStep, OwnTable, QuietRow, OwnRow
  <2> QED
    BY <1>1, <2>1 DEF TimeGood
<1>3. ASSUME NEW u \in Threads, thread[u].pc \in Steps,
             thread'[u].credential = thread[u].credential,
             thread'[u].document = thread[u].document
      PROVE  OnFile(u)'
  <2>1. thread[u].document \in Documents /\ thread[u].pc # "idle" /\ OnFile(u)
    BY <1>3, BusyIsNotIdle, CallsAreTyped DEF Good, Steps, OwnerSteps, AttemptInv, ThreadGood
  <2>2. \/ Files(rows'[thread[u].document.request_id], thread[u].credential, thread[u].document)
        \/ Gone(thread[u].document)
    BY <2>1, OwnStepKeepsFile DEF OnFile, RowOf, IdOf
  <2> QED
    BY <1>1, <1>3, <2>2 DEF OnFile, RowOf, IdOf, Gone
<1>4. ASSUME NEW u \in Threads \ {t}
      PROVE  ThreadGood(u)'
  <2>1. thread'[u] = thread[u]
    BY DEF OwnStep, MovesTo
  <2>2. thread[u].pc \notin OwnerSteps
    BY <1>1, OthersAreBystanders DEF Owner
  <2>3. AttemptGood(u)
    BY DEF Good, AttemptInv, ThreadGood
  <2>4. OnFile(u)'
    <3>1. thread[u].pc = "idle" \/ thread[u].pc \in Steps
      BY DEF Good, ServiceTypeOK, Call, Idle
    <3> QED
      BY <1>3, <2>1, <3>1 DEF OnFile
  <2> QED
    BY <2>1, <2>2, <2>3, <2>4
    DEF ThreadGood, AttemptGood, CountGood, Attempting, Settled, OwnerSteps
<1>5. OnFile(t)'
  BY <1>1, <1>3 DEF OwnStep, MovesTo, Owner, Steps
<1>6. ResultsGood'
  <2>1. ASSUME NEW x \in delivered
        PROVE  ResultGood(x)'
    <3> DEFINE d == x.document
               old == rows[d.request_id]
               new == rows'[d.request_id]
    <3>1. ResultGood(x) /\ d \in Documents
      BY DEF Good, AttemptInv, ResultsGood, ServiceTypeOK, Delivery
    <3>2. CASE Gone(d)
      BY <1>1, <3>2 DEF ResultGood, Gone
    <3>3. CASE ~Gone(d)
      <4>1. /\ Files(old, x.credential, d) /\ old.state \in Tombstones \cup {"completed"}
            /\ old.state = "completed" => old.output.content = x.content
        BY <3>1, <3>3 DEF ResultGood
      <4>2. QuietRow(old, new) /\ old # Absent
        BY <3>1, <4>1, Numbers, NoneAssumption
        DEF OwnStep, OwnTable, OwnRow, Tombstones, Good, Files, Absent
      <4>3. new = old \/ (Files(new, x.credential, d) /\ new.state \in Tombstones)
        BY <3>3, <4>1, <4>2 DEF QuietRow, Files
      <4>4. new.state \in Tombstones => new.state # "completed"
        BY DEF Tombstones
      <4> QED
        BY <4>1, <4>3, <4>4 DEF ResultGood
    <3> QED
      BY <3>2, <3>3
  <2>2. OneResultPerDocument'
    BY <1>1 DEF Good, AttemptInv, ResultsGood, OneResultPerDocument
  <2> QED
    BY <1>1, <2>1, <2>2 DEF ResultsGood
<1> QED
  BY <1>2, <1>4, <1>5, <1>6

\* A count that is not touched agrees with the row, unless the row is put back in line.
LEMMA OwnStepKeepsSpent ==
  ASSUME Good, NEW t \in Threads, OwnStep(t), NEW d \in Documents, calls[d] = 1,
         rows'[IdOf(t)].state # "reserved" \/ rows[IdOf(t)].document # d \/ rows' = rows
  PROVE  \/ Gone(d)'
         \/ rows'[d.request_id].document = d /\ rows'[d.request_id].state # "reserved"
<1> DEFINE old == rows[d.request_id]
           new == rows'[d.request_id]
<1>1. Gone(d) \/ (old.document = d /\ old.state # "reserved")
  BY DEF Good, AttemptInv, SpentGood
<1>2. Gone(d) => Gone(d)'
  BY DEF OwnStep, Gone
<1>3. CASE old.document = d /\ old.state # "reserved"
  <2>1. old # Absent
    BY <1>3, NoneAssumption DEF Absent
  <2>2. QuietRow(old, new) \/ (d.request_id = IdOf(t) /\ OwnRow(old, new))
    BY Numbers DEF OwnStep, OwnTable, Good
  <2> QED
    BY <1>2, <1>3, <2>1, <2>2 DEF QuietRow, OwnRow, Files, Tombstones
<1> QED
  BY <1>1, <1>2, <1>3

\* When the attempt of the owner is over, no row is in progress.
LEMMA OwnStepEndsAttempt ==
  ASSUME Good, NEW t \in Threads, OwnStep(t),
         \A id \in RequestIds : /\ ~OwnsAttempt(rows'[id], thread[t].attempt)
                                /\ rows'[id].state = "in_progress" => rows'[id] = rows[id]
  PROVE  InProgressHasOwner'
<1> SUFFICES ASSUME up', ~StoreFaults, NEW id \in RequestIds, rows'[id].state = "in_progress"
             PROVE  FALSE
  BY DEF InProgressHasOwner
<1>1. up /\ rows'[id] = rows[id]
  BY DEF OwnStep
<1>2. PICK u \in Threads : Attempting(u) /\ thread[u].attempt = rows[id].attempt
  BY <1>1 DEF Good, AttemptInv, InProgressHasOwner, Attempting
<1>3. u = t
  BY <1>2, OthersAreBystanders DEF OwnStep, Attempting, Owner, OwnerSteps
<1> QED
  BY <1>1, <1>2, <1>3 DEF OwnsAttempt


\* mark_in_progress: a document in line has not been counted.
LEMMA MarkKeepsAttempts ==
  ASSUME RetentionCovers, Good, GoodTable(rows'), NEW t \in Threads, Mark(t)
  PROVE  AttemptInv'
<1> DEFINE c == thread[t].credential
           d == thread[t].document
           a == thread[t].attempt
           id == d.request_id
           old == rows[id]
<1>1. /\ UNCHANGED <<clock, up, calls, delivered>> /\ thread[t].pc = "mark"
      /\ thread[t].pc \in Steps /\ Owner(t) /\ id = IdOf(t)
  BY DEF Mark, Steps, OwnerSteps, Owner, IdOf
<1>2. c \in Credentials /\ d \in Documents /\ a \in Attempts /\ id \in RequestIds
  BY <1>1, OwnersAreTyped DEF Good, IdOf
<1>3. ThreadGood(t)
  BY DEF Good, AttemptInv
<1>4. PICK at \in Recent :
        \/ ExpireInstead(t, at)
        \/ /\ d.expires_at > at
           /\ MarkInProgress(IdOf(t), a, at)
           /\ IF Markable(IdOf(t), at)
              THEN thread' = [thread EXCEPT ![t].pc = "dispatch"]
              ELSE Settle(t)
  BY DEF Mark
<1>5. at \in Seconds /\ at <= clock /\ at >= clock - MaxLag
  BY Numbers DEF Good
<1>6. CASE ExpireInstead(t, at)
  BY <1>1, <1>6, ExpiryKeeps
<1>7. CASE MarkInProgress(id, a, at) /\ ~Markable(id, at) /\ Settle(t)
  <2>1. QuietTable
    BY <1>7, NothingIsQuiet DEF MarkInProgress
  <2>2. ResultsGood'
    BY <1>1, <2>1, QuietKeepsResults, Numbers DEF Good, ServiceTypeOK
  <2>3. \A i \in RequestIds : ~OwnsAttempt(rows'[i], a)
    BY <1>1, <2>1, SettledStays
  <2> QED
    BY <1>1, <1>7, <2>1, <2>2, <2>3, EndKeeps
<1>8. CASE /\ d.expires_at > at /\ MarkInProgress(id, a, at) /\ Markable(id, at)
           /\ thread' = [thread EXCEPT ![t].pc = "dispatch"]
  <2>1. old.state = "reserved" /\ Cleaned(old, at) = old
    BY <1>8, CleanedOpen DEF Markable, OpenStates
  <2>2. old \in Row
    BY <1>2, <2>1 DEF Good, StoreInv, GoodTable, GoodRow, Absent
  <2>3. ~Gone(d)
    BY <1>2, <1>5, <1>8, Numbers DEF Gone, Good
  <2>4. Files(old, c, d)
    BY <1>1, <1>3, <2>3 DEF ThreadGood, OnFile, RowOf
  <2> DEFINE new == [old EXCEPT !.state = "in_progress", !.attempt = a]
  <2>5. rows' = [Cleanup(at) EXCEPT ![id] = new]
    BY <1>2, <1>8, <2>1 DEF MarkInProgress, Cleanup
  <2>6. /\ rows'[id] = new
        /\ \A i \in RequestIds \ {id} : QuietRow(rows[i], rows'[i])
    <3>1. \A i \in RequestIds : rows'[i] = IF i = id THEN new ELSE Cleanup(at)[i]
      BY <2>5 DEF Cleanup
    <3> QED
      BY <1>2, <1>5, <3>1, CleanupIsQuiet
  <2>7. /\ new.state = "in_progress" /\ new.attempt = a /\ Files(new, c, d)
        /\ new.document = old.document
    BY <2>2, <2>4 DEF Row, Files
  <2>8. TimeGood(new)
    <3>1. TimeGood(old) /\ old # Absent
      BY <1>2, <2>1 DEF Good, AttemptInv, RowTimes, Absent
    <3> QED
      BY <2>7, <3>1 DEF TimeGood, Tombstones
  <2> HIDE DEF new
  <2>9. MovesTo(t, "dispatch", None)
    BY <1>1, <1>8, StepSets
  <2>10. OwnStep(t)
    BY <1>1, <2>1, <2>4, <2>6, <2>7, <2>8, <2>9 DEF OwnStep, OwnTable, OwnRow, Files
  <2>11. \A i \in RequestIds : rows'[i].state = "in_progress" =>
           i = id \/ (rows'[i] = rows[i] /\ rows[i].attempt # a)
    BY <1>1, <1>3, <2>6 DEF QuietRow, Tombstones, Absent, ThreadGood, AttemptGood
  <2>12. AttemptGood(t)'
    BY <2>6, <2>7, <2>9, <2>11 DEF AttemptGood, MovesTo, Attempting, Settled, OwnsAttempt
  <2>13. calls[d] = 0
    BY <1>2, <2>1, <2>3 DEF Good, AttemptInv, SpentGood
  <2>14. CountGood(t)'
    <3>1. None # "worker_unavailable"
      BY RepliesAssumption DEF Replies
    <3> QED
      BY <1>1, <2>6, <2>7, <2>9, <2>13, <3>1 DEF CountGood, MovesTo, RowOf, IdOf
  <2>15. SpentGood'
    BY <1>1, <2>6, <2>7, <2>10, OwnStepKeepsSpent DEF SpentGood, Good, AttemptInv
  <2>16. InProgressHasOwner'
    <3> SUFFICES ASSUME up', ~StoreFaults, NEW i \in RequestIds, rows'[i].state = "in_progress"
                 PROVE  \E u \in Threads : /\ thread'[u].pc \in {"dispatch", "worker"}
                                           /\ thread'[u].attempt = rows'[i].attempt
                                           /\ thread'[u].document = rows'[i].document
      BY DEF InProgressHasOwner
    <3>1. CASE i = id
      BY <2>6, <2>7, <2>9, <3>1 DEF MovesTo, Files
    <3>2. CASE i # id
      <4>1. rows'[i] = rows[i] /\ rows[i].state = "in_progress" /\ up
        BY <1>1, <2>11, <3>2
      <4>2. PICK u \in Threads : Attempting(u)
        BY <4>1 DEF Good, AttemptInv, InProgressHasOwner, Attempting
      <4>3. u = t
        BY <1>1, <4>2, OthersAreBystanders DEF Attempting, Owner, OwnerSteps
      <4> QED
        BY <1>1, <4>2, <4>3 DEF Attempting
    <3> QED
      BY <3>1, <3>2
  <2> QED
    BY <2>10, <2>12, <2>14, <2>15, <2>16, OwnStepKeeps DEF AttemptInv, ThreadGood
<1> QED
  BY <1>1, <1>4, <1>6, <1>7, <1>8

\* The worker call: the document is counted, and on file.
LEMMA DispatchKeepsAttempts ==
  ASSUME RetentionCovers, Good, GoodTable(rows'), NEW t \in Threads, Dispatch(t)
  PROVE  AttemptInv'
<1> DEFINE c == thread[t].credential
           d == thread[t].document
<1>1. /\ UNCHANGED <<clock, up, delivered>> /\ thread[t].pc = "dispatch"
      /\ thread[t].pc \in Steps /\ Owner(t) /\ Attempting(t)
  BY DEF Dispatch, Steps, OwnerSteps, Owner, Attempting
<1>2. d \in Documents
  BY <1>1, OwnersAreTyped DEF Good
<1>3. PICK at \in Recent :
        \/ ExpireInstead(t, at) /\ UNCHANGED calls
        \/ /\ d.expires_at > at
           /\ thread' = [thread EXCEPT ![t].pc = "worker"]
           /\ calls' = [calls EXCEPT ![d] = @ + 1]
           /\ UNCHANGED rows
  BY DEF Dispatch
<1>4. CASE ExpireInstead(t, at) /\ UNCHANGED calls
  BY <1>1, <1>4, ExpiryKeeps
<1>5. CASE /\ d.expires_at > at
           /\ thread' = [thread EXCEPT ![t].pc = "worker"]
           /\ calls' = [calls EXCEPT ![d] = @ + 1]
           /\ UNCHANGED rows
  <2>1. ~Gone(d) /\ ThreadGood(t)
    BY <1>2, <1>5, Numbers DEF Gone, Good, AttemptInv
  <2>2. Files(rows[d.request_id], c, d) /\ calls[d] = 0 /\ rows[d.request_id].state # "reserved"
    BY <1>1, <2>1 DEF ThreadGood, OnFile, CountGood, RowOf, IdOf
  <2>3. MovesTo(t, "worker", None)
    BY <1>1, <1>5, StepSets
  <2>4. OwnStep(t)
    BY <1>1, <1>5, <2>3, NothingIsQuiet DEF OwnStep, OwnTable, QuietTable
  <2>5. calls'[d] = 1 /\ \A e \in Documents \ {d} : calls'[e] = calls[e]
    BY <1>2, <1>5, <2>2 DEF Good, ServiceTypeOK
  <2>6. AttemptGood(t)'
    BY <1>1, <1>5, <2>1, <2>3
    DEF ThreadGood, AttemptGood, MovesTo, Attempting, Settled
  <2>7. CountGood(t)'
    BY <2>3, <2>5, RepliesAssumption DEF CountGood, MovesTo, Replies
  <2>8. SpentGood'
    <3> SUFFICES ASSUME NEW e \in Documents
                 PROVE  /\ calls'[e] \in {0, 1}
                        /\ calls'[e] = 1 =>
                             \/ Gone(e)'
                             \/ /\ rows'[e.request_id].document = e
                                /\ rows'[e.request_id].state # "reserved"
      BY DEF SpentGood
    <3>1. CASE e = d
      BY <1>5, <2>2, <2>5, <3>1 DEF Files
    <3>2. CASE e # d
      BY <1>5, <2>4, <2>5, <3>2, OwnStepKeepsSpent DEF Good, AttemptInv, SpentGood
    <3> QED
      BY <3>1, <3>2
  <2>9. InProgressHasOwner'
    BY <1>1, <1>5, <2>3 DEF Good, AttemptInv, InProgressHasOwner, MovesTo
  <2> QED
    BY <2>4, <2>6, <2>7, <2>8, <2>9, OwnStepKeeps DEF AttemptInv, ThreadGood
<1> QED
  BY <1>3, <1>4, <1>5


\* The worker did not take the request: the row is back in line, and the document is not
\* counted.
LEMMA RefusalKeepsAttempts ==
  ASSUME RetentionCovers, Good, GoodTable(rows'), NEW t \in Threads, CallRefused(t)
  PROVE  AttemptInv'
<1> DEFINE c == thread[t].credential
           d == thread[t].document
           a == thread[t].attempt
           id == d.request_id
           old == rows[id]
<1>1. /\ UNCHANGED <<clock, up, delivered>> /\ thread[t].pc = "worker"
      /\ thread[t].pc \in Steps /\ Owner(t) /\ Attempting(t) /\ id = IdOf(t)
  BY DEF CallRefused, Steps, OwnerSteps, Owner, IdOf, Attempting
<1>2. d \in Documents /\ a \in Attempts /\ id \in RequestIds
  BY <1>1, OwnersAreTyped DEF Good, IdOf
<1>3. MovesTo(t, "release", "worker_unavailable")
  BY <1>1, FinishSets DEF CallRefused
<1>4. calls'[d] = 0 /\ \A e \in Documents \ {d} : calls'[e] = calls[e]
  BY <1>1, <1>2 DEF CallRefused, Good, ServiceTypeOK, AttemptInv, ThreadGood, CountGood
<1>5. \/ rows' = rows /\ ~OwnsAttempt(old, a)
      \/ /\ OwnsAttempt(old, a) /\ old.document = d
         /\ OwnRow(old, rows'[id]) /\ rows'[id].state = "reserved"
         /\ \A i \in RequestIds \ {id} : rows'[i] = rows[i]
  <2>1. CASE ~OwnsAttempt(old, a)
    BY <1>1, <2>1 DEF CallRefused, ResetReserved
  <2>2. CASE OwnsAttempt(old, a)
    <3> DEFINE new == [old EXCEPT !.state = "reserved", !.attempt = None]
    <3>1. old \in Row /\ old # Absent /\ TimeGood(old) /\ old.state = "in_progress"
      BY <1>2, <2>2 DEF OwnsAttempt, Good, StoreInv, GoodTable, GoodRow, Absent, AttemptInv, RowTimes
    <3>2. rows'[id] = new /\ \A i \in RequestIds \ {id} : rows'[i] = rows[i]
      BY <1>1, <1>2, <2>2 DEF CallRefused, ResetReserved, Good, StoreInv, GoodTable
    <3>3. /\ new.state = "reserved" /\ Files(new, old.credential, old.document)
          /\ new.document = old.document
      BY <3>1 DEF Row, Files
    <3>4. TimeGood(new)
      BY <3>1, <3>3 DEF TimeGood, Tombstones
    <3>5. old.document = d
      BY <1>1, <1>2, <2>2, OwnRowOnly DEF Files
    <3> HIDE DEF new
    <3> QED
      BY <2>2, <3>1, <3>2, <3>3, <3>4, <3>5 DEF OwnRow
  <2> QED
    BY <2>1, <2>2
<1>6. \A i \in RequestIds \ {id} : rows'[i] = rows[i] /\ ~OwnsAttempt(rows[i], a)
  BY <1>1, <1>5, OwnRowOnly
<1>7. OwnTable(t)
  BY <1>1, <1>2, <1>5 DEF OwnTable, QuietRow, Good, AttemptInv, RowTimes
<1>8. OwnStep(t)
  BY <1>1, <1>3, <1>7 DEF OwnStep
<1>9. \A i \in RequestIds : /\ ~OwnsAttempt(rows'[i], a)
                            /\ rows'[i].state = "in_progress" => rows'[i] = rows[i]
  BY <1>5, <1>6 DEF OwnsAttempt
<1>10. AttemptGood(t)'
  BY <1>3, <1>9 DEF AttemptGood, MovesTo, Attempting, Settled
<1>11. CountGood(t)'
  BY <1>3, <1>4 DEF CountGood, MovesTo
<1>12. SpentGood'
  <2> SUFFICES ASSUME NEW e \in Documents \ {d}, calls[e] = 1
               PROVE  \/ Gone(e)'
                      \/ rows'[e.request_id].document = e /\ rows'[e.request_id].state # "reserved"
    BY <1>4 DEF SpentGood, Good, AttemptInv
  <2>1. old.document # e \/ rows' = rows
    BY <1>5
  <2> QED
    BY <1>1, <1>8, <2>1, OwnStepKeepsSpent
<1>13. InProgressHasOwner'
  BY <1>8, <1>9, OwnStepEndsAttempt
<1> QED
  BY <1>8, <1>10, <1>11, <1>12, <1>13, OwnStepKeeps DEF AttemptInv, ThreadGood

\* A result in time for its row is stored, and the document stays counted.
LEMMA ResultKeepsAttempts ==
  ASSUME RetentionCovers, Good, GoodTable(rows'), NEW t \in Threads, NEW x \in Contents,
         NEW at \in Recent, thread[t].pc = "worker",
         UNCHANGED <<clock, up, calls, delivered>>,
         CompleteError(IdOf(t), thread[t].attempt, at) = "none",
         Complete(IdOf(t), thread[t].attempt, x, key, at),
         thread' = [thread EXCEPT ![t].pc = "collect"]
  PROVE  AttemptInv'
<1> DEFINE d == thread[t].document
           a == thread[t].attempt
           id == d.request_id
           old == rows[id]
<1>1. thread[t].pc \in Steps /\ Owner(t) /\ Attempting(t) /\ id = IdOf(t)
  BY DEF Steps, OwnerSteps, Owner, IdOf, Attempting
<1>2. d \in Documents /\ a \in Attempts /\ id \in RequestIds
  BY <1>1, OwnersAreTyped DEF Good, IdOf
<1>3. at \in Seconds /\ at <= clock
  BY Numbers DEF Good
<1>4. MovesTo(t, "collect", None)
  BY <1>1, StepSets
<1>5. OwnsAttempt(old, a) /\ Cleaned(old, at) = old
  <2>1. OwnsAttempt(Cleaned(old, at), a)
    BY <1>1 DEF CompleteError
  <2> QED
    BY <2>1, CleanedOpen DEF OwnsAttempt, OpenStates
<1>6. old \in Row /\ old # Absent /\ TimeGood(old) /\ old.state = "in_progress" /\ old.document = d
  BY <1>1, <1>2, <1>5, OwnRowOnly
  DEF OwnsAttempt, Good, StoreInv, GoodTable, GoodRow, Absent, AttemptInv, RowTimes, Files
<1>7. PICK new : new = [old EXCEPT !.state = "completed",
                                   !.output = [content |-> x, key |-> key]]
  OBVIOUS
<1>8. new.state = "completed" /\ Files(new, old.credential, old.document) /\ new.document = d
  BY <1>6, <1>7 DEF Row, Files
<1>9. \A i \in RequestIds : rows'[i] = IF i = id THEN new ELSE Cleanup(at)[i]
  BY <1>1, <1>2, <1>5, <1>7 DEF Complete, Cleanup
<1>10. TimeGood(new)
  BY <1>6, <1>8 DEF TimeGood, Tombstones
<1>11. OwnStep(t)
  <2>1. OwnRow(old, rows'[id])
    BY <1>2, <1>6, <1>8, <1>9, <1>10 DEF OwnRow
  <2>2. \A i \in RequestIds \ {id} : QuietRow(rows[i], rows'[i])
    BY <1>3, <1>9, CleanupIsQuiet
  <2> QED
    BY <1>1, <1>4, <2>1, <2>2 DEF OwnStep, OwnTable
<1>12. \A i \in RequestIds : /\ ~OwnsAttempt(rows'[i], a)
                             /\ rows'[i].state = "in_progress" => rows'[i] = rows[i]
  <2> SUFFICES ASSUME NEW i \in RequestIds, rows'[i].state = "in_progress"
               PROVE  rows'[i] = rows[i] /\ rows'[i].attempt # a
    BY DEF OwnsAttempt
  <2>1. i # id /\ rows'[i] = Cleaned(rows[i], at)
    BY <1>8, <1>9 DEF Cleanup
  <2>2. rows'[i] = rows[i]
    BY <2>1, CleanedOpen DEF OpenStates
  <2> QED
    BY <1>1, <2>1, <2>2, OwnRowOnly DEF OwnsAttempt
<1>13. AttemptGood(t)'
  BY <1>4, <1>12 DEF AttemptGood, MovesTo, Attempting, Settled
<1>14. CountGood(t)'
  BY <1>4, RepliesAssumption DEF CountGood, MovesTo, Replies
<1>15. SpentGood'
  BY <1>1, <1>2, <1>8, <1>9, <1>11, OwnStepKeepsSpent DEF SpentGood, Good, AttemptInv
<1>16. InProgressHasOwner'
  BY <1>11, <1>12, OwnStepEndsAttempt
<1> QED
  BY <1>11, <1>13, <1>14, <1>15, <1>16, OwnStepKeeps DEF AttemptInv, ThreadGood

\* Whatever the worker answers.
LEMMA AnswerKeepsAttempts ==
  ASSUME RetentionCovers, Good, GoodTable(rows'), NEW t \in Threads, NEW x \in Contents,
         CallAnswered(t, x)
  PROVE  AttemptInv'
<1> DEFINE error(at) == CompleteError(IdOf(t), thread[t].attempt, at)
<1>1. UNCHANGED <<clock, up, calls, delivered>> /\ thread[t].pc = "worker"
  BY DEF CallAnswered
<1>2. PICK at \in Recent :
        /\ Complete(IdOf(t), thread[t].attempt, x, key, at)
        /\ CASE error(at) = "none" -> thread' = [thread EXCEPT ![t].pc = "collect"]
             [] error(at) = "expired" -> Finish(t, "request_expired")
             [] error(at) = "not_owner" -> Settle(t)
  BY DEF CallAnswered
<1>3. error(at) \in {"none", "expired", "not_owner"}
  BY DEF CompleteError
<1>4. CASE error(at) = "none"
  BY <1>1, <1>2, <1>4, ResultKeepsAttempts
<1>5. CASE error(at) # "none"
  <2>1. Finish(t, "request_expired") \/ Settle(t)
    BY <1>2, <1>3, <1>5
  <2> QED
    BY <1>1, <1>2, <1>5, <2>1, LateResultKeepsAttempts
<1> QED
  BY <1>4, <1>5


-----------------------------------------------------------------------------------
(* The other steps, and the invariant.                                             *)

\* Transactions of no call of infer(): acknowledgement and maintenance.
LEMMA OthersKeepAttempts ==
  ASSUME RetentionCovers, Good, GoodTable(rows'), QuietTable,
         UNCHANGED <<clock, up, thread, calls, delivered>>
  PROVE  AttemptInv'
BY Numbers, QuietKeepsResults, QuietKeeps DEF Good, ServiceTypeOK

\* A crash leaves the rows of its attempts to the next start, which gives them up.
LEMMA CrashKeepsAttempts ==
  ASSUME RetentionCovers, Good, GoodTable(rows'), Crash \/ Restart
  PROVE  AttemptInv'
<1>1. UNCHANGED <<clock, calls, delivered>>
  BY DEF Crash, Restart
<1>2. clock' \in Seconds /\ clock' >= clock
  BY <1>1, Numbers DEF Good, ServiceTypeOK
<1>3. CASE Crash
  <2>1. QuietTable /\ ResultsGood'
    BY <1>1, <1>2, <1>3, NothingIsQuiet, QuietKeepsResults DEF Crash
  <2>2. \A t \in Threads : ThreadGood(t)' /\ LeavesNoRow(t)
    BY <1>3, IdleIsGood DEF Crash, LeavesNoRow
  <2> QED
    BY <1>1, <1>2, <1>3, <2>1, <2>2, QuietKeeps DEF Crash
<1>4. CASE Restart
  <2>1. QuietTable /\ \A id \in RequestIds : rows'[id].state # "in_progress"
    BY <1>4, InitializeIsQuiet DEF Restart
  <2>2. ResultsGood'
    BY <1>1, <1>2, <2>1, QuietKeepsResults
  <2> QED
    BY <1>1, <1>2, <1>4, <2>1, <2>2, QuietKeeps DEF Restart
<1> QED
  BY <1>3, <1>4

\* Time brings documents closer to being gone.
LEMMA TickKeepsAttempts ==
  ASSUME RetentionCovers, Good, GoodTable(rows'), Tick
  PROVE  AttemptInv'
<1>1. clock' \in Seconds /\ clock' >= clock
  BY LimitsAssumption DEF Tick, Good, ServiceTypeOK, Seconds
<1>2. UNCHANGED <<rows, up, thread, calls, delivered>>
  BY DEF Tick
<1>3. QuietTable /\ ResultsGood'
  BY <1>1, <1>2, NothingIsQuiet, QuietKeepsResults
<1> QED
  BY <1>1, <1>2, <1>3, QuietKeeps

\* The process starts with nothing counted and nothing delivered.
LEMMA AttemptsInitially == ServiceInit => Good
<1> SUFFICES ASSUME ServiceInit PROVE Good
  OBVIOUS
<1>1. StoreInv /\ ServiceTypeOK /\ LaneInv
  BY ServiceInitially DEF ServiceInv
<1>2. \A id \in RequestIds : rows[id] = Absent /\ rows[id].state = "absent"
  BY DEF ServiceInit, StoreInit, Absent
<1>3. \A t \in Threads : thread[t].pc = "idle" /\ thread[t].reply = None
  BY DEF ServiceInit, Idle
<1>4. \A t \in Threads : ThreadGood(t)
  BY <1>3, RepliesAssumption
  DEF ThreadGood, OnFile, AttemptGood, CountGood, Attempting, Settled, Replies
<1>5. RowTimes /\ InProgressHasOwner
  BY <1>2 DEF RowTimes, TimeGood, InProgressHasOwner
<1>6. SpentGood /\ ResultsGood
  BY DEF ServiceInit, SpentGood, ResultsGood, OneResultPerDocument
<1> QED
  BY <1>1, <1>4, <1>5, <1>6 DEF Good, AttemptInv

\* A step of one thread.
LEMMA ThreadStepKeepsAttempts ==
  ASSUME RetentionCovers, Good, GoodTable(rows'), NEW t \in Threads,
         ThreadStep(t) \/ WaitTimeout(t) \/ StoreFault(t)
  PROVE  AttemptInv'
BY ClaimKeepsAttempts, BystanderKeepsAttempts, MarkKeepsAttempts, DispatchKeepsAttempts,
   RefusalKeepsAttempts, LossKeepsAttempts, AnswerKeepsAttempts, CollectKeepsAttempts,
   ReleaseKeepsAttempts, FaultKeepsAttempts
DEF ThreadStep, WorkerReturns

\* Every step keeps what is known of attempts, calls and results.
LEMMA AttemptStep ==
  ASSUME RetentionCovers
  PROVE  Good /\ [ServiceNext]_vars => Good'
<1> SUFFICES ASSUME Good, [ServiceNext]_vars PROVE Good'
  OBVIOUS
<1>1. ServiceInv'
  BY ServiceStep DEF Good, ServiceInv
<1>2. GoodTable(rows')
  BY <1>1 DEF ServiceInv, StoreInv, GoodTable, GoodRow
<1>3. AttemptInv'
  <2>1. CASE UNCHANGED vars
    BY <1>2, <2>1, NothingIsQuiet, OthersKeepAttempts DEF vars
  <2>2. ASSUME NEW t \in Threads, NEW c \in Credentials, NEW d \in Documents, Infer(t, c, d)
        PROVE  AttemptInv'
    BY <1>2, <2>2, InferKeepsAttempts
  <2>3. ASSUME NEW t \in Threads, ThreadStep(t) \/ WaitTimeout(t) \/ StoreFault(t)
        PROVE  AttemptInv'
    BY <1>2, <2>3, ThreadStepKeepsAttempts
  <2>4. ASSUME NEW c \in Credentials, NEW id \in RequestIds, NEW s \in Dispositions,
               AcknowledgeCall(c, id, s)
        PROVE  AttemptInv'
    BY <1>2, <2>4, AcknowledgeIsQuiet, OthersKeepAttempts DEF AcknowledgeCall
  <2>5. ASSUME NEW at \in Seconds, Sweep(at)
        PROVE  AttemptInv'
    BY <1>2, <2>5, ReadIsQuiet, OthersKeepAttempts DEF Sweep
  <2>6. CASE Crash \/ Restart
    BY <1>2, <2>6, CrashKeepsAttempts
  <2>7. CASE Tick
    BY <1>2, <2>7, TickKeepsAttempts
  <2> QED
    BY <2>1, <2>2, <2>3, <2>4, <2>5, <2>6, <2>7 DEF ServiceNext
<1> QED
  BY <1>1, <1>3 DEF Good, ServiceInv

\* The inductive invariant.
THEOREM AttemptInvariant ==
  ASSUME RetentionCovers
  PROVE  ServiceSpec => []Good
BY AttemptsInitially, AttemptStep, PTL DEF ServiceSpec

-----------------------------------------------------------------------------------
(* Theorems.                                                                       *)

\* Where tombstones outlast their documents, no document is ever submitted twice to a worker
\* that may have taken it, through repeats, crashes, restarts, key changes, acknowledgement
\* and maintenance (app.py:148-252, store.py:280-454).
THEOREM CalledAtMostOnce ==
  ASSUME RetentionCovers
  PROVE  ServiceSpec => []AtMostOneCall
<1>1. Good => AtMostOneCall
  BY DEF Good, AttemptInv, SpentGood, AtMostOneCall
<1> QED
  BY <1>1, AttemptInvariant, PTL

\* A call that goes to a step other than the answer does not answer.
LEMMA NotAnswering ==
  ASSUME ServiceTypeOK, NEW t \in Threads, thread[t].pc # "answer",
         NEW u \in Threads, thread[u].pc \in Steps,
         \/ \E s \in OwnerSteps \cup {"reload"} : thread' = [thread EXCEPT ![u].pc = s]
         \/ \E reply : Finish(u, reply)
         \/ \E a : thread' = [thread EXCEPT ![u].pc = "mark", ![u].attempt = a]
         \/ thread' = Waiting(u) \/ Return(u)
  PROVE  thread'[t].pc # "answer"
<1>1. thread[u] \in Call
  BY BusyIsNotIdle, CallsAreTyped
<1>2. CASE t # u
  BY <1>2 DEF Finish, Waiting, Return, ServiceTypeOK
<1>3. CASE t = u
  <2>1. ASSUME NEW s \in OwnerSteps \cup {"reload"}, thread' = [thread EXCEPT ![u].pc = s]
        PROVE  thread'[u].pc = s /\ s # "answer"
    BY <1>1, <2>1 DEF ServiceTypeOK, Call, OwnerSteps
  <2>2. ASSUME NEW reply, Finish(u, reply)
        PROVE  thread'[u].pc = "release"
    BY <1>1, <2>2 DEF ServiceTypeOK, Call, Finish
  <2>3. ASSUME NEW a, thread' = [thread EXCEPT ![u].pc = "mark", ![u].attempt = a]
        PROVE  thread'[u].pc = "mark"
    BY <1>1, <2>3 DEF ServiceTypeOK, Call
  <2>4. CASE thread' = Waiting(u)
    <3>1. \E x : thread' = [thread EXCEPT ![u].pc = "wait", ![u].deadline = x]
      BY <2>4 DEF Waiting
    <3>2. thread'[u].pc = "wait"
      BY <1>1, <3>1 DEF ServiceTypeOK, Call
    <3> QED
      BY <1>3, <3>2
  <2>5. CASE Return(u)
    BY <1>3, <2>5 DEF Return, ServiceTypeOK, Idle
  <2> QED
    BY <1>3, <2>1, <2>2, <2>3, <2>4, <2>5
<1> QED
  BY <1>2, <1>3

\* Nothing but a reload has something to tell without the lane.
LEMMA OnlyReloadConcludes ==
  ASSUME ServiceTypeOK, [ServiceNext]_vars, NEW t \in Threads,
         thread[t].pc # "answer", thread'[t].pc = "answer"
  PROVE  Reload(t)
<1>1. thread'[t] # thread[t] /\ thread'[t] # Idle
  BY DEF Idle
<1>2. ASSUME NEW u \in Threads, NEW c \in Credentials, NEW d \in Documents, Infer(u, c, d)
      PROVE  FALSE
  <2> DEFINE call == [Idle EXCEPT !.credential = c, !.document = d]
  <2>1. PICK s \in {"claim", "join"} : thread' = [thread EXCEPT ![u] = [call EXCEPT !.pc = s]]
    BY <1>1, <1>2 DEF Infer
  <2> QED
    BY <1>1, <2>1 DEF Idle, ServiceTypeOK
<1>3. ASSUME NEW u \in Threads, ThreadStep(u) \/ WaitTimeout(u) \/ StoreFault(u)
      PROVE  Reload(t)
  <2>1. CASE Reload(u)
    <3>1. t = u
      BY <1>1, <2>1, ReloadEnds DEF Return, Concludes, ServiceTypeOK
    <3> QED
      BY <2>1, <3>1
  <2>2. CASE ClaimLane(u)
    <3>1. \/ \E a \in FreshAttempts :
                thread' = [thread EXCEPT ![u].pc = "mark", ![u].attempt = a]
          \/ thread' = Waiting(u) \/ Return(u)
      BY <2>2 DEF ClaimLane
    <3> QED
      BY <1>1, <2>2, <3>1, NotAnswering DEF ClaimLane, Steps
  <2>3. CASE JoinActive(u)
    BY <1>1, <2>3, NotAnswering DEF JoinActive, Steps
  <2>4. CASE Answer(u) \/ WaitTimeout(u) \/ (StoreFault(u) /\ thread[u].pc = "reload")
    BY <1>1, <2>4 DEF Answer, WaitTimeout, StoreFault, Return, ServiceTypeOK
  <2>5. CASE ReleaseLane(u)
    <3>1. t # u /\ thread'[t] = Woken(thread[t])
      BY <1>1, <2>5 DEF ReleaseLane
    <3>2. thread[t].pc = "wait" /\ thread'[t] = [thread[t] EXCEPT !.pc = "reload", !.deadline = 0]
      BY <1>1, <3>1 DEF Woken
    <3>3. thread[t] \in Call
      BY <3>2, BusyIsNotIdle, CallsAreTyped DEF Steps
    <3> QED
      BY <3>2, <3>3 DEF Call
  <2>6. CASE Mark(u) \/ Dispatch(u)
    <3>1. \/ \E s \in OwnerSteps : thread' = [thread EXCEPT ![u].pc = s]
          \/ \E reply : Finish(u, reply)
      BY <2>6 DEF Mark, Dispatch, ExpireInstead, Settle, OwnerSteps
    <3> QED
      BY <2>6, <3>1, NotAnswering DEF Mark, Dispatch, Steps, OwnerSteps
  <2>7. CASE WorkerReturns(u)
    <3>1. \/ \E s \in OwnerSteps : thread' = [thread EXCEPT ![u].pc = s]
          \/ \E reply : Finish(u, reply)
      <4>1. CASE CallRefused(u) \/ CallLost(u) \/ CallInvalid(u)
        BY <4>1 DEF CallRefused, CallLost, CallInvalid
      <4>2. ASSUME NEW x \in Contents, CallAnswered(u, x)
            PROVE  \/ thread' = [thread EXCEPT ![u].pc = "collect"]
                   \/ thread' = [thread EXCEPT ![u].pc = "settle"]
                   \/ Finish(u, "request_expired")
        <5>1. PICK at \in Recent :
                CASE CompleteError(IdOf(u), thread[u].attempt, at) = "none"
                       -> thread' = [thread EXCEPT ![u].pc = "collect"]
                  [] CompleteError(IdOf(u), thread[u].attempt, at) = "expired"
                       -> Finish(u, "request_expired")
                  [] CompleteError(IdOf(u), thread[u].attempt, at) = "not_owner"
                       -> Settle(u)
          BY <4>2 DEF CallAnswered
        <5>2. CompleteError(IdOf(u), thread[u].attempt, at) \in {"none", "expired", "not_owner"}
          BY DEF CompleteError
        <5> QED
          BY <5>1, <5>2 DEF Settle
      <4> QED
        BY <2>7, <4>1, <4>2 DEF WorkerReturns, OwnerSteps
    <3>2. thread[u].pc = "worker"
      BY <2>7 DEF WorkerReturns, CallRefused, CallLost, CallInvalid, CallAnswered
    <3> QED
      BY <3>1, <3>2, NotAnswering DEF Steps, OwnerSteps
  <2>8. CASE Collect(u) \/ MarkUnsettled(u)
    <3>1. \/ \E s \in OwnerSteps : thread' = [thread EXCEPT ![u].pc = s]
          \/ \E reply : Finish(u, reply)
      BY <2>8 DEF Collect, MarkUnsettled, Settle, OwnerSteps
    <3> QED
      BY <2>8, <3>1, NotAnswering DEF Collect, MarkUnsettled, Steps, OwnerSteps
  <2>9. CASE StoreFault(u) /\ thread[u].pc # "reload"
    BY <2>9, NotAnswering DEF StoreFault, Steps, OwnerSteps
  <2> QED
    BY <1>3, <2>1, <2>2, <2>3, <2>4, <2>5, <2>6, <2>7, <2>8, <2>9 DEF ThreadStep
<1>4. CASE \E c \in Credentials, id \in RequestIds, s \in Dispositions : AcknowledgeCall(c, id, s)
  BY <1>1, <1>4 DEF AcknowledgeCall
<1>5. CASE (\E at \in Seconds : Sweep(at)) \/ Crash \/ Restart \/ Tick \/ UNCHANGED vars
  BY <1>1, <1>5 DEF Sweep, Crash, Restart, Tick, vars
<1> QED
  BY <1>2, <1>3, <1>4, <1>5 DEF ServiceNext

\* A row that is read as reserved is of a document no worker may have.
LEMMA ReservedIsUncalled ==
  ASSUME Good, Good', NEW t \in Threads, Reload(t), thread'[t].reply = "worker_unavailable"
  PROVE  calls'[thread'[t].document] = 0
<1> DEFINE c == thread[t].credential
           d == thread[t].document
           row == rows'[d.request_id]
<1>1. thread[t] \in Call /\ c \in Credentials /\ d \in Documents /\ d.request_id \in RequestIds
  BY BusyIsNotIdle, CallsAreTyped DEF Reload, Steps, Good, IdOf
<1>2. thread'[t] # Idle /\ UNCHANGED <<clock, calls>>
  BY RepliesAssumption DEF Idle, Replies, Reload
<1>3. PICK at \in Recent :
        /\ GetOwned(c, d, at) /\ GetOwnedError(c, d, at) = "none"
        /\ thread' = [thread EXCEPT ![t].pc = "answer", ![t].reply = Conclusion(row)]
  BY <1>2 DEF Reload, Return, Good, ServiceTypeOK
<1>4. thread'[t].document = d /\ row.state = "reserved"
  BY <1>1, <1>3 DEF Conclusion, Call, Good, ServiceTypeOK
<1>5. Files(row, c, d) /\ d.expires_at > clock - MaxLag
  BY <1>1, <1>3, <1>4, AnswersFromFile, LateReadIsClosed
<1>6. ~(d.expires_at <= clock' - MaxLag)
  BY <1>1, <1>2, <1>5, Numbers DEF Good
<1>7. calls'[d] # 1 /\ calls'[d] \in {0, 1}
  BY <1>1, <1>4, <1>6 DEF Good, AttemptInv, SpentGood, Gone
<1> QED
  BY <1>4, <1>7

\* Whoever arrives at worker_unavailable, the owner whose call was refused or a reload that
\* finds the row reserved without the lane, no worker may have the document at that moment
\* (app.py:202-206, 386-398).
THEOREM UnavailableIsHonest ==
  ASSUME RetentionCovers
  PROVE  ServiceSpec => UnavailableMeansUncalled
<1> DEFINE Honest ==
      \A t \in Threads :
        (thread'[t].reply = "worker_unavailable" /\ thread[t].pc # "answer") =>
          calls'[thread'[t].document] = 0
<1>1. Good /\ Good' /\ [ServiceNext]_vars => Honest
  <2> SUFFICES ASSUME Good, Good', [ServiceNext]_vars, NEW t \in Threads,
                      thread'[t].reply = "worker_unavailable", thread[t].pc # "answer"
               PROVE  calls'[thread'[t].document] = 0
    OBVIOUS
  <2>1. thread'[t].pc \in {"release", "answer"} /\ ThreadGood(t)'
    BY RepliesAssumption DEF Replies, Good, AttemptInv, ThreadGood, AttemptGood
  <2>2. CASE thread'[t].pc = "release"
    BY <2>1, <2>2 DEF ThreadGood, CountGood
  <2>3. CASE thread'[t].pc = "answer"
    BY <2>3, OnlyReloadConcludes, ReservedIsUncalled DEF Good
  <2> QED
    BY <2>1, <2>2, <2>3
<1>2. Good /\ Good' /\ [ServiceNext]_vars => [Honest]_vars
  BY <1>1
<1> QED
  BY <1>2, AttemptInvariant, PTL DEF ServiceSpec, UnavailableMeansUncalled

\* A document has one result and one reader, whoever asks for it and however often
\* (app.py:312-347, store.py:331-344, 412-450).
THEOREM ResultIsUnique ==
  ASSUME RetentionCovers
  PROVE  ServiceSpec => []OneResultPerDocument
<1>1. Good => OneResultPerDocument
  BY DEF Good, AttemptInv, ResultsGood
<1> QED
  BY <1>1, AttemptInvariant, PTL

\* While SQLite works, no row stays in progress without a call that works on it
\* (app.py:174-252).
THEOREM NoOrphanedAttempt ==
  ASSUME RetentionCovers
  PROVE  ServiceSpec => []InProgressHasOwner
<1>1. Good => InProgressHasOwner
  BY DEF Good, AttemptInv
<1> QED
  BY <1>1, AttemptInvariant, PTL

\* An attempt that is over holds no row, on any path through the handlers of infer()
\* (app.py:200-252).
THEOREM AttemptIsSettled ==
  ASSUME RetentionCovers
  PROVE  ServiceSpec => []AttemptSettled
<1>1. ASSUME Good PROVE AttemptSettled
  <2> SUFFICES ASSUME NEW t \in Threads,
                      \/ thread[t].pc = "settle"
                      \/ thread[t].pc = "release" /\ thread[t].reply # "internal_error"
               PROVE  ~OwnsAttempt(rows[IdOf(t)], thread[t].attempt)
    BY DEF AttemptSettled
  <2>1. Owner(t) /\ Settled(t) /\ ThreadGood(t)
    BY <1>1 DEF Owner, OwnerSteps, Settled, Good, AttemptInv
  <2>2. IdOf(t) \in RequestIds
    BY <1>1, <2>1, OwnersAreTyped DEF Good
  <2> QED
    BY <2>1, <2>2 DEF ThreadGood, AttemptGood
<1> QED
  BY <1>1, AttemptInvariant, PTL
===================================================================================
