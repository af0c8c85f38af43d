------------------------------ MODULE GatewayService ------------------------------
(***********************************************************************************)
(* The gateway process (app.py, class GatewayService and its maintenance task) over *)
(* the request table of RequestStore.                                              *)
(*                                                                                 *)
(* A call to infer() runs in one thread of the pool and is split where another      *)
(* thread, the clock or a crash can come between: one store transaction or one      *)
(* critical section of _lane_lock per step.  An acknowledgement and a maintenance   *)
(* sweep are one transaction each, so they are one step and need no thread state.   *)
(*                                                                                 *)
(* Every clock sample a step uses is at most MaxLag seconds older than the step:    *)
(* SQLite gives up on a busy database after 30 seconds (busy_timeout, store.py:571). *)
(***********************************************************************************)
EXTENDS RequestStore

CONSTANTS
  Threads,        \* pool threads that run infer()
  Lifetime,       \* settings.request_max_lifetime_seconds
  WorkerTimeout,  \* settings.worker_timeout_seconds
  MaxLag,         \* bound on the age of a clock sample when its step happens
  StoreFaults     \* whether SQLite may fail a transaction (locked, disk full)

ASSUME ServiceAssumption ==
  /\ Lifetime \in Nat /\ WorkerTimeout \in Nat /\ MaxLag \in Nat
  /\ StoreFaults \in BOOLEAN
  /\ None \notin RequestIds

VARIABLES
  clock,      \* the second the wall clock shows
  up,         \* whether the process runs
  key,        \* the key ResultCipher.from_file read when the process started
  lane,       \* GatewayService._active: the request_id that holds the lane, or None
  thread,     \* the call each pool thread is running
  calls,      \* worker submissions per document that may have been admitted (history)
  delivered   \* results handed to a client (history)

vars == <<rows, clock, up, key, lane, thread, calls, delivered>>

OwnerSteps == {"mark", "dispatch", "worker", "collect", "settle", "release"}
Steps == OwnerSteps \cup {"claim", "join", "wait", "reload", "answer"}
Replies == {"completed", "worker_unavailable", "inference_timeout", "request_expired",
            "invalid_worker_output", "unknown_request", "internal_error"}

ASSUME RepliesAssumption == None \notin Replies

\* `reply` is the outcome an owner carries through the finally clause that releases
\* the lane, and what a reload concludes without a lane; `deadline` is when Event.wait gives up.
Call == [pc : Steps,
         credential : Credentials,
         document : Documents,
         attempt : Attempts \cup {None},
         reply : Replies \cup {None},
         deadline : Int]

Idle == [pc |-> "idle", credential |-> None, document |-> None,
         attempt |-> None, reply |-> None, deadline |-> 0]

Delivery == [credential : Credentials, document : Documents, content : Contents]

IdOf(t) == thread[t].document.request_id
Owner(t) == thread[t].pc \in OwnerSteps

Recent == {at \in Seconds : clock - MaxLag <= at /\ at <= clock}

ServiceInit ==
  /\ StoreInit
  /\ clock = 0
  /\ up = TRUE
  /\ key \in Keys
  /\ lane = None
  /\ thread = [t \in Threads |-> Idle]
  /\ calls = [d \in Documents |-> 0]
  /\ delivered = {}

-----------------------------------------------------------------------------------
(* Answers built from a record.                                                    *)

\* _existing_response of a completed record decrypts it with the key of this process.
Readable(row) == row.state = "completed" /\ row.output.key = key

\* Faulty: the state of the row is passed on.
ReplyToWithState(row) == IF Readable(row) THEN "completed" ELSE row.state

ReplyTo(row) ==
  CASE row.state = "completed" /\ Readable(row) -> "completed"
    [] row.state = "expired"                    -> "request_expired"
    [] row.state = "acknowledged"               -> "unknown_request"
    [] OTHER                                    -> "invalid_worker_output"

Deliver(c, d, row) ==
  delivered' = IF Readable(row)
               THEN delivered \cup {[credential |-> c, document |-> d,
                                     content |-> row.output.content]}
               ELSE delivered

Finish(t, reply) ==
  thread' = [thread EXCEPT ![t].pc = "release", ![t].reply = reply]

Return(t) == thread' = [thread EXCEPT ![t] = Idle]

-----------------------------------------------------------------------------------
(* infer(), up to the lane.                                                        *)

\* The time checks of _validate_policy.  The maximum expiry is rounded up to a whole
\* second, so a fraction of a second in the sample admits one second more.
LifetimeAllows(d, at) == d.expires_at > at /\ d.expires_at <= at + Lifetime + 1

\* Validate, admit, and answer from the record where it has an answer.
Infer(t, c, d) ==
  /\ up /\ thread[t] = Idle
  /\ \E at \in Recent :
       /\ LifetimeAllows(d, at)
       /\ Admit(c, d, at)
       /\ IF AdmitError(c, d, at) # "none"
          THEN UNCHANGED <<thread, delivered>>
          ELSE LET row  == rows'[d.request_id]
                   call == [Idle EXCEPT !.credential = c, !.document = d]
               IN  /\ Deliver(c, d, row)
                   /\ thread' =
                        CASE row.state = "reserved"
                               -> [thread EXCEPT ![t] = [call EXCEPT !.pc = "claim"]]
                          [] row.state = "in_progress"
                               -> [thread EXCEPT ![t] = [call EXCEPT !.pc = "join"]]
                          [] OTHER -> thread
  /\ UNCHANGED <<clock, up, key, lane, calls>>

\* uuid4: an identity no row and no thread holds.
FreshAttempts ==
  Attempts \ ({rows[id].attempt : id \in RequestIds} \cup {thread[t].attempt : t \in Threads})

Waiting(t) ==
  LET expires == thread[t].document.expires_at
      patience == clock + WorkerTimeout + 1
  IN  [thread EXCEPT ![t].pc = "wait",
                     ![t].deadline = IF expires <= patience THEN expires ELSE patience]

\* Faulty: a lane held for another request is taken over.
ClaimLaneOfAnother(t) ==
  /\ thread[t].pc = "claim"
  /\ \/ /\ lane # IdOf(t)
        /\ lane' = IdOf(t)
        /\ \E a \in FreshAttempts :
             thread' = [thread EXCEPT ![t].pc = "mark", ![t].attempt = a]
     \/ /\ lane = IdOf(t)
        /\ thread' = Waiting(t)
        /\ UNCHANGED lane
  /\ UNCHANGED <<rows, clock, up, key, calls, delivered>>

\* _claim_lane makes the caller the owner; without it, the lane is whoever's it was.
Claimed(id) == lane = None /\ lane' = id

\* A record that was reserved when it was admitted claims the lane, waits for the owner
\* of the same request, or is turned away.
ClaimLane(t) ==
  /\ thread[t].pc = "claim"
  /\ \/ /\ Claimed(IdOf(t))
        /\ \E a \in FreshAttempts :
             thread' = [thread EXCEPT ![t].pc = "mark", ![t].attempt = a]
     \/ /\ lane = IdOf(t)
        /\ thread' = Waiting(t)
        /\ UNCHANGED lane
     \/ /\ lane \notin {None, IdOf(t)}       \* capacity_limited
        /\ Return(t)
        /\ UNCHANGED lane
  /\ UNCHANGED <<rows, clock, up, key, calls, delivered>>

\* _join_active, for a record that was in progress when it was admitted.
JoinActive(t) ==
  /\ thread[t].pc = "join"
  /\ thread' = IF lane = IdOf(t) THEN Waiting(t) ELSE [thread EXCEPT ![t].pc = "reload"]
  /\ UNCHANGED <<rows, clock, up, key, lane, calls, delivered>>

WaitTimeout(t) ==
  /\ thread[t].pc = "wait"
  /\ clock >= thread[t].deadline
  /\ Return(t)
  /\ UNCHANGED <<rows, clock, up, key, lane, calls, delivered>>

\* Faulty: whatever is not finished may be submitted again.
ConclusionOfAny(row) == "worker_unavailable"

\* What _reload_after_attempt raises for a row that has no answer yet.
Conclusion(row) == IF row.state = "reserved" THEN "worker_unavailable" ELSE "inference_timeout"

\* _reload_after_attempt: the row has an answer, or the reload concludes from it that no
\* worker has the request, or that one may.  Nobody holds the lane for that: until the
\* client is told, the row may move on.
Reload(t) ==
  LET c == thread[t].credential
      d == thread[t].document
  IN  /\ thread[t].pc = "reload"
      /\ \E at \in Recent :
           /\ GetOwned(c, d, at)
           /\ IF GetOwnedError(c, d, at) = "none"
              THEN LET row == rows'[d.request_id]
                   IN  /\ Deliver(c, d, row)
                       /\ IF row.state \in {"reserved", "in_progress", "ambiguous"}
                          THEN thread' = [thread EXCEPT ![t].pc = "answer",
                                                        ![t].reply = Conclusion(row)]
                          ELSE Return(t)
              ELSE Return(t) /\ UNCHANGED delivered
      /\ UNCHANGED <<clock, up, key, lane, calls>>

Answer(t) ==
  /\ thread[t].pc = "answer"
  /\ Return(t)
  /\ UNCHANGED <<rows, clock, up, key, lane, calls, delivered>>

-----------------------------------------------------------------------------------
(* infer(), while it owns the lane.  A StoreError is settled by one more            *)
(* transaction, mark_ambiguous, and answered inference_timeout.                     *)

Settle(t) == thread' = [thread EXCEPT ![t].pc = "settle"]

\* Faulty: refused without the reload.
ExpireWithoutReload(t, at) ==
  /\ thread[t].document.expires_at <= at
  /\ Finish(t, "request_expired")
  /\ UNCHANGED rows

\* Past its expiry the request is reloaded, which expires the row, and refused.
ExpireInstead(t, at) ==
  LET c == thread[t].credential
      d == thread[t].document
  IN  /\ d.expires_at <= at
      /\ GetOwned(c, d, at)
      /\ IF GetOwnedError(c, d, at) = "none" THEN Finish(t, "request_expired") ELSE Settle(t)

Mark(t) ==
  /\ thread[t].pc = "mark"
  /\ \E at \in Recent :
       \/ ExpireInstead(t, at)
       \/ /\ thread[t].document.expires_at > at
          /\ MarkInProgress(IdOf(t), thread[t].attempt, at)
          /\ IF Markable(IdOf(t), at)
             THEN thread' = [thread EXCEPT ![t].pc = "dispatch"]
             ELSE Settle(t)
  /\ UNCHANGED <<clock, up, key, lane, calls, delivered>>

Dispatch(t) ==
  /\ thread[t].pc = "dispatch"
  /\ \E at \in Recent :
       \/ ExpireInstead(t, at) /\ UNCHANGED calls
       \/ /\ thread[t].document.expires_at > at
          /\ thread' = [thread EXCEPT ![t].pc = "worker"]
          /\ calls' = [calls EXCEPT ![thread[t].document] = @ + 1]
          /\ UNCHANGED rows
  /\ UNCHANGED <<clock, up, key, lane, delivered>>

\* WorkerUnavailable: the worker definitively did not admit the request.
CallRefused(t) ==
  /\ thread[t].pc = "worker"
  /\ ResetReserved(IdOf(t), thread[t].attempt)
  /\ calls' = [calls EXCEPT ![thread[t].document] = @ - 1]
  /\ Finish(t, "worker_unavailable")
  /\ UNCHANGED <<clock, up, key, lane, delivered>>

\* Faulty: answered, and not recorded.
CallLostUnrecorded(t) ==
  /\ thread[t].pc = "worker"
  /\ Finish(t, "inference_timeout")
  /\ UNCHANGED <<rows, clock, up, key, lane, calls, delivered>>

\* WorkerOutcomeAmbiguous, and any exception the worker was not expected to raise.
CallLost(t) ==
  /\ thread[t].pc = "worker"
  /\ MarkAmbiguous(IdOf(t), thread[t].attempt)
  /\ Finish(t, "inference_timeout")
  /\ UNCHANGED <<clock, up, key, lane, calls, delivered>>

\* InvalidWorkerOutput.
CallInvalid(t) ==
  /\ thread[t].pc = "worker"
  /\ MarkFailed(IdOf(t), thread[t].attempt)
  /\ Finish(t, "invalid_worker_output")
  /\ UNCHANGED <<clock, up, key, lane, calls, delivered>>

CallAnswered(t, content) ==
  LET a == thread[t].attempt
  IN  /\ thread[t].pc = "worker"
      /\ \E at \in Recent :
           /\ Complete(IdOf(t), a, content, key, at)
           /\ CASE CompleteError(IdOf(t), a, at) = "none"
                     -> thread' = [thread EXCEPT ![t].pc = "collect"]
                [] CompleteError(IdOf(t), a, at) = "expired"
                     -> Finish(t, "request_expired")
                [] CompleteError(IdOf(t), a, at) = "not_owner"
                     -> Settle(t)
      /\ UNCHANGED <<clock, up, key, lane, calls, delivered>>

\* The completed record is read back before it is answered.
Collect(t) ==
  LET c == thread[t].credential
      d == thread[t].document
  IN  /\ thread[t].pc = "collect"
      /\ \E at \in Recent :
           /\ GetOwned(c, d, at)
           /\ IF GetOwnedError(c, d, at) = "none"
              THEN /\ Deliver(c, d, rows'[d.request_id])
                   /\ Finish(t, ReplyTo(rows'[d.request_id]))
              ELSE /\ UNCHANGED delivered
                   /\ Settle(t)
      /\ UNCHANGED <<clock, up, key, lane, calls>>

\* The handler of StoreError.
MarkUnsettled(t) ==
  /\ thread[t].pc = "settle"
  /\ MarkAmbiguous(IdOf(t), thread[t].attempt)
  /\ Finish(t, "inference_timeout")
  /\ UNCHANGED <<clock, up, key, lane, calls, delivered>>

\* Faulty: the event is not set.
NotWoken(call) == call

\* A waiter waits for the Event of the attempt that holds the lane: setting it wakes
\* every waiter.
Woken(call) == IF call.pc = "wait" THEN [call EXCEPT !.pc = "reload", !.deadline = 0] ELSE call

ReleaseLane(t) ==
  /\ thread[t].pc = "release"
  /\ lane' = None
  /\ thread' = [u \in Threads |-> IF u = t THEN Idle ELSE Woken(thread[u])]
  /\ UNCHANGED <<rows, clock, up, key, calls, delivered>>

-----------------------------------------------------------------------------------
(* Acknowledgement, maintenance, faults, crashes and time.                         *)

AcknowledgeCall(c, id, disposition) ==
  /\ up
  /\ \E at \in Recent : Acknowledge(c, id, disposition, at)
  /\ UNCHANGED <<clock, up, key, lane, thread, calls, delivered>>

\* _run_maintenance samples the clock before the sweep is queued for a pool thread,
\* and a pool full of waiters may hold it back for long: any earlier sample.
Sweep(at) ==
  /\ up
  /\ at <= clock
  /\ Maintain(at)
  /\ UNCHANGED <<clock, up, key, lane, thread, calls, delivered>>

\* sqlite3.Error is no StoreError: no handler of infer() catches it, only the finally
\* clause runs.  The transaction is rolled back.
StoreFault(t) ==
  /\ StoreFaults
  /\ \/ thread[t].pc \in {"mark", "worker", "collect", "settle"}
     \/ thread[t].pc = "dispatch" /\ thread[t].document.expires_at <= clock
     \/ thread[t].pc = "reload"
  /\ IF thread[t].pc = "reload" THEN Return(t) ELSE Finish(t, "internal_error")
  /\ UNCHANGED <<rows, clock, up, key, lane, calls, delivered>>

\* A worker that was called goes on: calls is not reset.
Crash ==
  /\ up
  /\ up' = FALSE
  /\ lane' = None
  /\ thread' = [t \in Threads |-> Idle]
  /\ UNCHANGED <<rows, clock, key, calls, delivered>>

Restart ==
  /\ ~up
  /\ up' = TRUE
  /\ key' \in Keys
  /\ Initialize(clock)
  /\ UNCHANGED <<clock, lane, thread, calls, delivered>>

Tick ==
  /\ clock < MaxTime
  /\ clock' = clock + 1
  /\ UNCHANGED <<rows, up, key, lane, thread, calls, delivered>>

WorkerReturns(t) ==
  \/ CallRefused(t)
  \/ CallLost(t)
  \/ CallInvalid(t)
  \/ \E x \in Contents : CallAnswered(t, x)

ThreadStep(t) ==
  \/ ClaimLane(t) \/ JoinActive(t) \/ Reload(t) \/ Answer(t)
  \/ Mark(t) \/ Dispatch(t) \/ WorkerReturns(t) \/ Collect(t)
  \/ MarkUnsettled(t) \/ ReleaseLane(t)

ServiceNext ==
  \/ \E t \in Threads : \/ \E c \in Credentials, d \in Documents : Infer(t, c, d)
                        \/ ThreadStep(t)
                        \/ WaitTimeout(t)
                        \/ StoreFault(t)
  \/ \E c \in Credentials, id \in RequestIds, s \in Dispositions : AcknowledgeCall(c, id, s)
  \/ \E at \in Seconds : Sweep(at)
  \/ Crash
  \/ Restart
  \/ Tick

ServiceSpec == ServiceInit /\ [][ServiceNext]_vars

\* A pool thread runs on, a worker call ends (asyncio.timeout bounds it), the service
\* manager restarts the process, and the maintenance loop comes round again with a
\* fresh sample however often the process crashes.  Neither time, nor a timeout, nor
\* a client's call is fair.
Fairness ==
  /\ \A t \in Threads : WF_vars(ThreadStep(t))
  /\ WF_vars(Restart)
  /\ SF_vars(Sweep(clock))

LiveServiceSpec == ServiceSpec /\ Fairness

-----------------------------------------------------------------------------------
(* What the process promises.                                                      *)

\* The shape of every variable.
ServiceTypeOK ==
  /\ clock \in Seconds
  /\ up \in BOOLEAN
  /\ key \in Keys
  /\ lane \in RequestIds \cup {None}
  /\ thread \in [Threads -> Call \cup {Idle}]
  /\ calls \in [Documents -> Int]
  /\ delivered \subseteq Delivery

\* _active is held by exactly one call at a time, for the request of that call, and is
\* never left behind when the call is gone (the finally clause of infer()).
SingleOwner ==
  /\ \A t \in Threads : Owner(t) => lane = IdOf(t)
  /\ \A t, u \in Threads : Owner(t) /\ Owner(u) => t = u
  /\ lane # None => \E t \in Threads : Owner(t)

\* No lost wakeup: a call that waits, waits for the attempt that holds the lane, which
\* will set its event, and that attempt is for the same request.
WaiterHasOwner ==
  \A t \in Threads : thread[t].pc = "wait" => lane = IdOf(t)

\* No orphan: while SQLite works, a row in progress in a running process has a call
\* at work on it, under the attempt identity in the row.
InProgressHasOwner ==
  (up /\ ~StoreFaults) =>
    \A id \in RequestIds : rows[id].state = "in_progress" =>
      \E t \in Threads : /\ thread[t].pc \in {"dispatch", "worker"}
                          /\ thread[t].attempt = rows[id].attempt
                          /\ thread[t].document = rows[id].document

\* When an owner is about to answer, its attempt holds no row any more, on any path that
\* leads there.  The StoreError handler of infer() never finds one either: a StoreError is
\* raised only where the row was never marked or has moved on.
AttemptSettled ==
  \A t \in Threads :
    \/ thread[t].pc = "settle"
    \/ thread[t].pc = "release" /\ thread[t].reply # "internal_error"
    => ~OwnsAttempt(rows[IdOf(t)], thread[t].attempt)

\* At most one submission of a document can ever have been admitted by a worker: through
\* repeats, lost outcomes, crashes, key changes, acknowledgement and the deletion of
\* its tombstone.
AtMostOneCall ==
  \A d \in Documents : calls[d] \in {0, 1}

\* worker_unavailable tells the client to submit the same request again.  Whoever arrives
\* at it, the owner whose call was refused or a waiter that finds the row reserved, no
\* worker may have the request then; for the owner that holds until it lets go of the lane.
\* A waiter holds nothing: before its client is told, another call may have submitted the
\* request, which is why a repeat must be safe in any case (AtMostOneCall).
UnavailableMeansUncalled ==
  [][\A t \in Threads :
       (thread'[t].reply = "worker_unavailable" /\ thread[t].pc # "answer") =>
         calls'[thread'[t].document] = 0]_vars

\* A document has one result, and one credential that ever sees it.
OneResultPerDocument ==
  \A x, y \in delivered : x.document = y.document => x = y

\* A client whose attempt ends in inference_timeout finds no finished result of its own: an
\* exact repeat joins the attempt at work or replays what it produced.
RepeatJoinsOrReplays ==
  \A t \in Threads : thread[t].pc = "release" /\ thread[t].reply = "inference_timeout" =>
    LET row == rows[IdOf(t)]
    IN  ~(/\ Readable(row)
          /\ row.document = thread[t].document
          /\ row.credential = thread[t].credential)

\* A tombstone stays, as it is, for the whole retention: the identity it guards cannot
\* be used again before.
TombstoneKept ==
  [][\A id \in RequestIds :
       (rows[id].state \in Tombstones /\ rows'[id] # rows[id]) =>
         clock > rows[id].closed_at + Retention]_vars

\* A request is not expired before the clock shows its expires_at, whatever sample the
\* transaction was handed.
NothingExpiresEarly ==
  [][\A id \in RequestIds :
       (rows[id].state \notin {"expired", "absent"} /\ rows'[id].state = "expired") =>
         clock >= rows[id].document.expires_at]_vars

\* Every call returns, woken by the attempt it waits for and not only by its timeout.
CallsReturn ==
  \A t \in Threads : thread[t].pc # "idle" ~> thread[t].pc = "idle"

\* A ciphertext is removed once its request has expired, though no client calls again
\* and the process may crash: the maintenance loop, or a restart, removes it.
SealedResultsRemoved ==
  \A id \in RequestIds :
    (rows[id].output # None /\ clock >= rows[id].document.expires_at) ~>
      (rows[id].output = None)

-----------------------------------------------------------------------------------
(* GatewayService implements InferencePromise.                                     *)

Calling == {thread[t].document : t \in {u \in Threads : thread[u].pc = "worker"}}

Promise ==
  INSTANCE InferencePromise WITH
    calling <- IF Calling = {} THEN None ELSE CHOOSE d \in Calling : TRUE,
    spent   <- {d \in Documents : calls[d] > 0} \ Calling,
    answers <- delivered

\* Threads, lane, transactions, expiry, tombstones, crashes and restarts together keep
\* the promise of InferencePromise: each step of the process is one step of it or none.
PromiseKept == Promise!PromiseSpec
===================================================================================
