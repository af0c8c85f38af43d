-------------------------------- MODULE GatewayEdge -------------------------------
(***********************************************************************************)
(* The HTTP edge of the gateway (create_app of app.py) with the credentials it reads *)
(* (config.py): who is let in, how a body is read, which request an answer names, and *)
(* the pool of threads that the calls into GatewayService, the probes and the          *)
(* maintenance sweeps share.                                                        *)
(*                                                                                 *)
(* The two POST handlers run on the event loop and go to a thread for the service     *)
(* call only; the three GET handlers run in a thread as a whole.  What a call does in *)
(* its thread is reduced to how long it keeps it: it owns the lane, waits for the      *)
(* owner, or answers at once (module GatewayService has the rest).                    *)
(***********************************************************************************)
EXTENDS Integers, Sequences, FiniteSets, SequencesExt

CONSTANTS
  Exchanges,        \* BOUND: the exchanges clients have open at one time
  Pool,             \* threads of the pool
  Limit,            \* settings.request_max_bytes
  MaxChunk,         \* BOUND: the largest piece of a body that arrives at once
  CredentialFiles,  \* sequences of [id, token]: credential files an operator writes
  Tokens,           \* tokens of the form a token must have
  RequestIds,       \* UUIDv4 texts
  None, Unsafe      \* no value; anything else in the place of a request id

ASSUME EdgeAssumption ==
  /\ Pool \in Nat \ {0} /\ Limit \in Nat \ {0}
  /\ {None, Unsafe} \cap RequestIds = {}

VARIABLES
  credentials,  \* what CredentialStore.from_file read when the process started
  exchange,     \* each exchange's place in its handler
  queue,        \* who waits for a thread, first come first served
  sweep,        \* where _run_maintenance is
  lane          \* the request that holds the lane, or None
vars == <<credentials, exchange, queue, sweep, lane>>

GetRoutes == {"live", "scoped"}   \* scoped: health and task_profile
InThread == {"running", "owner", "waiting", "woken"}

\* `id` is the request a call is about, `named` every id the client gave for it.
Quiet == [phase |-> "quiet", route |-> None, id |-> None, named |-> {}, got |-> 0]

-----------------------------------------------------------------------------------
(* Credentials.                                                                    *)

\* The file from_file accepts: no identity and no token digest twice.
Usable(entries) ==
  /\ Len(entries) > 0
  /\ IsInjective([i \in DOMAIN entries |-> entries[i].id])
  /\ IsInjective([i \in DOMAIN entries |-> entries[i].token])

\* authenticate: all entries are compared, the last match counts.
Authenticate(token) ==
  LET matches == {i \in DOMAIN credentials : credentials[i].token = token}
  IN  IF matches = {} THEN None ELSE credentials[Max(matches)].id

-----------------------------------------------------------------------------------
(* Answers.                                                                        *)

Put(e, call) == exchange' = [exchange EXCEPT ![e] = call]

\* An answer, of the service or of the handler, names call.id.
Answered(call) == [Quiet EXCEPT !.phase = "answered", !.id = call.id, !.named = call.named]

Enqueue(e, call) ==
  /\ Put(e, [call EXCEPT !.phase = "queued", !.got = 0])
  /\ queue' = Append(queue, e)

\* Faulty: any text is taken.
TakenAsIs(value) == value

\* safe_request_id.
SafeRequestId(value) == IF value \in RequestIds THEN value ELSE None

-----------------------------------------------------------------------------------
(* A handler on the event loop.                                                     *)

EdgeInit ==
  /\ credentials \in {entries \in CredentialFiles : Usable(entries)}
  /\ exchange = [e \in Exchanges |-> Quiet]
  /\ queue = <<>> /\ sweep = "sleeping" /\ lane = None

\* A GET goes to a thread before it is authenticated.
ArriveGet(e, route) ==
  /\ exchange[e] = Quiet
  /\ Enqueue(e, [Quiet EXCEPT !.route = route])
  /\ UNCHANGED <<credentials, sweep, lane>>

\* token None: no Bearer header, or no token of the required form.  plain: no content
\* encoding, and application/json.
ArriveInference(e, token, plain) ==
  LET call == [Quiet EXCEPT !.route = "inference"]
  IN  /\ exchange[e] = Quiet
      /\ Put(e, IF Authenticate(token) # None /\ plain THEN [call EXCEPT !.phase = "reading"]
                                                       ELSE Answered(call))
      /\ UNCHANGED <<credentials, queue, sweep, lane>>

\* path: the request the acknowledgement is posted to.
ArriveAcknowledge(e, token, path, plain) ==
  LET call == [Quiet EXCEPT !.route = "acknowledge", !.id = SafeRequestId(path),
                            !.named = {path}]
  IN  /\ exchange[e] = Quiet
      /\ Put(e, CASE Authenticate(token) = None -> Answered(Quiet)
                  [] call.id # None /\ plain -> [call EXCEPT !.phase = "reading"]
                  [] OTHER -> Answered(call))
      /\ UNCHANGED <<credentials, queue, sweep, lane>>

\* _bounded_document, for one piece of the body.
Read(e, n) ==
  /\ exchange[e].phase = "reading"
  /\ Put(e, IF n > Limit - exchange[e].got THEN Answered(exchange[e])
                                           ELSE [exchange[e] EXCEPT !.got = @ + n])
  /\ UNCHANGED <<credentials, queue, sweep, lane>>

\* The client goes away before its body ends: the exception leaves the handler.
Disconnect(e) ==
  /\ exchange[e].phase = "reading"
  /\ Put(e, Quiet)
  /\ UNCHANGED <<credentials, queue, sweep, lane>>

\* The body is complete: no JSON object, or one with `value` for its request_id that is
\* `valid` as a request or not.
BodyEnds(e, json, value, valid) ==
  LET read == [exchange[e] EXCEPT !.named = IF json THEN @ \cup {value} ELSE @]
      call == IF json /\ read.route = "inference"
              THEN [read EXCEPT !.id = SafeRequestId(value)] ELSE read
  IN  /\ call.phase = "reading"
      /\ valid => json /\ value \in RequestIds
      /\ IF valid /\ value = call.id
         THEN Enqueue(e, call)
         ELSE Put(e, Answered(call)) /\ UNCHANGED queue
      /\ UNCHANGED <<credentials, sweep, lane>>

-----------------------------------------------------------------------------------
(* The pool.                                                                       *)

Busy ==
  Cardinality({e \in Exchanges : exchange[e].phase \in InThread})
    + (IF sweep = "running" THEN 1 ELSE 0)

\* External: a thread is free for whoever has waited longest.
Start ==
  /\ queue # <<>> /\ Busy < Pool
  /\ queue' = Tail(queue)
  /\ IF Head(queue) = "sweep"
     THEN sweep' = "running" /\ UNCHANGED exchange
     ELSE /\ exchange' = [exchange EXCEPT ![Head(queue)].phase = "running"]
          /\ UNCHANGED sweep
  /\ UNCHANGED <<credentials, lane>>

\* A probe, an acknowledgement, or a call of infer() that is refused or finds an answer.
AnswerAtOnce(e) ==
  /\ exchange[e].phase \in {"running", "woken"}
  /\ Put(e, Answered(exchange[e]))
  /\ UNCHANGED <<credentials, queue, sweep, lane>>

\* infer() finds its request reserved: it gets the lane, or waits for who has it; a lane
\* that holds another request is one more refusal.
JoinLane(e) ==
  LET call == exchange[e]
  IN  /\ call.phase = "running" /\ call.route = "inference"
      /\ \/ /\ lane = None /\ lane' = call.id
            /\ Put(e, [call EXCEPT !.phase = "owner"])
         \/ /\ lane = call.id /\ UNCHANGED lane
            /\ Put(e, [call EXCEPT !.phase = "waiting"])
      /\ UNCHANGED <<credentials, queue, sweep>>

\* Faulty: the lane is free again, the event is not set.
WorkerEndsUnheard(e) ==
  /\ exchange[e].phase = "owner"
  /\ lane' = None
  /\ Put(e, Answered(exchange[e]))
  /\ UNCHANGED <<credentials, queue, sweep>>

\* _release_lane wakes every waiter.
WorkerEnds(e) ==
  /\ exchange[e].phase = "owner"
  /\ lane' = None
  /\ exchange' = [f \in Exchanges |->
       CASE f = e -> Answered(exchange[f])
         [] exchange[f].phase = "waiting" -> [exchange[f] EXCEPT !.phase = "woken"]
         [] OTHER -> exchange[f]]
  /\ UNCHANGED <<credentials, queue, sweep>>

WaitTimeout(e) ==
  /\ exchange[e].phase = "waiting"
  /\ Put(e, Answered(exchange[e]))
  /\ UNCHANGED <<credentials, queue, sweep, lane>>

\* External: the client has its answer and may come again.
Leave(e) ==
  /\ exchange[e].phase = "answered"
  /\ Put(e, Quiet)
  /\ UNCHANGED <<credentials, queue, sweep, lane>>

\* _run_maintenance: asyncio.sleep, then a thread for the sweep.
SweepDue ==
  /\ sweep = "sleeping" /\ sweep' = "queued"
  /\ queue' = Append(queue, "sweep")
  /\ UNCHANGED <<credentials, exchange, lane>>

\* Faulty: a sweep that fails ends the loop.
SweepEndsTheLoop ==
  /\ sweep = "running" /\ sweep' \in {"sleeping", "ended"}
  /\ UNCHANGED <<credentials, exchange, queue, lane>>

\* A sweep that fails is followed by the next one all the same.
SweepEnds ==
  /\ sweep = "running" /\ sweep' = "sleeping"
  /\ UNCHANGED <<credentials, exchange, queue, lane>>

Arrive(e) ==
  \/ \E route \in GetRoutes : ArriveGet(e, route)
  \/ \E token \in Tokens \cup {None}, plain \in BOOLEAN :
       \/ ArriveInference(e, token, plain)
       \/ \E path \in RequestIds \cup {Unsafe} : ArriveAcknowledge(e, token, path, plain)

ReadBody(e) ==
  \/ \E n \in 1..MaxChunk : Read(e, n)
  \/ \E json, valid \in BOOLEAN, value \in RequestIds \cup {Unsafe} :
       BodyEnds(e, json, value, valid)
  \/ Disconnect(e)

ThreadStep(e) == AnswerAtOnce(e) \/ JoinLane(e) \/ WorkerEnds(e)

EdgeNext ==
  \/ \E e \in Exchanges : Arrive(e) \/ ReadBody(e) \/ ThreadStep(e) \/ WaitTimeout(e) \/ Leave(e)
  \/ Start \/ SweepDue \/ SweepEnds

EdgeSpec == EdgeInit /\ [][EdgeNext]_vars

\* Threads run on and a worker call ends.  Clients need not come, finish what they send,
\* or leave; a waiter's timeout need not help.
EdgeFairness ==
  /\ WF_vars(Start) /\ WF_vars(SweepDue) /\ WF_vars(SweepEnds)
  /\ \A e \in Exchanges : WF_vars(ThreadStep(e))

LiveEdgeSpec == EdgeSpec /\ EdgeFairness

-----------------------------------------------------------------------------------
(* Properties.                                                                     *)

\* An answer names no request but one the client named, and only by a text of the form of
\* a request id; the service acts on a request only where path and body agree on it.
AnswersNameTheirRequest ==
  \A e \in Exchanges :
    LET call == exchange[e]
    IN  /\ call.id # None => call.id \in call.named \cap RequestIds
        /\ call.phase \in InThread /\ call.route \notin GetRoutes => call.named = {call.id}

\* Whoever waits for a thread is answered, though every thread may be taken by calls that
\* wait for one owner: the owner has its thread already (run_in_threadpool, _release_lane).
QueuedAnswered ==
  \A e \in Exchanges : exchange[e].phase = "queued" ~> exchange[e].phase = "answered"

\* Clients that come again and again do not keep the maintenance sweep from a thread.
SweepsRun == []<>(sweep = "running")
===================================================================================
