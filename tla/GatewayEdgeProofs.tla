------------------------------ MODULE GatewayEdgeProofs -----------------------------
(***********************************************************************************)
(* A theorem of GatewayEdge: which request an answer names, for every number of       *)
(* exchanges and threads, and every order in which bodies, threads and sweeps come.   *)
(***********************************************************************************)
EXTENDS GatewayEdge, TLAPS

Phases == {"quiet", "reading", "queued", "answered"} \cup InThread

\* A body is not read past the limit.
Calls == [phase : Phases,
          route : GetRoutes \cup {"inference", "acknowledge", None},
          id    : RequestIds \cup {None},
          named : SUBSET (RequestIds \cup {Unsafe}),
          got   : 0..Limit]

\* What a handler knows before its body has ended: an inference names nothing yet, an
\* acknowledgement is about its path.  What waits for a thread, or has one, is about the one
\* request that was named.
CallGood(call) ==
  /\ call \in Calls
  /\ call.id # None => call.id \in call.named
  /\ call.phase = "reading" =>
       \/ call.route = "inference" /\ call.id = None /\ call.named = {}
       \/ call.route = "acknowledge" /\ call.id # None /\ call.named = {call.id}
  /\ call.phase \in InThread \cup {"queued"} /\ call.route \notin GetRoutes =>
       call.named = {call.id}

\* Whoever waits for a thread waits once.
QueueGood ==
  /\ queue \in Seq(Exchanges \cup {"sweep"})
  /\ \A i \in 1..Len(queue) : queue[i] # "sweep" =>
       /\ exchange[queue[i]].phase = "queued"
       /\ \A j \in 1..Len(queue) : queue[j] = queue[i] => j = i

EdgeInv ==
  /\ exchange \in [Exchanges -> Calls]
  /\ \A e \in Exchanges : CallGood(exchange[e])
  /\ QueueGood

-----------------------------------------------------------------------------------
(* Calls.                                                                          *)

\* The exchange of nobody.
LEMMA QuietIsGood == CallGood(Quiet)
<1>1. Limit \in Nat /\ None \notin RequestIds
  BY EdgeAssumption
<1> QED
  BY <1>1 DEF CallGood, Calls, Quiet, Phases, InThread, GetRoutes

\* An answer to a call that names what it is about.
LEMMA AnsweredIsGood ==
  ASSUME NEW call, call.id \in RequestIds \cup {None},
         call.named \subseteq RequestIds \cup {Unsafe},
         call.id # None => call.id \in call.named
  PROVE  CallGood(Answered(call)) /\ Answered(call).phase = "answered"
<1> DEFINE answer == Answered(call)
<1>1. Quiet \in Calls /\ "answered" \in Phases
  BY QuietIsGood DEF CallGood, Phases
<1>2. answer \in Calls
  BY <1>1 DEF Calls, Answered
<1>3. answer.phase = "answered" /\ answer.id = call.id /\ answer.named = call.named
  BY <1>1 DEF Calls, Answered
<1> QED
  BY <1>2, <1>3 DEF CallGood, InThread

\* A call of an exchange names what it is about.
LEMMA CallsName ==
  ASSUME NEW call, CallGood(call)
  PROVE  /\ call.id \in RequestIds \cup {None}
         /\ call.named \subseteq RequestIds \cup {Unsafe}
         /\ call.id # None => call.id \in call.named
         /\ call.phase \in Phases /\ call.got \in 0..Limit
BY DEF CallGood, Calls

\* safe_request_id returns a request id it was given, or nothing.
LEMMA SafeIsSafe ==
  ASSUME NEW value
  PROVE  /\ SafeRequestId(value) \in RequestIds \cup {None}
         /\ SafeRequestId(value) # None =>
              SafeRequestId(value) = value /\ value \in RequestIds
BY DEF SafeRequestId

-----------------------------------------------------------------------------------
(* Moves.                                                                          *)

\* An exchange that is not in line is given a good call.
LEMMA PutKeeps ==
  ASSUME EdgeInv, NEW e \in Exchanges, exchange[e].phase # "queued", NEW call, CallGood(call),
         Put(e, call), queue' = queue
  PROVE  EdgeInv'
<1>1. exchange' = [exchange EXCEPT ![e] = call] /\ call \in Calls
  BY DEF Put, CallGood
<1>2. /\ exchange' \in [Exchanges -> Calls]
      /\ \A f \in Exchanges : exchange'[f] = IF f = e THEN call ELSE exchange[f]
  BY <1>1 DEF EdgeInv
<1>3. \A f \in Exchanges : CallGood(exchange'[f])
  BY <1>2 DEF EdgeInv
<1>4. QueueGood'
  <2>1. \A i \in 1..Len(queue) : queue[i] # "sweep" => queue[i] \in Exchanges /\ queue[i] # e
    BY DEF EdgeInv, QueueGood
  <2> QED
    BY <1>2, <2>1 DEF EdgeInv, QueueGood
<1> QED
  BY <1>2, <1>3, <1>4 DEF EdgeInv

\* Or it is put in line, with a call about what it names.
LEMMA EnqueueKeeps ==
  ASSUME EdgeInv, NEW e \in Exchanges, exchange[e].phase # "queued", NEW call \in Calls,
         call.id # None => call.id \in call.named,
         call.route \notin GetRoutes => call.named = {call.id},
         Enqueue(e, call)
  PROVE  EdgeInv'
<1> DEFINE waiting == [call EXCEPT !.phase = "queued", !.got = 0]
<1>1. waiting \in Calls /\ waiting.phase = "queued" /\ CallGood(waiting)
  <2>1. "queued" \in Phases /\ 0 \in 0..Limit
    BY EdgeAssumption DEF Phases
  <2>2. /\ waiting.phase = "queued" /\ waiting.id = call.id /\ waiting.named = call.named
        /\ waiting.route = call.route
    BY DEF Calls
  <2>3. waiting \in Calls
    BY <2>1 DEF Calls
  <2> QED
    BY <2>2, <2>3 DEF CallGood
<1> HIDE DEF waiting
<1>2. exchange' = [exchange EXCEPT ![e] = waiting] /\ queue' = Append(queue, e)
  BY DEF Enqueue, Put, waiting
<1>3. /\ exchange' \in [Exchanges -> Calls]
      /\ \A f \in Exchanges : exchange'[f] = IF f = e THEN waiting ELSE exchange[f]
  BY <1>1, <1>2 DEF EdgeInv
<1>4. \A f \in Exchanges : CallGood(exchange'[f])
  BY <1>1, <1>3 DEF EdgeInv
<1>5. QueueGood'
  <2>1. queue \in Seq(Exchanges \cup {"sweep"})
    BY DEF EdgeInv, QueueGood
  <2>2. \A i \in 1..Len(queue) : queue[i] # "sweep" => queue[i] \in Exchanges /\ queue[i] # e
    BY DEF EdgeInv, QueueGood
  <2>3. /\ queue' \in Seq(Exchanges \cup {"sweep"})
        /\ Len(queue') = Len(queue) + 1
        /\ \A i \in 1..Len(queue) : queue'[i] = queue[i]
        /\ queue'[Len(queue) + 1] = e
    BY <1>2, <2>1
  <2>4. ASSUME NEW i \in 1..Len(queue'), queue'[i] # "sweep"
        PROVE  /\ exchange'[queue'[i]].phase = "queued"
               /\ \A j \in 1..Len(queue') : queue'[j] = queue'[i] => j = i
    <3>1. CASE i = Len(queue) + 1
      <4>1. \A j \in 1..Len(queue) : queue'[j] # e
        BY <2>2, <2>3, <2>4, <3>1
      <4>2. \A j \in 1..Len(queue') : j \in 1..Len(queue) \/ j = i
        BY <2>1, <2>3, <3>1
      <4> QED
        BY <1>1, <1>3, <2>3, <3>1, <4>1, <4>2
    <3>2. CASE i # Len(queue) + 1
      <4>1. i \in 1..Len(queue)
        BY <2>1, <2>3, <3>2
      <4>2. queue'[i] = queue[i] /\ queue[i] \in Exchanges /\ queue[i] # e
        BY <2>2, <2>3, <2>4, <4>1
      <4>3. \A j \in 1..Len(queue) : queue'[j] = queue'[i] => j = i
        BY <2>3, <2>4, <4>1, <4>2 DEF EdgeInv, QueueGood
      <4>4. \A j \in 1..Len(queue') : j \in 1..Len(queue) \/ queue'[j] = e
        BY <2>1, <2>3
      <4>5. exchange'[queue'[i]].phase = "queued"
        BY <1>3, <2>4, <4>1, <4>2 DEF EdgeInv, QueueGood
      <4> QED
        BY <4>2, <4>3, <4>4, <4>5
    <3> QED
      BY <3>1, <3>2
  <2> QED
    BY <2>3, <2>4 DEF QueueGood
<1> QED
  BY <1>3, <1>4, <1>5 DEF EdgeInv

-----------------------------------------------------------------------------------
(* Steps.                                                                          *)

\* A client comes.
LEMMA ArriveKeeps ==
  ASSUME EdgeInv, NEW e \in Exchanges, Arrive(e)
  PROVE  EdgeInv'
<1>1. exchange[e] = Quiet
  BY DEF Arrive, ArriveGet, ArriveInference, ArriveAcknowledge
<1>2. exchange[e].phase # "queued" /\ Quiet \in Calls /\ None \notin RequestIds
  BY <1>1, QuietIsGood, EdgeAssumption DEF Quiet, CallGood
<1>3. ASSUME NEW route \in GetRoutes, ArriveGet(e, route)
      PROVE  EdgeInv'
  <2> DEFINE call == [Quiet EXCEPT !.route = route]
  <2>1. call \in Calls /\ call.id = None /\ call.route \in GetRoutes
    BY <1>2 DEF Calls, Quiet
  <2>2. Enqueue(e, call)
    BY <1>3 DEF ArriveGet
  <2> HIDE DEF call
  <2> QED
    BY <1>2, <2>1, <2>2, EnqueueKeeps
<1>4. ASSUME NEW token, NEW plain, ArriveInference(e, token, plain)
      PROVE  EdgeInv'
  <2> DEFINE call == [Quiet EXCEPT !.route = "inference"]
             reading == [call EXCEPT !.phase = "reading"]
  <2>1. call.id = None /\ call.named = {}
    BY DEF Quiet
  <2>2. CallGood(Answered(call))
    BY <2>1, AnsweredIsGood
  <2>3. CallGood(reading)
    <3>1. /\ reading.phase = "reading" /\ reading.route = "inference"
          /\ reading.id = None /\ reading.named = {}
      BY DEF Quiet
    <3>2. "reading" \in Phases
      BY DEF Phases
    <3>3. reading \in Calls
      BY <1>2, <3>2 DEF Calls, Quiet
    <3> QED
      BY <3>1, <3>3 DEF CallGood, InThread
  <2>4. (Put(e, reading) \/ Put(e, Answered(call))) /\ queue' = queue
    BY <1>4 DEF ArriveInference
  <2> HIDE DEF call, reading
  <2> QED
    BY <1>2, <2>2, <2>3, <2>4, PutKeeps
<1>5. ASSUME NEW token, NEW path \in RequestIds \cup {Unsafe}, NEW plain,
             ArriveAcknowledge(e, token, path, plain)
      PROVE  EdgeInv'
  <2> DEFINE call == [Quiet EXCEPT !.route = "acknowledge", !.id = SafeRequestId(path),
                                   !.named = {path}]
             reading == [call EXCEPT !.phase = "reading"]
  <2>1. call.id = SafeRequestId(path) /\ call.named = {path}
    BY DEF Quiet
  <2>2. CallGood(Answered(call)) /\ CallGood(Answered(Quiet))
    <3>1. CallGood(Answered(call))
      BY <2>1, SafeIsSafe, AnsweredIsGood
    <3>2. CallGood(Answered(Quiet))
      BY QuietIsGood, CallsName, AnsweredIsGood
    <3> QED
      BY <3>1, <3>2
  <2>3. ASSUME call.id # None
        PROVE  CallGood(reading)
    <3>1. /\ reading.phase = "reading" /\ reading.route = "acknowledge"
          /\ reading.id = call.id /\ reading.named = {path}
      BY DEF Quiet
    <3>2. call.id = path /\ path \in RequestIds
      BY <2>1, <2>3, SafeIsSafe
    <3>3. "reading" \in Phases
      BY DEF Phases
    <3>4. reading \in Calls
      BY <1>2, <2>1, <3>2, <3>3 DEF Calls, Quiet
    <3> QED
      BY <2>3, <3>1, <3>2, <3>4 DEF CallGood, InThread
  <2>4. /\ \/ Put(e, Answered(Quiet)) \/ Put(e, Answered(call))
           \/ call.id # None /\ Put(e, reading)
        /\ queue' = queue
    BY <1>5 DEF ArriveAcknowledge
  <2> HIDE DEF call, reading
  <2> QED
    BY <1>2, <2>2, <2>3, <2>4, PutKeeps
<1> QED
  BY <1>3, <1>4, <1>5 DEF Arrive

\* A piece of the body comes, or its end, or the client goes away.
LEMMA ReadBodyKeeps ==
  ASSUME EdgeInv, NEW e \in Exchanges, ReadBody(e)
  PROVE  EdgeInv'
<1> DEFINE now == exchange[e]
<1>1. CallGood(now) /\ now \in Calls /\ None \notin RequestIds
  BY EdgeAssumption DEF EdgeInv
<1>2. now.phase = "reading"
  <2>1. ASSUME NEW json, NEW value, NEW valid, BodyEnds(e, json, value, valid)
        PROVE  now.phase = "reading"
    BY <1>1, <2>1 DEF BodyEnds, Calls
  <2> QED
    BY <2>1 DEF ReadBody, Read, Disconnect
<1>3. CASE Disconnect(e)
  BY <1>2, <1>3, QuietIsGood, PutKeeps DEF Disconnect
<1>4. ASSUME NEW n \in 1..MaxChunk, Read(e, n)
      PROVE  EdgeInv'
  <2>1. CallGood(Answered(now))
    BY <1>1, CallsName, AnsweredIsGood
  <2>2. CASE n > Limit - now.got
    BY <1>2, <1>4, <2>1, <2>2, PutKeeps DEF Read
  <2>3. CASE ~(n > Limit - now.got)
    <3> DEFINE next == [now EXCEPT !.got = @ + n]
    <3>1. now.got + n \in 0..Limit
      BY <1>1, <2>3, EdgeAssumption, CallsName
    <3>2. next \in Calls
      BY <1>1, <3>1 DEF Calls
    <3>3. /\ next.phase = now.phase /\ next.route = now.route /\ next.id = now.id
          /\ next.named = now.named
      BY <1>1 DEF Calls
    <3>4. CallGood(next)
      BY <1>1, <3>2, <3>3 DEF CallGood
    <3>5. Put(e, next) /\ queue' = queue
      BY <1>4, <2>3 DEF Read
    <3> HIDE DEF next
    <3> QED
      BY <1>2, <3>4, <3>5, PutKeeps
  <2> QED
    BY <2>2, <2>3
<1>5. ASSUME NEW json \in BOOLEAN, NEW valid \in BOOLEAN,
             NEW value \in RequestIds \cup {Unsafe}, BodyEnds(e, json, value, valid)
      PROVE  EdgeInv'
  <2> DEFINE read == [now EXCEPT !.named = IF json THEN @ \cup {value} ELSE @]
             call == IF json /\ read.route = "inference"
                     THEN [read EXCEPT !.id = SafeRequestId(value)] ELSE read
  <2>1. /\ read \in Calls /\ read.id = now.id /\ read.route = now.route
        /\ read.named = IF json THEN now.named \cup {value} ELSE now.named
    BY <1>1 DEF Calls
  <2>2. /\ call \in Calls /\ call.route = now.route /\ call.named = read.named
        /\ call.id = IF json /\ now.route = "inference" THEN SafeRequestId(value) ELSE now.id
    BY <2>1, SafeIsSafe DEF Calls
  <2>3. /\ \/ now.route = "inference" /\ now.id = None /\ now.named = {}
           \/ now.route = "acknowledge" /\ now.id # None /\ now.named = {now.id}
    BY <1>1, <1>2 DEF CallGood
  <2>4. call.id # None => call.id \in call.named
    BY <2>1, <2>2, <2>3, SafeIsSafe
  <2>5. CASE valid /\ value = call.id
    <3>1. Enqueue(e, call) /\ json
      BY <1>5, <2>5 DEF BodyEnds
    <3>2. call.named = {call.id}
      BY <2>1, <2>2, <2>3, <2>5, <3>1
    <3> HIDE DEF call
    <3> QED
      BY <1>2, <2>2, <2>4, <3>1, <3>2, EnqueueKeeps
  <2>6. CASE ~(valid /\ value = call.id)
    <3>1. Put(e, Answered(call)) /\ queue' = queue
      BY <1>5, <2>6 DEF BodyEnds
    <3>2. /\ call.id \in RequestIds \cup {None}
          /\ call.named \subseteq RequestIds \cup {Unsafe}
      BY <2>2 DEF Calls
    <3> HIDE DEF call
    <3>3. CallGood(Answered(call))
      BY <2>4, <3>2, AnsweredIsGood
    <3> QED
      BY <1>2, <3>1, <3>3, PutKeeps
  <2> QED
    BY <2>5, <2>6
<1> QED
  BY <1>3, <1>4, <1>5 DEF ReadBody

\* A call that goes on in its thread is about the same request.
LEMMA ThreadMoveIsGood ==
  ASSUME NEW call, CallGood(call), call.phase \in InThread \cup {"queued"},
         NEW phase \in InThread
  PROVE  CallGood([call EXCEPT !.phase = phase])
<1> DEFINE next == [call EXCEPT !.phase = phase]
<1>1. call \in Calls /\ phase \in Phases
  BY DEF CallGood, Phases
<1>2. /\ next.phase = phase /\ next.route = call.route /\ next.id = call.id
      /\ next.named = call.named /\ next \in Calls
  BY <1>1 DEF Calls
<1> QED
  BY <1>2 DEF CallGood, InThread

\* A thread becomes free.
LEMMA StartKeeps ==
  ASSUME EdgeInv, Start
  PROVE  EdgeInv'
<1>1. /\ queue \in Seq(Exchanges \cup {"sweep"}) /\ queue # <<>> /\ queue' = Tail(queue)
  BY DEF EdgeInv, QueueGood, Start
<1>2. /\ Len(queue) \in Nat \ {0} /\ Head(queue) = queue[1]
      /\ queue' \in Seq(Exchanges \cup {"sweep"})
      /\ Len(queue') = Len(queue) - 1
      /\ \A i \in 1..Len(queue') : queue'[i] = queue[i + 1]
      /\ \A i \in 1..Len(queue') : i + 1 \in 1..Len(queue) /\ i + 1 # 1
      /\ \A i, j \in 1..Len(queue') : i + 1 = j + 1 => i = j
  BY <1>1
<1>3. CASE Head(queue) = "sweep"
  <2>1. exchange' = exchange
    BY <1>3 DEF Start
  <2>2. QueueGood'
    BY <1>2, <2>1 DEF EdgeInv, QueueGood
  <2> QED
    BY <2>1, <2>2 DEF EdgeInv
<1>4. CASE Head(queue) # "sweep"
  <2> DEFINE e == Head(queue)
             next == [exchange[e] EXCEPT !.phase = "running"]
  <2>1. /\ e \in Exchanges /\ exchange[e].phase = "queued"
        /\ \A j \in 1..Len(queue) : queue[j] = e => j = 1
    BY <1>1, <1>2, <1>4 DEF EdgeInv, QueueGood
  <2>2. CallGood(next)
    <3>1. CallGood(exchange[e])
      BY <2>1 DEF EdgeInv
    <3> QED
      BY <2>1, <3>1, ThreadMoveIsGood DEF InThread
  <2>3. exchange' = [exchange EXCEPT ![e].phase = "running"]
    BY <1>4 DEF Start
  <2> HIDE DEF e
  <2>4. /\ exchange' \in [Exchanges -> Calls]
        /\ \A f \in Exchanges : exchange'[f] = IF f = e THEN next ELSE exchange[f]
    BY <2>1, <2>2, <2>3 DEF EdgeInv, CallGood
  <2> HIDE DEF next
  <2>5. \A f \in Exchanges : CallGood(exchange'[f])
    BY <2>2, <2>4 DEF EdgeInv
  <2>6. QueueGood'
    <3> SUFFICES ASSUME NEW i \in 1..Len(queue'), queue'[i] # "sweep"
                 PROVE  /\ exchange'[queue'[i]].phase = "queued"
                        /\ \A j \in 1..Len(queue') : queue'[j] = queue'[i] => j = i
      BY <1>2 DEF QueueGood
    <3>1. /\ queue'[i] = queue[i + 1] /\ i + 1 \in 1..Len(queue) /\ i + 1 # 1
          /\ queue[i + 1] \in Exchanges /\ exchange[queue[i + 1]].phase = "queued"
          /\ \A j \in 1..Len(queue) : queue[j] = queue[i + 1] => j = i + 1
      BY <1>1, <1>2 DEF EdgeInv, QueueGood
    <3>2. queue[i + 1] # e
      BY <2>1, <3>1
    <3> QED
      BY <1>2, <2>4, <3>1, <3>2
  <2> QED
    BY <2>4, <2>5, <2>6 DEF EdgeInv
<1> QED
  BY <1>3, <1>4

\* What a call does in its thread, and what comes after its answer.
LEMMA ThreadKeeps ==
  ASSUME EdgeInv, NEW e \in Exchanges, ThreadStep(e) \/ WaitTimeout(e) \/ Leave(e)
  PROVE  EdgeInv'
<1>1. \A f \in Exchanges : /\ CallGood(exchange[f]) /\ exchange[f] \in Calls
                           /\ CallGood(Answered(exchange[f]))
                           /\ Answered(exchange[f]).phase = "answered"
  BY CallsName, AnsweredIsGood DEF EdgeInv
<1>2. CASE AnswerAtOnce(e) \/ WaitTimeout(e)
  <2>1. exchange[e].phase # "queued" /\ Put(e, Answered(exchange[e])) /\ queue' = queue
    BY <1>2 DEF AnswerAtOnce, WaitTimeout
  <2> QED
    BY <1>1, <2>1, PutKeeps
<1>3. CASE Leave(e)
  BY <1>3, QuietIsGood, PutKeeps DEF Leave
<1>4. CASE JoinLane(e)
  <2>1. PICK phase \in {"owner", "waiting"} : Put(e, [exchange[e] EXCEPT !.phase = phase])
    BY <1>4 DEF JoinLane
  <2>2. exchange[e].phase = "running" /\ queue' = queue
    BY <1>4 DEF JoinLane
  <2>3. CallGood([exchange[e] EXCEPT !.phase = phase])
    BY <1>1, <2>2, ThreadMoveIsGood DEF InThread
  <2> QED
    BY <2>1, <2>2, <2>3, PutKeeps
<1>5. CASE WorkerEnds(e)
  <2>1. exchange[e].phase = "owner" /\ queue' = queue
    BY <1>5 DEF WorkerEnds
  <2>2. ASSUME NEW f \in Exchanges
        PROVE  CallGood(exchange'[f]) /\ (exchange[f].phase = "queued" => exchange'[f] = exchange[f])
    <3>1. CASE f = e
      BY <1>1, <1>5, <2>1, <3>1 DEF WorkerEnds
    <3>2. CASE f # e /\ exchange[f].phase = "waiting"
      <4>1. exchange'[f] = [exchange[f] EXCEPT !.phase = "woken"]
        BY <1>5, <3>2 DEF WorkerEnds
      <4> QED
        BY <1>1, <3>2, <4>1, ThreadMoveIsGood DEF InThread
    <3>3. CASE f # e /\ exchange[f].phase # "waiting"
      BY <1>1, <1>5, <3>3 DEF WorkerEnds
    <3> QED
      BY <3>1, <3>2, <3>3
  <2>3. exchange' \in [Exchanges -> Calls]
    <3>1. \A f \in Exchanges : exchange'[f] \in Calls
      BY <2>2 DEF CallGood
    <3> QED
      BY <1>5, <3>1 DEF WorkerEnds
  <2>4. QueueGood'
    <3>1. \A i \in 1..Len(queue) : queue[i] # "sweep" => queue[i] \in Exchanges
      BY DEF EdgeInv, QueueGood
    <3> QED
      BY <2>1, <2>2, <3>1 DEF EdgeInv, QueueGood
  <2> QED
    BY <2>2, <2>3, <2>4 DEF EdgeInv
<1> QED
  BY <1>2, <1>3, <1>4, <1>5 DEF ThreadStep

\* The maintenance task puts its sweep in line as well.
LEMMA SweepKeeps ==
  ASSUME EdgeInv, SweepDue \/ SweepEnds
  PROVE  EdgeInv'
<1>1. exchange' = exchange /\ queue \in Seq(Exchanges \cup {"sweep"})
  BY DEF EdgeInv, QueueGood, SweepDue, SweepEnds
<1>2. CASE SweepEnds
  BY <1>1, <1>2 DEF SweepEnds, EdgeInv, QueueGood
<1>3. CASE SweepDue
  <2>1. /\ queue' \in Seq(Exchanges \cup {"sweep"}) /\ Len(queue') = Len(queue) + 1
        /\ \A i \in 1..Len(queue) : queue'[i] = queue[i]
        /\ queue'[Len(queue) + 1] = "sweep"
        /\ \A i \in 1..Len(queue') : i \in 1..Len(queue) \/ i = Len(queue) + 1
    BY <1>1, <1>3 DEF SweepDue
  <2>2. QueueGood'
    <3> SUFFICES ASSUME NEW i \in 1..Len(queue'), queue'[i] # "sweep"
                 PROVE  /\ exchange[queue'[i]].phase = "queued"
                        /\ \A j \in 1..Len(queue') : queue'[j] = queue'[i] => j = i
      BY <1>1, <2>1 DEF QueueGood
    <3>1. i \in 1..Len(queue) /\ queue'[i] = queue[i]
      BY <2>1
    <3>2. ASSUME NEW j \in 1..Len(queue'), queue'[j] = queue'[i]
          PROVE  j = i
      <4>1. j \in 1..Len(queue) /\ queue'[j] = queue[j]
        BY <2>1, <3>2
      <4> QED
        BY <3>1, <3>2, <4>1 DEF EdgeInv, QueueGood
    <3> QED
      BY <3>1, <3>2 DEF EdgeInv, QueueGood
  <2> QED
    BY <1>1, <2>2 DEF EdgeInv
<1> QED
  BY <1>2, <1>3

\* What the handlers know of a request while its body arrives, while it waits and while it
\* runs, and that an exchange waits for a thread at most once (app.py:477-518, 546-584).
THEOREM EdgeInvariant == EdgeSpec => []EdgeInv
<1>1. EdgeInit => EdgeInv
  <2> SUFFICES ASSUME EdgeInit
               PROVE  EdgeInv
    OBVIOUS
  <2>1. Quiet \in Calls /\ CallGood(Quiet)
    BY QuietIsGood DEF CallGood
  <2>2. QueueGood
    BY DEF EdgeInit, QueueGood
  <2> QED
    BY <2>1, <2>2 DEF EdgeInit, EdgeInv
<1>2. EdgeInv /\ [EdgeNext]_vars => EdgeInv'
  <2> SUFFICES ASSUME EdgeInv, [EdgeNext]_vars
               PROVE  EdgeInv'
    OBVIOUS
  <2>1. CASE UNCHANGED vars
    BY <2>1 DEF EdgeInv, QueueGood, vars
  <2> QED
    BY <2>1, ArriveKeeps, ReadBodyKeeps, ThreadKeeps, StartKeeps, SweepKeeps DEF EdgeNext
<1> QED
  BY <1>1, <1>2, PTL DEF EdgeSpec

\* No answer names a request its client did not name, and the service acts on a request only
\* where the path and the body agree on it: the handlers hand on the identifier they have
\* checked, in whatever order bodies end and threads become free, and an answer never takes
\* the identifier of another exchange (app.py:477-518, 546-584; contracts.py:570-571).
THEOREM AnswersNameNoOther == EdgeSpec => []AnswersNameTheirRequest
<1>1. EdgeInv => AnswersNameTheirRequest
  <2> SUFFICES ASSUME EdgeInv, NEW e \in Exchanges
               PROVE  /\ exchange[e].id # None => exchange[e].id \in exchange[e].named \cap RequestIds
                      /\ exchange[e].phase \in InThread /\ exchange[e].route \notin GetRoutes =>
                           exchange[e].named = {exchange[e].id}
    BY DEF AnswersNameTheirRequest
  <2>1. CallGood(exchange[e])
    BY DEF EdgeInv
  <2> QED
    BY <2>1 DEF CallGood, Calls
<1> QED
  BY <1>1, EdgeInvariant, PTL
===================================================================================
