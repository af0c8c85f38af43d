---------------------------- MODULE WorkerRoutingProofs ---------------------------
(* What holds of WorkerRouting for any set of requests, plain and extended, and       *)
(* however often they are repeated.                                                 *)
EXTENDS WorkerRouting, TLAPS

\* No server has the request, and none will get it.
Free(r) == taken[r] = 0 /\ r \notin adrift

\* The call in the router has no outcome yet, and is not for a server that it must not
\* go to.
CallGood ==
  call # NoCall =>
    /\ outcome[call.request] = "none"
    /\ call.worker = "lmstudio" => call.request \notin Extended

\* At most one submission of a request is with a server or on its way to one.  There is
\* none while the request may be called again, and none while the call that may be the
\* next to submit it is under way.
OneSubmission ==
  \A r \in Requests :
    /\ taken[r] <= 1
    /\ r \in adrift => taken[r] = 0
    /\ AtWork(r) => r \notin adrift
    /\ outcome[r] \in {"none", "unavailable"} /\ ~AtWork(r) => Free(r)

RoutingInv == RoutingTypeOK /\ CallGood /\ OneSubmission /\ ExtendedStaysOnOllama

Probe == ProbeModels \/ ProbeShow \/ ProbeLoaded \/ ProbeCapacity \/ ProbeFallback

\* What a probe may do to a call: it goes on for the same request, and not at LM Studio
\* with an extended one, or is refused.
LEMMA ProbeGoesOnOrRefuses ==
  ASSUME RoutingInv, Probe
  PROVE  /\ call # NoCall /\ call \in Call /\ call.pc \in BeforeSubmission
         /\ \/ Refuse
            \/ /\ call' \in Call /\ UNCHANGED outcome
               /\ call'.request = call.request /\ call'.pc \in BeforeSubmission
               /\ call'.worker = "lmstudio" => call.request \notin Extended
         /\ UNCHANGED <<asked, taken, adrift, Environment>>
<1>1. call # NoCall /\ call \in Call /\ call.pc \in BeforeSubmission
  BY DEF RoutingInv, RoutingTypeOK, NoCall, Probe, ProbeModels, ProbeShow, ProbeLoaded,
         ProbeCapacity, ProbeFallback, BeforeSubmission
<1>2. call.worker = "lmstudio" => call.request \notin Extended
  BY <1>1 DEF RoutingInv, CallGood
<1> USE <1>1, <1>2 DEF Call, BeforeSubmission
<1>3. CASE ProbeModels
  BY <1>3 DEF ProbeModels, Established, GoTo, DispatchPrimary
<1>4. CASE ProbeShow
  BY <1>4 DEF ProbeShow, Established, GoTo
<1>5. CASE ProbeLoaded
  BY <1>5 DEF ProbeLoaded, Established, GoTo, DispatchPrimary
<1>6. CASE ProbeCapacity
  BY <1>6 DEF ProbeCapacity, GoTo
<1>7. CASE ProbeFallback
  BY <1>7 DEF ProbeFallback, FallbackHealthy, LMStudioContext, Workers
<1>8. QED
  BY <1>3, <1>4, <1>5, <1>6, <1>7 DEF Probe

\* A refusal before anything is submitted keeps the invariant.
LEMMA RefusalKeeps ==
  ASSUME RoutingInv, call \in Call, call.pc \in BeforeSubmission, Refuse,
         UNCHANGED <<ollama, lmstudio, taken, adrift>>, steady' \in BOOLEAN,
         asked' = asked \/ Ask
  PROVE  RoutingInv'
<1>1. /\ call' = NoCall
      /\ outcome' = [outcome EXCEPT ![call.request] = "unavailable"]
      /\ ~ \E r \in Requests : AtWork(r)'
  BY DEF Refuse, End, AtWork, NoCall
<1>2. RoutingTypeOK'
  BY <1>1 DEF RoutingInv, RoutingTypeOK, Call, Outcomes, Ask
<1>3. CallGood' /\ OneSubmission'
  BY <1>1 DEF RoutingInv, RoutingTypeOK, CallGood, OneSubmission, AtWork, Free, Call,
              BeforeSubmission, NoCall
<1>4. ExtendedStaysOnOllama'
  BY ExtendedAssumption DEF RoutingInv, RoutingTypeOK, CallGood, ExtendedStaysOnOllama, Ask,
     Call, NoCall, BeforeSubmission
<1>5. QED
  BY <1>2, <1>3, <1>4 DEF RoutingInv

\* What is needed of the actions that submit, or that end a call that has submitted.
LEMMA AskedKeeps ==
  ASSUME RoutingInv, call \in Call, Ask
  PROVE  /\ asked' \in [Requests -> SUBSET Workers]
         /\ ExtendedStaysOnOllama'
<1>1. call # NoCall
  BY DEF Call, NoCall
<1>2. asked' \in [Requests -> SUBSET Workers]
  BY DEF RoutingInv, RoutingTypeOK, Ask, Call
<1>3. ExtendedStaysOnOllama'
  BY <1>1, ExtendedAssumption
     DEF RoutingInv, RoutingTypeOK, CallGood, ExtendedStaysOnOllama, Ask, Call
<1>4. QED
  BY <1>2, <1>3

\* Every step keeps the invariant.
LEMMA RoutingStep ==
  ASSUME RoutingInv, [RoutingNext]_vars
  PROVE  RoutingInv'
<1> USE DEF RoutingInv, RoutingTypeOK, CallGood, OneSubmission, Free, AtWork
<1>0. ASSUME call.pc \in {"models", "show", "loaded", "capacity", "fallback", "submit", "answer"}
      PROVE  call \in Call /\ call # NoCall /\ call.request \in Requests
  BY <1>0 DEF NoCall, Call
<1>1. ASSUME NEW r \in Requests, Begin(r)
      PROVE  RoutingInv'
  <2>1. call' \in Call /\ call' # NoCall /\ call'.request = r /\ call'.pc \in BeforeSubmission
        /\ call'.worker = "ollama"
    BY <1>1 DEF Begin, Opening, Call, NoCall, Workers, BeforeSubmission
  <2>2. Free(r)
    BY <1>1 DEF Begin, NoCall
  <2>3. RoutingTypeOK'
    BY <1>1, <2>1 DEF Begin
  <2>4. CallGood' /\ ExtendedStaysOnOllama'
    BY <1>1, <2>1 DEF Begin, ExtendedStaysOnOllama
  <2>5. OneSubmission'
    BY <1>1, <2>1, <2>2 DEF Begin, NoCall, BeforeSubmission
  <2>6. QED
    BY <2>3, <2>4, <2>5
<1>2. ASSUME NEW r \in Requests, ArrivesLate(r)
      PROVE  RoutingInv'
  <2>1. taken[r] = 0 /\ ~AtWork(r) /\ outcome[r] \notin {"none", "unavailable"}
    BY <1>2 DEF ArrivesLate
  <2>2. RoutingTypeOK'
    BY <1>2 DEF ArrivesLate, Environment
  <2>3. CallGood' /\ ExtendedStaysOnOllama'
    BY <1>2 DEF ArrivesLate, ExtendedStaysOnOllama
  <2>4. OneSubmission'
    BY <1>2, <2>1 DEF ArrivesLate
  <2>5. QED
    BY <2>2, <2>3, <2>4
<1>3. CASE Probe
  <2>1. CASE Refuse
    BY <1>3, <2>1, ProbeGoesOnOrRefuses, RefusalKeeps DEF Environment
  <2>2. CASE ~Refuse
    <3>1. /\ call # NoCall /\ call \in Call /\ call.pc \in BeforeSubmission
          /\ call' \in Call /\ UNCHANGED outcome
          /\ call'.request = call.request /\ call'.pc \in BeforeSubmission
          /\ call'.worker = "lmstudio" => call.request \notin Extended
          /\ UNCHANGED <<asked, taken, adrift, Environment>>
      BY <1>3, <2>2, ProbeGoesOnOrRefuses
    <3>2. RoutingTypeOK' /\ CallGood' /\ ExtendedStaysOnOllama'
      BY <3>1 DEF Environment, ExtendedStaysOnOllama
    <3>3. OneSubmission'
      BY <3>1 DEF BeforeSubmission, Call
    <3>4. QED
      BY <3>2, <3>3
  <2>3. QED
    BY <2>1, <2>2
<1>4. CASE SubmitAdmitted
  <2>1. /\ call.pc = "submit" /\ call \in Call /\ call # NoCall /\ call.request \in Requests
        /\ call' \in Call /\ call'.request = call.request /\ call'.pc = "answer"
        /\ call'.worker = call.worker
    BY <1>4, <1>0 DEF SubmitAdmitted, GoTo, Call
  <2>2. Free(call.request)
    BY <2>1
  <2>3. asked' \in [Requests -> SUBSET Workers] /\ ExtendedStaysOnOllama'
    BY <1>4, <2>1, AskedKeeps DEF SubmitAdmitted
  <2>4. RoutingTypeOK'
    <3>1. taken' \in [Requests -> Nat]
      BY <1>4, <2>1 DEF SubmitAdmitted
    <3>2. QED
      BY <1>4, <2>1, <2>3, <3>1 DEF SubmitAdmitted, GoTo, Environment
  <2>7. CallGood'
    BY <1>4, <2>1 DEF SubmitAdmitted, GoTo
  <2>5. OneSubmission'
    BY <1>4, <2>1, <2>2 DEF SubmitAdmitted, GoTo
  <2>6. QED
    BY <2>3, <2>4, <2>5, <2>7
<1>5. CASE SubmitRefused
  BY <1>5, <1>0, RefusalKeeps DEF SubmitRefused, BeforeSubmission, Environment
<1>6. CASE SubmitRejected \/ SubmitLost
  <2>1. PICK result \in {"invalid", "ambiguous"} : End(result)
    BY <1>6 DEF SubmitRejected, SubmitLost
  <2>2. /\ call.pc = "submit" /\ call \in Call /\ call # NoCall /\ call.request \in Requests
        /\ call' = NoCall /\ outcome' = [outcome EXCEPT ![call.request] = result]
        /\ adrift' \in {adrift, adrift \cup {call.request}} /\ taken' = taken
        /\ Ask /\ UNCHANGED Environment
    BY <1>6, <1>0, <2>1 DEF SubmitRejected, SubmitLost, End, CastAdrift
  <2>3. Free(call.request)
    BY <2>2
  <2>4. asked' \in [Requests -> SUBSET Workers] /\ ExtendedStaysOnOllama'
    BY <2>2, AskedKeeps
  <2>5. RoutingTypeOK' /\ CallGood'
    BY <2>2, <2>4 DEF Environment, Outcomes
  <2>6. OneSubmission'
    BY <2>2, <2>3 DEF NoCall
  <2>7. QED
    BY <2>4, <2>5, <2>6
<1>7. CASE Answered \/ GatewayStops
  <2>1. PICK result \in {"result", "invalid", "ambiguous"} : End(result)
    BY <1>7 DEF Answered, GatewayStops
  <2>2. call # NoCall /\ call \in Call /\ call.request \in Requests
    BY <1>7, <1>0 DEF Answered, GatewayStops, Call
  <2>3. /\ call' = NoCall /\ outcome' = [outcome EXCEPT ![call.request] = result]
        /\ adrift' \in {adrift, adrift \cup {call.request}} /\ UNCHANGED <<taken, asked>>
        /\ adrift' # adrift => call.pc = "submit"
        /\ UNCHANGED Environment
    BY <1>7, <2>1 DEF Answered, GatewayStops, End, CastAdrift
  <2>4. RoutingTypeOK' /\ CallGood' /\ ExtendedStaysOnOllama'
    BY <2>2, <2>3 DEF Environment, Outcomes, ExtendedStaysOnOllama
  <2>5. OneSubmission'
    BY <2>2, <2>3 DEF NoCall
  <2>6. QED
    BY <2>4, <2>5
<1>8. CASE DeadlinePasses
  BY <1>8, <1>0, RefusalKeeps DEF DeadlinePasses, BeforeSubmission
<1>9. CASE OllamaChanges \/ LMStudioChanges
  <2>1. /\ ollama' \in OllamaState /\ lmstudio' \in Availability \cup {"absent"}
        /\ steady' = FALSE
    BY <1>9 DEF OllamaChanges, LMStudioChanges, OllamaState
  <2>2. UNCHANGED <<call, outcome, asked, taken, adrift>>
    BY <1>9 DEF OllamaChanges, LMStudioChanges
  <2>3. QED
    BY <2>1, <2>2 DEF ExtendedStaysOnOllama
<1>10. CASE UNCHANGED vars
  BY <1>10 DEF vars, ExtendedStaysOnOllama
<1>11. QED
  BY <1>1, <1>2, <1>3, <1>4, <1>5, <1>6, <1>7, <1>8, <1>9, <1>10 DEF RoutingNext, Probe

\* The first state has no call, no submission and no outcome.
LEMMA RoutingStart == RoutingInit => RoutingInv
BY ExtendedAssumption DEF RoutingInit, RoutingInv, RoutingTypeOK, CallGood, OneSubmission, Free,
   AtWork, ExtendedStaysOnOllama, NoCall

\* The invariant that carries the theorems below.
LEMMA RoutingInvariant == RoutingSpec => []RoutingInv
BY RoutingStart, RoutingStep, PTL DEF RoutingSpec

\* Every variable keeps its type through all probes, outcomes and changes of the servers.
THEOREM RoutingTypeCorrect == RoutingSpec => []RoutingTypeOK
BY RoutingInvariant, PTL DEF RoutingInv

\* WorkerUnavailable is raised only for a request that no server has admitted: the
\* classification around `submitted` in worker.py is right for every mix of requests.
THEOREM RefusalIsHonest == RoutingSpec => []UnavailableMeansNotTaken
<1>1. RoutingInv => UnavailableMeansNotTaken
  BY DEF RoutingInv, CallGood, OneSubmission, Free, AtWork, UnavailableMeansNotTaken,
         RoutingTypeOK, NoCall
<1>2. QED
  BY <1>1, RoutingInvariant, PTL

\* A request is admitted by one server once, whatever its repeats are routed to.
THEOREM AdmittedOnce == RoutingSpec => []TakenAtMostOnce
<1>1. RoutingInv => TakenAtMostOnce
  BY DEF RoutingInv, OneSubmission, TakenAtMostOnce
<1>2. QED
  BY <1>1, RoutingInvariant, PTL

\* A task with a context contract never reaches LM Studio, which has none.
THEOREM ContextIsKept == RoutingSpec => []ExtendedStaysOnOllama
BY RoutingInvariant, PTL DEF RoutingInv

-----------------------------------------------------------------------------------
(* Routing agrees with health() while the servers stay as they are.                *)

\* What the probes behind a call have established, if the servers stayed as they were.
KnownOf(c) ==
  LET primary == OllamaAvailability(c.request)
  IN  /\ c.stage = "route" => HasFallback
      /\ c.pc \in {"models", "capacity", "fallback"} => c.stage = "route"
      /\ c.pc \in {"submit", "answer"} => c.stage = "dispatch"
      /\ c.pc \notin {"submit", "answer"} => c.worker = "ollama"
      /\ c.pc \in {"show", "loaded"} =>
           c.request \in Extended /\ (HasFallback => ollama.catalog = "available")
      /\ c.pc = "loaded" => ollama.show = "available"
      /\ c.pc \in {"capacity", "fallback"} => primary = "unavailable"
      /\ c.pc = "fallback" => ollama.resident = "none"
      /\ c.stage = "dispatch" /\ c.worker = "ollama" /\ HasFallback => primary = "available"
      /\ c.worker = "lmstudio" =>
           /\ primary = "unavailable"
           /\ ollama.resident = "none"
           /\ FallbackHealthy(c.request)

KnownToProbes == steady /\ call # NoCall => KnownOf(call)

\* The chain of probes comes to what health() would say at once.
LEMMA ChainOfProbes ==
  ASSUME RoutingTypeOK, NEW r \in Requests
  PROVE  /\ ollama.catalog # "available" => OllamaAvailability(r) = ollama.catalog
         /\ ollama.catalog = "available" /\ r \notin Extended
              => OllamaAvailability(r) = "available"
         /\ ollama.catalog = "available" /\ r \in Extended =>
              /\ ollama.show # "available" => OllamaAvailability(r) = ollama.show
              /\ ollama.show = "available" => OllamaAvailability(r) = ResidentAvailability
<1>1. CASE ollama.catalog # "available"
  BY <1>1 DEF OllamaAvailability
<1>2. CASE ollama.catalog = "available" /\ r \notin Extended
  BY <1>2 DEF OllamaAvailability
<1>3. CASE ollama.catalog = "available" /\ r \in Extended /\ ollama.show # "available"
  BY <1>3 DEF OllamaAvailability
<1>4. CASE ollama.catalog = "available" /\ r \in Extended /\ ollama.show = "available"
  BY <1>4 DEF OllamaAvailability
<1> QED
  BY <1>1, <1>2, <1>3, <1>4

\* While the servers stay, what is known of a call depends on the call alone.
LEMMA KnowledgeOfServers ==
  ASSUME UNCHANGED <<ollama, lmstudio>>, call' # NoCall => KnownOf(call')
  PROVE  KnownToProbes'
BY DEF KnownToProbes, KnownOf, OllamaAvailability, ResidentAvailability, FallbackHealthy,
       LMStudioContext, HasFallback

\* The call goes on for the same request.
GoesOn(pc, stage, worker) ==
  /\ call' # NoCall
  /\ call'.pc = pc /\ call'.stage = stage /\ call'.worker = worker
  /\ call'.request = call.request

\* The two ways a probe goes on.
LEMMA WaysOn ==
  ASSUME call \in Call
  PROVE  /\ GoTo("show") => GoesOn("show", call.stage, call.worker)
         /\ GoTo("loaded") => GoesOn("loaded", call.stage, call.worker)
         /\ GoTo("capacity") => GoesOn("capacity", call.stage, call.worker)
         /\ GoTo("fallback") => GoesOn("fallback", call.stage, call.worker)
         /\ GoTo("submit") => GoesOn("submit", call.stage, call.worker)
         /\ DispatchPrimary /\ call.request \in Extended
              => GoesOn("show", "dispatch", call.worker)
         /\ DispatchPrimary /\ call.request \notin Extended
              => GoesOn("submit", "dispatch", call.worker)
         /\ Refuse => call' = NoCall
BY DEF GoTo, DispatchPrimary, GoesOn, Call, NoCall, Refuse, End

\* Every probe adds what it saw, or refuses a call that health() would have refused.
LEMMA ProbeKnows ==
  ASSUME RoutingInv, KnownToProbes, Probe, steady
  PROVE  /\ KnownToProbes'
         /\ call' = NoCall => ~Healthy(call.request)
<1> DEFINE r == call.request
           Sound == IF call' = NoCall THEN ~Healthy(r) ELSE KnownOf(call')
<1>1. /\ call # NoCall /\ call \in Call /\ r \in Requests
      /\ UNCHANGED <<ollama, lmstudio, steady>>
  BY ProbeGoesOnOrRefuses DEF Environment, Call
<1>2. SUFFICES Sound
  BY <1>1, KnowledgeOfServers
<1>3. KnownOf(call)
  BY <1>1 DEF KnownToProbes
<1>4. /\ ollama.catalog # "available" => OllamaAvailability(r) = ollama.catalog
      /\ ollama.catalog = "available" /\ r \notin Extended
           => OllamaAvailability(r) = "available"
      /\ ollama.catalog = "available" /\ r \in Extended =>
           /\ ollama.show # "available" => OllamaAvailability(r) = ollama.show
           /\ ollama.show = "available" => OllamaAvailability(r) = ResidentAvailability
  BY <1>1, ChainOfProbes DEF RoutingInv
<1>5. ~HasFallback => ~FallbackHealthy(r)
  BY DEF HasFallback, FallbackHealthy
<1>6. CASE ProbeModels
  <2>1. CASE ollama.catalog = "available"
    <3>1. IF r \in Extended THEN GoTo("show") ELSE DispatchPrimary
      BY <1>6, <2>1 DEF ProbeModels, Established
    <3> QED
      BY <1>1, <1>3, <1>4, <1>6, <2>1, <3>1, WaysOn DEF ProbeModels, GoesOn, KnownOf
  <2>2. CASE ollama.catalog = "unavailable"
    <3>1. GoTo("capacity")
      BY <1>3, <1>6, <2>2 DEF ProbeModels, Established, KnownOf
    <3> QED
      BY <1>1, <1>3, <1>4, <1>6, <2>2, <3>1, WaysOn DEF ProbeModels, GoesOn, KnownOf
  <2>3. CASE ollama.catalog \notin {"available", "unavailable"}
    BY <1>1, <1>4, <1>6, <2>3, WaysOn DEF ProbeModels, Established, Healthy
  <2> QED
    BY <2>1, <2>2, <2>3
<1>7. CASE ProbeShow
  <2>1. CASE ollama.show = "available"
    <3>1. GoTo("loaded")
      BY <1>7, <2>1 DEF ProbeShow, Established
    <3> QED
      BY <1>1, <1>3, <1>4, <1>7, <2>1, <3>1, WaysOn DEF ProbeShow, GoesOn, KnownOf
  <2>2. CASE ollama.show = "unavailable" /\ call.stage = "route"
    <3>1. GoTo("capacity")
      BY <1>7, <2>2 DEF ProbeShow, Established
    <3> QED
      BY <1>1, <1>3, <1>4, <1>7, <2>2, <3>1, WaysOn DEF ProbeShow, GoesOn, KnownOf
  <2>3. CASE ollama.show # "available" /\ ~(ollama.show = "unavailable" /\ call.stage = "route")
    <3>1. call' = NoCall
      BY <1>1, <1>7, <2>3, WaysOn DEF ProbeShow, Established
    <3>2. OllamaAvailability(r) # "available"
      BY <1>3, <1>4, <1>7, <2>3 DEF ProbeShow, KnownOf
    <3>3. HasFallback => OllamaAvailability(r) # "unavailable"
      BY <1>1, <1>3, <1>4, <1>7, <2>3, <3>2 DEF ProbeShow, KnownOf, Call
    <3> QED
      BY <1>5, <3>1, <3>2, <3>3 DEF Healthy
  <2> QED
    BY <2>1, <2>2, <2>3
<1>8. CASE ProbeLoaded
  <2>1. CASE ResidentAvailability = "available"
    <3>1. IF call.stage = "route" THEN DispatchPrimary ELSE GoTo("submit")
      BY <1>8, <2>1 DEF ProbeLoaded, Established
    <3> QED
      BY <1>1, <1>3, <1>4, <1>8, <2>1, <3>1, WaysOn DEF ProbeLoaded, GoesOn, KnownOf, Call
  <2>2. CASE ResidentAvailability = "unavailable" /\ call.stage = "route"
    <3>1. GoTo("capacity")
      BY <1>8, <2>2 DEF ProbeLoaded, Established
    <3> QED
      BY <1>1, <1>3, <1>4, <1>8, <2>2, <3>1, WaysOn DEF ProbeLoaded, GoesOn, KnownOf
  <2>3. CASE ResidentAvailability # "available" /\ ~(ResidentAvailability = "unavailable" /\ call.stage = "route")
    <3>1. call' = NoCall
      BY <1>1, <1>8, <2>3, WaysOn DEF ProbeLoaded, Established
    <3>2. OllamaAvailability(r) # "available"
      BY <1>3, <1>4, <1>8, <2>3 DEF ProbeLoaded, KnownOf
    <3>3. HasFallback => OllamaAvailability(r) # "unavailable"
      BY <1>1, <1>3, <1>4, <1>8, <2>3, <3>2 DEF ProbeLoaded, KnownOf, Call
    <3> QED
      BY <1>5, <3>1, <3>2, <3>3 DEF Healthy
  <2> QED
    BY <2>1, <2>2, <2>3
<1>9. CASE ProbeCapacity
  BY <1>1, <1>3, <1>9, WaysOn DEF ProbeCapacity, GoesOn, KnownOf, Healthy
<1>10. CASE ProbeFallback
  <2>1. CASE FallbackHealthy(r)
    <3>1. GoesOn("submit", "dispatch", "lmstudio")
      BY <1>1, <1>10, <2>1 DEF ProbeFallback, GoesOn, Call, NoCall
    <3> QED
      BY <1>3, <1>10, <2>1, <3>1 DEF ProbeFallback, GoesOn, KnownOf
  <2>2. CASE ~FallbackHealthy(r)
    BY <1>1, <1>3, <1>10, <2>2, WaysOn DEF ProbeFallback, KnownOf, Healthy
  <2> QED
    BY <2>1, <2>2
<1> QED
  BY <1>6, <1>7, <1>8, <1>9, <1>10 DEF Probe

\* What the other steps do to a call: they begin one at its first step, submit it, end it,
\* or take place in servers that no longer stay as they are.
LEMMA OtherSteps ==
  ASSUME RoutingInv, [RoutingNext]_vars, ~Probe, steady'
  PROVE  \/ \E r \in Requests :
              call = NoCall /\ call' = Opening(r) /\ UNCHANGED <<ollama, lmstudio>>
         \/ /\ call' = NoCall /\ UNCHANGED <<ollama, lmstudio, steady>>
            /\ EndsUnsubmitted => outcome' = [outcome EXCEPT ![call.request] = "ambiguous"]
         \/ /\ call # NoCall /\ call \in Call /\ call.pc = "submit"
            /\ call' = [call EXCEPT !.pc = "answer"]
            /\ UNCHANGED <<ollama, lmstudio, steady>>
         \/ UNCHANGED <<call, ollama, lmstudio, steady>>
<1>1. ASSUME NEW r \in Requests, Begin(r) \/ ArrivesLate(r)
      PROVE  \/ /\ call = NoCall
                /\ call' = Opening(r) /\ UNCHANGED <<ollama, lmstudio>>
             \/ UNCHANGED <<call, ollama, lmstudio, steady>>
  BY <1>1 DEF Begin, ArrivesLate, Environment
<1>2. CASE SubmitAdmitted
  <2>1. call # NoCall /\ call \in Call /\ call.pc = "submit"
    BY <1>2 DEF SubmitAdmitted, RoutingInv, RoutingTypeOK, NoCall
  <2>2. call' = [call EXCEPT !.pc = "answer"] /\ UNCHANGED <<ollama, lmstudio, steady>>
    BY <1>2 DEF SubmitAdmitted, GoTo, Environment
  <2> QED
    BY <2>1, <2>2
<1>3. CASE SubmitRefused \/ SubmitRejected \/ SubmitLost \/ Answered
  BY <1>3 DEF SubmitRefused, SubmitRejected, SubmitLost, Answered, Refuse, End, Environment,
              EndsUnsubmitted, BeforeSubmission
<1>4. CASE GatewayStops
  BY <1>4 DEF GatewayStops, End, Environment
<1>5. CASE DeadlinePasses \/ OllamaChanges \/ LMStudioChanges
  BY <1>5 DEF DeadlinePasses, OllamaChanges, LMStudioChanges
<1>6. CASE UNCHANGED vars
  BY <1>6 DEF vars
<1> QED
  BY <1>1, <1>2, <1>3, <1>4, <1>5, <1>6 DEF RoutingNext, Probe

\* Every step keeps what the probes know.
LEMMA KnowledgeKept ==
  ASSUME RoutingInv, KnownToProbes, [RoutingNext]_vars
  PROVE  KnownToProbes'
<1>1. CASE Probe
  <2>1. steady' = steady
    BY <1>1, ProbeGoesOnOrRefuses DEF Environment
  <2> QED
    BY <1>1, <2>1, ProbeKnows DEF KnownToProbes
<1>2. CASE ~steady'
  BY <1>2 DEF KnownToProbes
<1>3. CASE ~Probe /\ steady'
  <2>1. ASSUME NEW r \in Requests, call' = Opening(r), UNCHANGED <<ollama, lmstudio>>
        PROVE  KnownToProbes'
    <3>1. KnownOf(call')
      BY <2>1 DEF KnownOf, Opening
    <3> QED
      BY <2>1, <3>1, KnowledgeOfServers
  <2>2. CASE call' = NoCall
    BY <2>2 DEF KnownToProbes
  <2>3. CASE /\ call # NoCall /\ call \in Call /\ call.pc = "submit"
             /\ call' = [call EXCEPT !.pc = "answer"]
             /\ UNCHANGED <<ollama, lmstudio, steady>>
    <3>1. KnownOf(call)
      BY <1>3, <2>3 DEF KnownToProbes
    <3>2. GoesOn("answer", call.stage, call.worker)
      BY <2>3 DEF GoesOn, Call, NoCall
    <3>3. KnownOf(call')
      BY <2>3, <3>1, <3>2 DEF KnownOf, GoesOn
    <3> QED
      BY <2>3, <3>3, KnowledgeOfServers
  <2>4. CASE UNCHANGED <<call, ollama, lmstudio, steady>>
    BY <1>3, <2>4, KnowledgeOfServers DEF KnownToProbes
  <2> QED
    BY <1>3, <2>1, <2>2, <2>3, <2>4, OtherSteps
<1> QED
  BY <1>1, <1>2, <1>3

\* What the probes of a call have established stays true as long as the servers stay.
LEMMA ProbesKnow == RoutingSpec => []KnownToProbes
<1>1. RoutingInit => KnownToProbes
  BY DEF RoutingInit, KnownToProbes
<1> QED
  BY <1>1, KnowledgeKept, RoutingInvariant, PTL DEF RoutingSpec

\* health() and infer() decide alike in servers that stay as they are (worker.py: the two
\* probes of FallbackWorker.health against the chain of FallbackWorker.infer and _infer):
\* a call is refused before submission only where health() is false, and, with a fallback,
\* submitted only where it is true, for plain and extended tasks.
THEOREM HealthAgreesWithRouting == RoutingSpec => HealthIsHonest
<1> DEFINE Honest ==
      (steady /\ steady' /\ call # NoCall) =>
        /\ (EndsUnsubmitted /\ outcome'[call.request] = "unavailable")
             => ~Healthy(call.request)
        /\ (Submits /\ HasFallback) => Healthy(call.request)
<1>1. ASSUME RoutingInv, KnownToProbes, [RoutingNext]_vars, steady, steady', call # NoCall
      PROVE  Honest
  <2>1. call \in Call /\ call.request \in Requests
    BY <1>1 DEF RoutingInv, RoutingTypeOK, Call
  <2>2. Submits /\ HasFallback => Healthy(call.request)
    BY <1>1, <2>1 DEF Submits, KnownToProbes, KnownOf, Healthy, Call, Workers
  <2>3. CASE Probe
    BY <1>1, <2>2, <2>3, ProbeKnows DEF EndsUnsubmitted
  <2>4. CASE ~Probe
    <3>1. EndsUnsubmitted => outcome'[call.request] # "unavailable"
      BY <1>1, <2>1, <2>4, OtherSteps
         DEF EndsUnsubmitted, BeforeSubmission, RoutingInv, RoutingTypeOK, NoCall
    <3> QED
      BY <2>2, <3>1
  <2> QED
    BY <2>3, <2>4
<1>2. RoutingInv /\ KnownToProbes /\ [RoutingNext]_vars => [Honest]_vars
  BY <1>1
<1> QED
  BY <1>2, RoutingInvariant, ProbesKnow, PTL DEF RoutingSpec, HealthIsHonest

\* In servers that stay as they are, LM Studio gets a request only while Ollama has no
\* model loaded and is known to lack the gateway's (worker.py, FallbackWorker._fallback_ready).
THEOREM FallbackOnlyBesideIdlePrimary == RoutingSpec => FallbackBesideIdlePrimary
<1>1. KnownToProbes =>
        ((steady /\ Submits /\ call.worker = "lmstudio") =>
           /\ ollama.resident = "none"
           /\ OllamaAvailability(call.request) = "unavailable")
  BY DEF KnownToProbes, KnownOf, Submits, NoCall
<1>2. KnownToProbes =>
        [(steady /\ Submits /\ call.worker = "lmstudio") =>
           /\ ollama.resident = "none"
           /\ OllamaAvailability(call.request) = "unavailable"]_vars
  BY <1>1
<1> QED
  BY <1>2, ProbesKnow, PTL DEF FallbackBesideIdlePrimary

-----------------------------------------------------------------------------------
(* The router implements the contract its caller relies on.                         *)

\* What WorkerPromise shows of a request: taken while a server is at work on it.
Shown == [r \in Requests |-> IF AtWork(r) THEN "taken" ELSE outcome[r]]
Serving == IF call = NoCall THEN NoCall ELSE call.request

\* The end of a call is one End of the contract.
LEMMA EndIsEnd ==
  ASSUME RoutingInv, call \in Call, NEW result \in Outcomes, End(result),
         result = "unavailable" => call.pc # "answer",
         result = "result" => call.pc = "answer",
         UNCHANGED taken,
         \/ UNCHANGED adrift
         \/ result = "ambiguous" /\ call.pc # "answer" /\ adrift' = adrift \cup {call.request}
  PROVE  Worker!End(result)
<1>1. call # NoCall /\ call.request \in Requests /\ Serving = call.request
  BY DEF Call, NoCall, Serving
<1>2. call' = NoCall /\ Serving' = NoCall
  BY DEF End, Serving
<1>3. Shown[call.request] = IF call.pc = "answer" THEN "taken" ELSE "none"
  BY <1>1 DEF Shown, AtWork, RoutingInv, CallGood
<1>4. Shown' = [Shown EXCEPT ![call.request] = result]
  <2>1. Shown' = [r \in Requests |-> outcome'[r]]
    BY <1>2 DEF Shown, AtWork, NoCall
  <2>2. \A r \in Requests \ {call.request} : Shown[r] = outcome[r]
    BY DEF Shown, AtWork
  <2>3. QED
    BY <1>1, <2>1, <2>2 DEF End, Shown, RoutingInv, RoutingTypeOK
<1>5. QED
  BY <1>1, <1>2, <1>3, <1>4, NoCallAssumption DEF Worker!End, Shown, Serving
\* Every step of the router is a step of the contract, or none.
LEMMA RoutingStepIsWorkerStep ==
  ASSUME RoutingInv, [RoutingNext]_vars
  PROVE  [Worker!WorkerNext]_Worker!workerVars
<1> USE DEF RoutingInv, RoutingTypeOK, CallGood, OneSubmission, Free, Shown, Serving
<1>1. ASSUME call.pc # "none"
      PROVE  call \in Call /\ call # NoCall /\ call.request \in Requests
  BY <1>1 DEF NoCall, Call
<1>2. ASSUME UNCHANGED <<Serving, Shown, taken, adrift>>
      PROVE  UNCHANGED Worker!workerVars
  BY <1>2 DEF Worker!workerVars
<1>3. ASSUME NEW r \in Requests, Begin(r)
      PROVE  Worker!Begin(r)
  <2>1. call = NoCall /\ call' # NoCall /\ Serving = NoCall /\ Serving' = r
    BY <1>3 DEF Begin, Opening, NoCall
  <2>2. Shown = outcome
    BY <2>1 DEF AtWork, NoCall
  <2>3. Shown' = outcome'
    <3>1. call'.pc # "answer" /\ outcome' = [outcome EXCEPT ![r] = "none"]
      BY <1>3 DEF Begin, Opening
    <3> QED
      BY <3>1 DEF AtWork
  <2>4. QED
    BY <1>3, <2>1, <2>2, <2>3 DEF Begin, Worker!Begin, Worker!Invoke
<1>4. ASSUME NEW r \in Requests, ArrivesLate(r)
      PROVE  Worker!TakeLate(r)
  BY <1>4 DEF ArrivesLate, AtWork, Worker!TakeLate, Worker!Admitted
<1>5. CASE Probe
  <2>1. CASE Refuse
    BY <1>5, <2>1, ProbeGoesOnOrRefuses, EndIsEnd
       DEF Refuse, Outcomes, BeforeSubmission, Worker!WorkerNext, Worker!Endings
  <2>2. CASE ~Refuse
    <3>1. /\ call # NoCall /\ call' \in Call /\ call'.request = call.request
          /\ UNCHANGED <<outcome, taken, adrift>>
          /\ call.pc # "answer" /\ call'.pc # "answer"
      BY <1>5, <2>2, ProbeGoesOnOrRefuses DEF BeforeSubmission
    <3>2. call' # NoCall
      BY <3>1 DEF Call, NoCall
    <3>3. UNCHANGED <<Serving, Shown>>
      BY <3>1, <3>2 DEF AtWork
    <3>4. QED
      BY <3>1, <3>3, <1>2
  <2>3. QED
    BY <2>1, <2>2
<1>6. CASE SubmitAdmitted
  <2>1. /\ call.pc = "submit" /\ call \in Call /\ call # NoCall /\ call.request \in Requests
        /\ call' = [call EXCEPT !.pc = "answer"] /\ UNCHANGED <<outcome, adrift>>
        /\ taken' = [taken EXCEPT ![call.request] = @ + 1]
    BY <1>6, <1>1 DEF SubmitAdmitted, GoTo
  <2>2. call'.pc = "answer" /\ call'.request = call.request /\ call' # NoCall
    BY <2>1 DEF Call, NoCall
  <2>3. Serving = call.request /\ UNCHANGED Serving /\ Serving # NoCall
    BY <2>1, <2>2, NoCallAssumption
  <2>4. Shown = outcome /\ Shown' = [Shown EXCEPT ![call.request] = "taken"]
    <3>1. Shown = outcome
      BY <2>1 DEF AtWork
    <3>2. Shown' = [r \in Requests |-> IF r = call.request THEN "taken" ELSE outcome[r]]
      BY <2>1, <2>2 DEF AtWork
    <3>3. QED
      BY <3>1, <3>2
  <2>5. Worker!Take
    BY <2>1, <2>3, <2>4 DEF Worker!Take, Worker!Admitted
  <2>6. QED
    BY <2>5 DEF Worker!WorkerNext
<1>7. CASE SubmitRefused
  BY <1>7, <1>1, EndIsEnd DEF SubmitRefused, Refuse, Outcomes, Worker!WorkerNext, Worker!Endings
<1>8. CASE SubmitRejected
  BY <1>8, <1>1, EndIsEnd DEF SubmitRejected, Outcomes, Worker!WorkerNext, Worker!Endings
<1>9. CASE SubmitLost
  BY <1>9, <1>1, EndIsEnd DEF SubmitLost, CastAdrift, Outcomes, Worker!WorkerNext, Worker!Endings
<1>10. CASE Answered
  BY <1>10, <1>1, EndIsEnd DEF Answered, Outcomes, Worker!WorkerNext, Worker!Endings
<1>11. CASE DeadlinePasses
  BY <1>11, <1>1, EndIsEnd
     DEF DeadlinePasses, Refuse, BeforeSubmission, Outcomes, Worker!WorkerNext, Worker!Endings
<1>12. CASE GatewayStops
  <2>1. call \in Call
    BY <1>12 DEF GatewayStops
  <2>2. Worker!End("ambiguous")
    BY <1>12, <2>1, EndIsEnd DEF GatewayStops, CastAdrift, Outcomes
  <2>3. QED
    BY <2>2 DEF Worker!WorkerNext, Worker!Endings
<1>13. CASE OllamaChanges \/ LMStudioChanges \/ UNCHANGED vars
  <2>1. UNCHANGED <<call, outcome, taken, adrift>>
    BY <1>13 DEF OllamaChanges, LMStudioChanges, vars
  <2>2. UNCHANGED <<Serving, Shown>>
    BY <2>1 DEF AtWork
  <2>3. QED
    BY <2>1, <2>2, <1>2
<1>14. QED
  BY <1>3, <1>4, <1>5, <1>6, <1>7, <1>8, <1>9, <1>10, <1>11, <1>12, <1>13
     DEF RoutingNext, Probe, Worker!WorkerNext

\* Probes, deadlines, two servers and the classification of errors amount to one infer()
\* that keeps its contract, for every set of requests.
THEOREM RouterKeepsPromise == RoutingSpec => WorkerPromiseKept
<1>1. RoutingInit => Worker!WorkerInit
  BY DEF RoutingInit, Worker!WorkerInit, AtWork, NoCall
<1>2. QED
  BY <1>1, RoutingInvariant, RoutingStepIsWorkerStep, PTL
     DEF RoutingSpec, WorkerPromiseKept, Worker!WorkerSpec
===================================================================================
