------------------------------- MODULE WorkerRouting ------------------------------
(***********************************************************************************)
(* How one worker call is routed and classified (worker.py): FallbackWorker over an *)
(* OllamaWorker and an LMStudioWorker, or an OllamaWorker alone where no fallback is *)
(* configured, one HTTP request per step.  Between two requests the servers may     *)
(* change state and the deadline of the call may pass.                             *)
(*                                                                                 *)
(* The servers are external: what each endpoint would answer is a variable that     *)
(* changes at any time.  The gateway calls the router for one request at a time    *)
(* (the lane of GatewayService) and calls it again for a request only after         *)
(* WorkerUnavailable, which puts the row back to reserved.                         *)
(***********************************************************************************)
EXTENDS Integers

CONSTANTS
  Requests,   \* requests a client may submit, and submit again
  Extended    \* those whose task needs a verified context (required_context_tokens > 0)

ASSUME ExtendedAssumption == Extended \subseteq Requests

Workers == {"ollama", "lmstudio"}
Availability == {"available", "unavailable", "unknown"}
Outcomes == {"unavailable", "ambiguous", "invalid", "result"}

\* What GET /v1/models and POST /api/show amount to, and what GET /api/ps shows: no
\* model, the gateway's model with enough or too little context, another model, or
\* nothing that can be trusted.  "unknown" stands for every transport error, status
\* other than 200 and malformed document.
Residents == {"none", "enough", "small", "other", "unknown"}
OllamaState == [catalog : Availability, show : Availability, resident : Residents]

VARIABLES
  ollama,     \* what the Ollama endpoints would answer now
  lmstudio,   \* what LM Studio's /v1/models would amount to now, or "absent"
  call,       \* the call in the router, or NoCall
  outcome,    \* how the last call for a request ended, or "none" before it has
  asked,      \* workers the request was ever submitted to (history)
  taken,      \* submissions of the request that a worker admitted (history)
  adrift,     \* requests with a submission on its way when their call ended
  steady      \* nothing changed and no deadline passed since the call began (history)

vars == <<ollama, lmstudio, call, outcome, asked, taken, adrift, steady>>

\* `stage` is "route" in FallbackWorker.infer and "dispatch" in the _infer of a worker.
Call == [pc : {"models", "show", "loaded", "capacity", "fallback", "submit", "answer"},
         stage : {"route", "dispatch"}, request : Requests, worker : Workers]
NoCall == [pc |-> "none"]

\* NoCall stands where a request may stand, and must not be taken for one.
ASSUME NoCallAssumption == NoCall \notin Requests

BeforeSubmission == {"models", "show", "loaded", "capacity", "fallback", "submit"}

\* create_app: a gateway has a fallback from its start to its end, or has none.
HasFallback == lmstudio # "absent"

RoutingInit ==
  /\ ollama \in OllamaState
  /\ lmstudio \in Availability \cup {"absent"}
  /\ call = NoCall
  /\ outcome = [r \in Requests |-> "none"]
  /\ asked = [r \in Requests |-> {}]
  /\ taken = [r \in Requests |-> 0]
  /\ adrift = {}
  /\ steady = TRUE

-----------------------------------------------------------------------------------
(* Availability, as the probes establish it.                                       *)

\* The residency part of OllamaWorker._context_availability: other models are skipped.
ResidentAvailability ==
  CASE ollama.resident = "unknown" -> "unknown"
    [] ollama.resident = "small"   -> "unavailable"
    [] OTHER                       -> "available"

\* OllamaWorker.availability, all its requests in one state of the server.
OllamaAvailability(r) ==
  CASE ollama.catalog # "available"                    -> ollama.catalog
    [] ollama.catalog = "available" /\ r \notin Extended -> "available"
    [] ollama.catalog = "available" /\ r \in Extended /\ ollama.show # "available"
                                                       -> ollama.show
    [] OTHER                                           -> ResidentAvailability

\* Faulty: taken for granted.
LMStudioContextAssumed(r) == "available"

\* LMStudioWorker has no verified capacity contract for an extended task.
LMStudioContext(r) == IF r \in Extended THEN "unavailable" ELSE "available"

\* FallbackWorker._fallback_ready after its residency query found no model.
FallbackHealthy(r) == lmstudio = "available" /\ LMStudioContext(r) = "available"

\* FallbackWorker.health in one state of the servers; without a fallback, OllamaWorker.health.
Healthy(r) ==
  \/ OllamaAvailability(r) = "available"
  \/ /\ OllamaAvailability(r) = "unavailable"
     /\ ollama.resident = "none"
     /\ FallbackHealthy(r)

-----------------------------------------------------------------------------------
(* FallbackWorker.infer, one HTTP request per step.                                *)

GoTo(pc) == call' = [call EXCEPT !.pc = pc] /\ UNCHANGED outcome

End(result) ==
  /\ outcome' = [outcome EXCEPT ![call.request] = result]
  /\ call' = NoCall

Refuse == End("unavailable")

Environment == <<ollama, lmstudio, steady>>

\* FallbackWorker.infer asks the primary whether it is available first.  OllamaWorker.infer
\* does not: it verifies the context of an extended task, and submits a plain one.
Opening(r) ==
  [pc      |-> IF HasFallback THEN "models" ELSE IF r \in Extended THEN "show" ELSE "submit",
   stage   |-> IF HasFallback THEN "route" ELSE "dispatch",
   request |-> r,
   worker  |-> "ollama"]

\* Faulty: a request of unknown outcome is tried again.
BeginAfterLoss(r) ==
  /\ call = NoCall
  /\ outcome[r] \in {"none", "unavailable", "ambiguous"}
  /\ call' = Opening(r)
  /\ outcome' = [outcome EXCEPT ![r] = "none"]
  /\ steady' = TRUE
  /\ UNCHANGED <<ollama, lmstudio, asked, taken, adrift>>

Begin(r) ==
  /\ call = NoCall
  /\ outcome[r] \in {"none", "unavailable"}
  /\ call' = Opening(r)
  /\ outcome' = [outcome EXCEPT ![r] = "none"]
  /\ steady' = TRUE
  /\ UNCHANGED <<ollama, lmstudio, asked, taken, adrift>>

\* Faulty: a primary of unknown state is passed over too.
EstablishedUnlessKnown(availability, next) ==
  CASE availability = "available" -> next
    [] availability # "available" /\ call.stage = "route" -> GoTo("capacity")
    [] OTHER -> Refuse

\* A probe while routing: a primary that is unavailable makes the fallback the next
\* question, one of unknown state ends the call.  While dispatching (_infer), anything
\* short of available ends it.
Established(availability, next) ==
  CASE availability = "available" -> next
    [] availability = "unavailable" /\ call.stage = "route" -> GoTo("capacity")
    [] OTHER -> Refuse

\* primary.infer: an extended task has its context verified once more.
DispatchPrimary ==
  /\ call' = [call EXCEPT !.stage = "dispatch",
                          !.pc = IF call.request \in Extended THEN "show" ELSE "submit"]
  /\ UNCHANGED outcome

ProbeModels ==
  /\ call.pc = "models"
  /\ Established(ollama.catalog,
                 IF call.request \in Extended THEN GoTo("show") ELSE DispatchPrimary)
  /\ UNCHANGED <<asked, taken, adrift, Environment>>

ProbeShow ==
  /\ call.pc = "show"
  /\ Established(ollama.show, GoTo("loaded"))
  /\ UNCHANGED <<asked, taken, adrift, Environment>>

ProbeLoaded ==
  /\ call.pc = "loaded"
  /\ Established(ResidentAvailability,
                 IF call.stage = "route" THEN DispatchPrimary ELSE GoTo("submit"))
  /\ UNCHANGED <<asked, taken, adrift, Environment>>

\* Faulty: only the gateway's own model counts.
ProbeCapacityOfOwnModel ==
  /\ call.pc = "capacity"
  /\ IF ollama.resident \in {"none", "other"} THEN GoTo("fallback") ELSE Refuse
  /\ UNCHANGED <<asked, taken, adrift, Environment>>

\* primary.fallback_capacity_available: no model may own Ollama's runtime.
ProbeCapacity ==
  /\ call.pc = "capacity"
  /\ IF ollama.resident = "none" THEN GoTo("fallback") ELSE Refuse
  /\ UNCHANGED <<asked, taken, adrift, Environment>>

\* fallback.health, then the context check that opens fallback.infer.
ProbeFallback ==
  /\ call.pc = "fallback"
  /\ IF FallbackHealthy(call.request)
     THEN /\ call' = [call EXCEPT !.pc = "submit", !.stage = "dispatch",
                                  !.worker = "lmstudio"]
          /\ UNCHANGED outcome
     ELSE Refuse
  /\ UNCHANGED <<asked, taken, adrift, Environment>>

Ask == asked' = [asked EXCEPT ![call.request] = @ \cup {call.worker}]

\* The completion request reaches a worker that admits it.
SubmitAdmitted ==
  /\ call.pc = "submit"
  /\ Ask
  /\ taken' = [taken EXCEPT ![call.request] = @ + 1]
  /\ GoTo("answer")
  /\ UNCHANGED <<adrift, Environment>>

\* A connection that is not made, or an answer 404, 429 or 5xx: not admitted.
SubmitRefused ==
  /\ call.pc = "submit"
  /\ Ask
  /\ Refuse
  /\ UNCHANGED <<taken, adrift, Environment>>

\* Any other 4xx: the request is at fault.
SubmitRejected ==
  /\ call.pc = "submit"
  /\ Ask
  /\ End("invalid")
  /\ UNCHANGED <<taken, adrift, Environment>>

\* The submission may be on its way, or not, and no answer tells.
CastAdrift == adrift' = adrift \cup {call.request}

\* A transport error or the deadline ends the call in the middle of the submission.
SubmitLost ==
  /\ call.pc = "submit"
  /\ Ask
  /\ End("ambiguous")
  /\ CastAdrift
  /\ UNCHANGED <<taken, Environment>>

\* A submission is admitted after its call has ended.
ArrivesLate(r) ==
  /\ r \in adrift
  /\ adrift' = adrift \ {r}
  /\ taken' = [taken EXCEPT ![r] = @ + 1]
  /\ UNCHANGED <<call, outcome, asked, Environment>>

\* Faulty: no answer in time is taken for a refusal.
AnsweredOrRefused ==
  /\ call.pc = "answer"
  /\ End("result") \/ End("invalid") \/ Refuse
  /\ UNCHANGED <<asked, taken, adrift, Environment>>

\* What a worker that admitted the request comes back with: a completion that passes
\* _validated_result or does not, a transport error, or nothing before the deadline.
Answered ==
  /\ call.pc = "answer"
  /\ End("result") \/ End("invalid") \/ End("ambiguous")
  /\ UNCHANGED <<asked, taken, adrift, Environment>>

\* _remaining and _dispatch_timeout refuse a late step, asyncio.timeout cuts one short:
\* before the submission either ends the call as unavailable.
DeadlinePasses ==
  /\ call.pc \in BeforeSubmission
  /\ Refuse
  /\ steady' = FALSE
  /\ UNCHANGED <<ollama, lmstudio, asked, taken, adrift>>

\* Faulty: a new process knows nothing of the call.
GatewayStopsAndForgets ==
  /\ call # NoCall
  /\ End("none")
  /\ IF call.pc = "submit" THEN CastAdrift ELSE UNCHANGED adrift
  /\ UNCHANGED <<asked, taken, Environment>>

\* The gateway stops: initialize() finds the row in progress.
GatewayStops ==
  /\ call # NoCall
  /\ End("ambiguous")
  /\ IF call.pc = "submit" THEN CastAdrift ELSE UNCHANGED adrift
  /\ UNCHANGED <<asked, taken, Environment>>

\* The servers load, unload, install, remove, start and stop as they like.
OllamaChanges ==
  /\ \/ \E a \in Availability : ollama' = [ollama EXCEPT !.catalog = a]
     \/ \E a \in Availability : ollama' = [ollama EXCEPT !.show = a]
     \/ \E m \in Residents : ollama' = [ollama EXCEPT !.resident = m]
  /\ steady' = FALSE
  /\ UNCHANGED <<lmstudio, call, outcome, asked, taken, adrift>>

LMStudioChanges ==
  /\ HasFallback
  /\ lmstudio' \in Availability
  /\ steady' = FALSE
  /\ UNCHANGED <<ollama, call, outcome, asked, taken, adrift>>

RoutingNext ==
  \/ \E r \in Requests : Begin(r) \/ ArrivesLate(r)
  \/ ProbeModels \/ ProbeShow \/ ProbeLoaded \/ ProbeCapacity \/ ProbeFallback
  \/ SubmitAdmitted \/ SubmitRefused \/ SubmitRejected \/ SubmitLost
  \/ Answered
  \/ DeadlinePasses
  \/ GatewayStops
  \/ OllamaChanges
  \/ LMStudioChanges

RoutingSpec == RoutingInit /\ [][RoutingNext]_vars

-----------------------------------------------------------------------------------
(* What routing promises.                                                          *)

\* The shape of every variable.
RoutingTypeOK ==
  /\ ollama \in OllamaState
  /\ lmstudio \in Availability \cup {"absent"}
  /\ call \in Call \cup {NoCall}
  /\ outcome \in [Requests -> Outcomes \cup {"none"}]
  /\ asked \in [Requests -> SUBSET Workers]
  /\ taken \in [Requests -> Nat]
  /\ adrift \subseteq Requests
  /\ steady \in BOOLEAN

\* The classification of errors around `submitted` (worker.py:206-246) is what makes a
\* retry safe: WorkerUnavailable is raised only for a request no worker admitted.
UnavailableMeansNotTaken ==
  \A r \in Requests : outcome[r] = "unavailable" => taken[r] = 0

\* However often a client repeats a request that was refused, and whichever worker each
\* repeat is routed to, one worker admits it once, a late submission included.
TakenAtMostOnce ==
  \A r \in Requests : taken[r] <= 1

\* A task with a context contract is never submitted to the worker without one.
ExtendedStaysOnOllama ==
  \A r \in Extended : "lmstudio" \notin asked[r]

EndsUnsubmitted == call.pc \in BeforeSubmission \ {"submit"} /\ call' = NoCall
Submits == call.pc = "submit" /\ call' # call

\* health() and infer() decide alike, though one works through a chain of probes and the
\* other repeats some of them: in servers that stay as they are, a call is refused before
\* submission only where health() is false, and submitted only where it is true.  The last
\* takes a fallback: OllamaWorker.infer alone leaves it to the server to refuse, by 404, a
\* model that health() misses in the catalogue.
HealthIsHonest ==
  [][(steady /\ steady' /\ call # NoCall) =>
       /\ (EndsUnsubmitted /\ outcome'[call.request] = "unavailable") => ~Healthy(call.request)
       /\ (Submits /\ HasFallback) => Healthy(call.request)]_vars

\* In servers that stay as they are, LM Studio is given a request only while Ollama has
\* no model of any kind loaded and is known to lack the gateway's.
FallbackBesideIdlePrimary ==
  [][(steady /\ Submits /\ call.worker = "lmstudio") =>
       /\ ollama.resident = "none"
       /\ OllamaAvailability(call.request) = "unavailable"]_vars

AtWork(r) == call.pc = "answer" /\ call.request = r

Worker ==
  INSTANCE WorkerPromise WITH
    None    <- NoCall,
    serving <- IF call = NoCall THEN NoCall ELSE call.request,
    outcome <- [r \in Requests |-> IF AtWork(r) THEN "taken" ELSE outcome[r]]

\* Routing, probes, deadlines and the classification of errors (FallbackWorker.infer and
\* _infer) together are one infer() that keeps what GatewayService.infer relies on.
WorkerPromiseKept == Worker!WorkerSpec

\* README.md:273 "The gateway never switches workers after calling Ollama inference.": LM
\* Studio is at work on no request for which Ollama inference has been called.
NeverSwitchesWorkers ==
  call.pc = "answer" /\ call.worker = "lmstudio" => "ollama" \notin asked[call.request]
===================================================================================
