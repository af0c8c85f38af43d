------------------------------- MODULE WorkerPromise ------------------------------
(***********************************************************************************)
(* What a call of InferenceWorker.infer means to its caller, with no server, probe   *)
(* or deadline in sight.  WorkerRouting implements it; GatewayWithWorker is built on  *)
(* it.  A request is called again only after WorkerUnavailable: that is the caller's  *)
(* part of the contract, which GatewayWithWorker keeps.                              *)
(***********************************************************************************)
EXTENDS Naturals

CONSTANTS Requests, None

VARIABLES
  serving,  \* the request that is in infer() now, or None
  outcome,  \* how the last call for a request ended, or how far it is
  taken,    \* how often a server has admitted the request
  adrift    \* requests with a submission on its way when their call ended

workerVars == <<serving, outcome, taken, adrift>>

Endings == {"unavailable", "ambiguous", "invalid", "result"}

WorkerInit ==
  /\ serving = None
  /\ outcome = [r \in Requests |-> "none"]
  /\ taken = [r \in Requests |-> 0]
  /\ adrift = {}

\* infer() is called, whatever happened to the request before.
Invoke(r) ==
  /\ serving' = r
  /\ outcome' = [outcome EXCEPT ![r] = "none"]
  /\ UNCHANGED <<taken, adrift>>

Begin(r) ==
  /\ serving = None
  /\ outcome[r] \in {"none", "unavailable"}
  /\ Invoke(r)

Admitted(r) == taken' = [taken EXCEPT ![r] = @ + 1]

\* A server admits the request, once for a call,
Take ==
  /\ serving # None
  /\ outcome[serving] = "none"
  /\ Admitted(serving)
  /\ outcome' = [outcome EXCEPT ![serving] = "taken"]
  /\ UNCHANGED <<serving, adrift>>

\* or when the call has been given up.
TakeLate(r) ==
  /\ r \in adrift
  /\ Admitted(r)
  /\ adrift' = adrift \ {r}
  /\ UNCHANGED <<serving, outcome>>

\* WorkerUnavailable is raised for a request that nobody has, a result is returned for
\* one that somebody took; everything else proves nothing.
End(ending) ==
  /\ serving # None
  /\ ending = "unavailable" => outcome[serving] = "none"
  /\ ending = "result" => outcome[serving] = "taken"
  /\ \/ UNCHANGED adrift
     \/ /\ ending = "ambiguous" /\ outcome[serving] = "none"
        /\ adrift' = adrift \cup {serving}
  /\ outcome' = [outcome EXCEPT ![serving] = ending]
  /\ serving' = None
  /\ UNCHANGED taken

WorkerNext ==
  \/ \E r \in Requests : Begin(r) \/ TakeLate(r)
  \/ Take
  \/ \E e \in Endings : End(e)

WorkerSpec == WorkerInit /\ [][WorkerNext]_workerVars
===================================================================================
