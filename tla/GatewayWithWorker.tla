---------------------------- MODULE GatewayWithWorker -----------------------------
(***********************************************************************************)
(* The gateway process and the worker it calls, as one system.  GatewayService takes *)
(* the end of a worker call from thin air and keeps count of the calls that may have  *)
(* been admitted; here the end is what the worker's infer() came to, the admission is  *)
(* a step of its own, and the process may crash between all of them.                  *)
(*                                                                                 *)
(* The worker is WorkerPromise, which WorkerRouting implements.                      *)
(***********************************************************************************)
EXTENDS GatewayService

VARIABLES serving, outcome, taken, adrift   \* as in WorkerPromise

Worker == INSTANCE WorkerPromise WITH Requests <- Documents

workerVars == <<serving, outcome, taken, adrift>>
servedVars == <<vars, workerVars>>

ServedInit == ServiceInit /\ Worker!WorkerInit

\* self.worker.infer is called when the call enters "worker", and not where the request
\* has expired in the meantime.
ServedDispatch(t) ==
  /\ Dispatch(t)
  /\ IF thread'[t].pc = "worker"
     THEN Worker!Invoke(thread[t].document)
     ELSE UNCHANGED workerVars

\* Faulty: an unknown outcome is put back in line.
HandlerOfAnyFailure(t) ==
  CASE outcome[thread[t].document] \in {"unavailable", "ambiguous"} -> CallRefused(t)
    [] outcome[thread[t].document] = "invalid"                      -> CallInvalid(t)
    [] OTHER -> \E x \in Contents : CallAnswered(t, x)

\* Which clause of infer() handles what the worker call came to.
Handler(t) ==
  CASE outcome[thread[t].document] = "unavailable" -> CallRefused(t)
    [] outcome[thread[t].document] = "ambiguous"   -> CallLost(t)
    [] outcome[thread[t].document] = "invalid"     -> CallInvalid(t)
    [] OTHER -> \E x \in Contents : CallAnswered(t, x)

\* The worker call has ended, and its outcome is recorded.
HandleOutcome(t) ==
  /\ thread[t].pc = "worker" /\ serving = None
  /\ Handler(t)
  /\ UNCHANGED workerVars

\* An sqlite3 error, which while the row is with the worker can only be one of recording.
ServedFault(t) ==
  /\ thread[t].pc = "worker" => serving = None
  /\ StoreFault(t)
  /\ UNCHANGED workerVars

\* The call dies with the process; what it has submitted does not.
ServedCrash ==
  /\ Crash
  /\ IF serving = None THEN UNCHANGED workerVars ELSE Worker!End("ambiguous")

WorkerStep ==
  /\ \/ Worker!Take
     \/ \E d \in Documents : Worker!TakeLate(d)
     \/ \E e \in Worker!Endings : Worker!End(e)
  /\ UNCHANGED vars

\* The steps of the process that have nothing to do with the worker.
PlainStep(t) ==
  /\ \/ \E c \in Credentials, d \in Documents : Infer(t, c, d)
     \/ ClaimLane(t) \/ JoinActive(t) \/ WaitTimeout(t) \/ Reload(t) \/ Answer(t)
     \/ Mark(t) \/ Collect(t) \/ MarkUnsettled(t) \/ ReleaseLane(t)
  /\ UNCHANGED workerVars

CommonStep ==
  /\ \/ \E c \in Credentials, id \in RequestIds, s \in Dispositions : AcknowledgeCall(c, id, s)
     \/ \E at \in Seconds : Sweep(at)
     \/ Restart
     \/ Tick
  /\ UNCHANGED workerVars

ServedNext ==
  \/ \E t \in Threads : \/ PlainStep(t)
                        \/ ServedDispatch(t)
                        \/ HandleOutcome(t)
                        \/ ServedFault(t)
  \/ ServedCrash
  \/ WorkerStep
  \/ CommonStep

ServedSpec == ServedInit /\ [][ServedNext]_servedVars

-----------------------------------------------------------------------------------
(* What the two promise together.                                                  *)

\* A server admits a document at most once, whatever repeats, lost outcomes, late
\* submissions, crashes of the process and changes of the key come together: the rows of
\* infer() and initialize() are all that stands between them.  What a server has, or may
\* still get, was counted in calls, so a document of which worker_unavailable is decided
\* (UnavailableMeansUncalled) is with nobody at that moment.
AdmittedAtMostOnce ==
  \A d \in Documents :
    /\ calls[d] <= 1
    /\ taken[d] <= calls[d]
    /\ d \in adrift => taken[d] < calls[d]

\* The caller's part of the contract of InferenceWorker.infer: one call at a time, and a
\* request is called again only after WorkerUnavailable.  WorkerRouting assumes it.
CalledAsAgreed == Worker!WorkerSpec
===================================================================================
