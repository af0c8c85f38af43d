------------------------------ MODULE OperationalProof ----------------------------
(***********************************************************************************)
(* scripts/prove_operational_gateway.py against the gateway of GatewayService: one    *)
(* operator runs its phases, stops and restarts the gateway between them, and every    *)
(* process may die at any step.                                                      *)
(*                                                                                 *)
(* A phase is a sequence of steps, each at most one call to the gateway.  The request *)
(* of a restart proof is handed from prepare-restart to reconcile-restart in a file.  *)
(* For the second phase the operator points the gateway at a closed port (README.md,   *)
(* "To prove completed-result continuity").                                          *)
(***********************************************************************************)
EXTENDS GatewayService, Sequences

CONSTANT Partial   \* the content of a file that is not written to its end

ASSUME ProofAssumption == None \notin Threads /\ Partial \notin Documents \cup {None}

VARIABLES
  reach,      \* whether the gateway was started with the address of a worker
  script,     \* the phase that runs
  file,       \* the restart state file: None, partly written, or a request
  submitted,  \* the request prepare-restart submitted from this directory (history)
  made,       \* the requests made so far: uuid4 makes no identity twice
  retained    \* the results that a restart of the gateway found (history)
proofVars == <<reach, script, file, submitted, made, retained>>
allVars == <<vars, proofVars>>

\* `document` is the request of the phase, `thread` the gateway's thread that serves it.
Resting(verdict, d) ==
  [phase |-> "rest", at |-> 0, document |-> d, thread |-> None, verdict |-> verdict]

\* Faulty: nothing is acknowledged.
PlanWithoutAcknowledgement(phase) ==
  CASE phase = "run"       -> <<"health", "make", "submit", "submit">>
    [] phase = "prepare"   -> <<"health", "make", "create", "write", "submit">>
    [] phase = "reconcile" -> <<"health", "read", "submit">>

\* Proof.run for one task, and the restart phases of main.  The credentials that must be
\* refused are left out: a refusal changes nothing.
Plan(phase) ==
  CASE phase = "run"       -> <<"health", "make", "submit", "submit", "acknowledge", "recheck">>
    [] phase = "prepare"   -> <<"health", "make", "create", "write", "submit">>
    [] phase = "reconcile" -> <<"health", "read", "submit", "acknowledge", "recheck">>

Running == script.phase # "rest"
AtStep(step) == Running /\ script.thread = None /\ Plan(script.phase)[script.at] = step

\* The phase goes on, and is over after its last step, or raises ProofError.
Proceed(ok, d) ==
  script' = CASE ~ ok -> Resting("failed", d)
              [] ok /\ script.at = Len(Plan(script.phase)) -> Resting(script.phase, d)
              [] OTHER -> [script EXCEPT !.at = @ + 1, !.thread = None, !.document = d]

Retained == {d \in Documents : rows[d.request_id].document = d /\ Readable(rows[d.request_id])}

ProofInit ==
  /\ ServiceInit
  /\ reach = TRUE /\ script = Resting("none", None) /\ file = None
  /\ submitted = None /\ made = {} /\ retained = {}

-----------------------------------------------------------------------------------
(* Steps that do not depend on a request at the gateway.                            *)

StartPhase(phase) ==
  /\ ~ Running
  /\ script' = [Resting("none", None) EXCEPT !.phase = phase, !.at = 1]
  /\ UNCHANGED <<vars, reach, file, submitted, made, retained>>

\* Proof.health: reconcile-restart insists that no worker is available, the other phases
\* that one is.  A worker with an address may be up or down at this moment, whatever it is
\* when the request is submitted.
Health ==
  /\ up /\ AtStep("health")
  /\ \E available \in {FALSE, reach} : Proceed(available = (script.phase # "reconcile"), None)
  /\ UNCHANGED <<vars, reach, file, submitted, made, retained>>

\* _request.
Make ==
  /\ AtStep("make")
  /\ \E d \in Documents \ made :
       /\ d.expires_at = clock + Lifetime
       /\ made' = made \cup {d}
       /\ Proceed(TRUE, d)
  /\ UNCHANGED <<vars, reach, file, submitted, retained>>

\* Faulty: an existing file is truncated.
CreateOver ==
  /\ AtStep("create")
  /\ file' = Partial
  /\ Proceed(TRUE, script.document)
  /\ UNCHANGED <<vars, reach, submitted, made, retained>>

\* _write_state creates the file with O_EXCL,
Create ==
  /\ AtStep("create")
  /\ file' = IF file = None THEN Partial ELSE file
  /\ Proceed(file = None, script.document)
  /\ UNCHANGED <<vars, reach, submitted, made, retained>>

\* and has written it when the stream is closed.
Write ==
  /\ AtStep("write")
  /\ file' = script.document
  /\ Proceed(TRUE, script.document)
  /\ UNCHANGED <<vars, reach, submitted, made, retained>>

\* _read_state.
Read ==
  /\ AtStep("read")
  /\ Proceed(file \in Documents, IF file \in Documents THEN file ELSE None)
  /\ UNCHANGED <<vars, reach, file, submitted, made, retained>>

-----------------------------------------------------------------------------------
(* Calls about the request.                                                        *)

\* Whether the gateway, by the step it takes, answers d as the script expects it to.
AnswersAsExpected(d, step) ==
  LET row == rows'[d.request_id]
  IN  /\ row.document = d
      /\ IF step = "submit" THEN row.state = "completed" /\ row.output.key = key
                            ELSE row.state = "acknowledged"

\* A POST of the request: it is answered at once, or a thread is at work on it.
Post(step, t, c) ==
  LET d == script.document
  IN  /\ up /\ AtStep(step)
      /\ submitted' = IF script.phase = "prepare" THEN d ELSE submitted
      /\ IF LifetimeAllows(d, clock)
         THEN /\ Infer(t, c, d)
              /\ IF thread'[t] = Idle
                 THEN Proceed(AdmitError(c, d, clock) = "none" /\ AnswersAsExpected(d, step), d)
                 ELSE script' = [script EXCEPT !.thread = t]
         ELSE UNCHANGED vars /\ Proceed(FALSE, d)
      /\ UNCHANGED <<reach, file, made, retained>>

Submit(t, c) == Post("submit", t, c)

\* acknowledge posts an acknowledgement,
PostAcknowledgement(c) ==
  LET d == script.document
  IN  /\ AtStep("acknowledge")
      /\ AcknowledgeCall(c, d.request_id, "persisted")
      /\ Proceed(AcknowledgeError(c, d.request_id, "persisted", clock) = "none", d)
      /\ UNCHANGED <<reach, file, submitted, made, retained>>

\* and then the request again, which must be unknown now.
Recheck(t, c) == Post("recheck", t, c)

\* Faulty: where the address does not answer, the request is handed to the fallback.
WorkerAnswersAnyway(t) == WorkerReturns(t)

\* A worker with an address may admit the request, answer it, lose it or refuse it.  At a
\* closed port the availability of the primary is unknown, and a worker that is unknown is
\* not passed over for the fallback: the call is refused.  Without a fallback it is refused by
\* the port itself.
WorkerAnswers(t) == IF reach THEN WorkerReturns(t) ELSE CallRefused(t)

\* The gateway's thread takes a step.  One that serves the script's call may answer it.
GatewayStep(t) ==
  /\ \/ thread[t].pc # "worker" /\ (ThreadStep(t) \/ WaitTimeout(t))
     \/ WorkerAnswers(t)
  /\ IF script.thread = t /\ thread'[t] = Idle
     THEN LET d == script.document
          IN  Proceed(/\ Plan(script.phase)[script.at] = "submit"
                      /\ \/ thread[t].pc = "release" /\ thread[t].reply = "completed"
                         \/ thread[t].pc = "reload" /\ AnswersAsExpected(d, "submit"), d)
     ELSE UNCHANGED script
  /\ UNCHANGED <<reach, file, submitted, made, retained>>

-----------------------------------------------------------------------------------
(* What may go wrong, and what the operator does.                                   *)

\* The phase is stopped, or its call fails: httpx gives up after its timeout, or the
\* gateway does not answer.  The gateway's thread goes on.
Abandon ==
  /\ Running
  /\ script' = Resting("stopped", script.document)
  /\ UNCHANGED <<vars, reach, file, submitted, made, retained>>

\* The process dies with the calls it serves.
GatewayStops ==
  /\ Crash
  /\ script' = IF script.thread = None THEN script ELSE Resting("stopped", script.document)
  /\ UNCHANGED <<reach, file, submitted, made, retained>>

\* The service manager restarts the gateway as it was; the operator, who restarts it
\* between phases, may change the address of the worker.
GatewayRestarts ==
  /\ Restart
  /\ reach' \in IF Running THEN {reach} ELSE BOOLEAN
  /\ retained' = retained \cup Retained'
  /\ UNCHANGED <<script, file, submitted, made>>

\* A directory of its own for the next restart proof: mktemp.
NewDirectory ==
  /\ ~ Running
  /\ file' = None /\ submitted' = None
  /\ UNCHANGED <<vars, reach, script, made, retained>>

Elsewhere ==
  /\ Sweep(clock) \/ Tick
  /\ UNCHANGED proofVars

ProofNext ==
  \/ \E phase \in {"run", "prepare", "reconcile"} : StartPhase(phase)
  \/ Health \/ Make \/ Create \/ Write \/ Read
  \/ \E c \in Credentials : \/ PostAcknowledgement(c)
                            \/ \E t \in Threads : Submit(t, c) \/ Recheck(t, c)
  \/ \E t \in Threads : GatewayStep(t)
  \/ Abandon \/ GatewayStops \/ GatewayRestarts \/ NewDirectory \/ Elsewhere

ProofSpec == ProofInit /\ [][ProofNext]_allVars

-----------------------------------------------------------------------------------
(* Properties.                                                                     *)

\* What reconcile-restart has proved when it succeeds against a gateway that is pointed at a
\* closed port for this phase: the result was held by the gateway before the restart, and is
\* no fresh work (README.md, "missing state now fails instead of dispatching fresh work").
\* The closed port is what shows it.  With the address of a worker the phase may succeed on
\* fresh work, since a worker that is down at the health check may be back at the submit.
ReconciledWasRetained ==
  [][(script.verdict # "reconcile" /\ script'.verdict = "reconcile" /\ ~reach) =>
       script'.document \in retained]_allVars

\* prepare-restart persists the exact request before it submits it, and no later run in
\* the directory replaces it: what the gateway may hold can be asked for (_write_state).
SubmittedIsOnFile == submitted # None => file = submitted

\* A phase that acknowledges leaves no result behind, whatever happened to the gateway.
SuccessLeavesNothing ==
  script.verdict \in {"run", "reconcile"} => rows[script.document.request_id].output = None

\* A result that survived the restart is replayed and acknowledged, while SQLite works: an
\* answer fails the reconciliation only if there was none, its request has expired, or an
\* earlier run has acknowledged it.
RetainedReplays ==
  [][script.phase = "reconcile" /\ script'.verdict = "failed" /\ script.document # None =>
       LET d == script.document
       IN  \/ d \notin retained
           \/ clock >= d.expires_at
           \/ AtStep("submit") /\ rows[d.request_id].state = "acknowledged"]_allVars
===================================================================================
