--------------------------- MODULE OperationalProofProofs -------------------------
(***********************************************************************************)
(* Theorems of OperationalProof: what its script has proved when it succeeds, for    *)
(* every number of threads, requests, attempts and restarts.                        *)
(***********************************************************************************)
EXTENDS GatewayServiceProofs, OperationalProof

-----------------------------------------------------------------------------------
(* The script.                                                                     *)

Phases == {"run", "prepare", "reconcile"}

Scripts == [phase : Phases \cup {"rest"},
            at : Nat,
            document : Documents \cup {None},
            thread : Threads \cup {None},
            verdict : Phases \cup {"none", "failed", "stopped"}]

StepNow == Plan(script.phase)[script.at]

\* The script is at a step of its plan, has a request from the third step on, and waits only
\* for a gateway that runs.
ScriptInv ==
  /\ script \in Scripts
  /\ submitted \in Documents \cup {None}
  /\ retained \subseteq Documents
  /\ reach \in BOOLEAN
  /\ Running => /\ script.at \in 1..Len(Plan(script.phase))
                /\ script.verdict = "none"
                /\ script.at <= 2 <=> script.document = None
  /\ script.thread # None => up /\ Running /\ StepNow \in {"submit", "recheck"}
  /\ ~up => \A t \in Threads : thread[t] = Idle

\* The plans, step by step.
LEMMA Plans ==
  /\ Len(Plan("run")) = 6 /\ Len(Plan("prepare")) = 5 /\ Len(Plan("reconcile")) = 5
  /\ Plan("run")[1] = "health" /\ Plan("run")[2] = "make" /\ Plan("run")[3] = "submit"
  /\ Plan("run")[4] = "submit" /\ Plan("run")[5] = "acknowledge" /\ Plan("run")[6] = "recheck"
  /\ Plan("prepare")[1] = "health" /\ Plan("prepare")[2] = "make"
  /\ Plan("prepare")[3] = "create" /\ Plan("prepare")[4] = "write"
  /\ Plan("prepare")[5] = "submit"
  /\ Plan("reconcile")[1] = "health" /\ Plan("reconcile")[2] = "read"
  /\ Plan("reconcile")[3] = "submit" /\ Plan("reconcile")[4] = "acknowledge"
  /\ Plan("reconcile")[5] = "recheck"
BY DEF Plan

\* Where a script is, by the step it takes.
Stands(phase, n) == script.phase = phase /\ script.at = n

Where ==
  /\ StepNow = "health" => script.at = 1
  /\ StepNow = "make" => Stands("run", 2) \/ Stands("prepare", 2)
  /\ StepNow = "create" => Stands("prepare", 3)
  /\ StepNow = "write" => Stands("prepare", 4)
  /\ StepNow = "read" => Stands("reconcile", 2)
  /\ StepNow = "submit" => \/ Stands("run", 3) \/ Stands("run", 4)
                           \/ Stands("prepare", 5) \/ Stands("reconcile", 3)
  /\ StepNow = "acknowledge" => Stands("run", 5) \/ Stands("reconcile", 4)
  /\ StepNow = "recheck" => Stands("run", 6) \/ Stands("reconcile", 5)

\* A script that runs is at a step of one of the three plans.
LEMMA StepsOfPlans ==
  ASSUME ScriptInv, Running
  PROVE  Where /\ script.phase \in Phases
<1>1. script.phase \in Phases
  BY DEF ScriptInv, Scripts, Running
<1>2. script.at \in 1..Len(Plan(script.phase))
  BY DEF ScriptInv
<1>3. CASE script.phase = "run"
  <2>1. script.at \in 1..6
    BY <1>2, <1>3, Plans
  <2>2. \/ (script.at = 1 /\ StepNow = "health") \/ (script.at = 2 /\ StepNow = "make")
       \/ (script.at = 3 /\ StepNow = "submit") \/ (script.at = 4 /\ StepNow = "submit")
       \/ (script.at = 5 /\ StepNow = "acknowledge") \/ (script.at = 6 /\ StepNow = "recheck")
    BY <2>1, <1>3, Plans DEF StepNow
  <2> QED
    BY <1>1, <1>3, <2>2 DEF Where, Stands
<1>4. CASE script.phase = "prepare"
  <2>1. script.at \in 1..5
    BY <1>2, <1>4, Plans
  <2>2. \/ (script.at = 1 /\ StepNow = "health") \/ (script.at = 2 /\ StepNow = "make")
       \/ (script.at = 3 /\ StepNow = "create") \/ (script.at = 4 /\ StepNow = "write")
       \/ (script.at = 5 /\ StepNow = "submit")
    BY <2>1, <1>4, Plans DEF StepNow
  <2> QED
    BY <1>1, <1>4, <2>2 DEF Where, Stands
<1>5. CASE script.phase = "reconcile"
  <2>1. script.at \in 1..5
    BY <1>2, <1>5, Plans
  <2>2. \/ (script.at = 1 /\ StepNow = "health") \/ (script.at = 2 /\ StepNow = "read")
       \/ (script.at = 3 /\ StepNow = "submit") \/ (script.at = 4 /\ StepNow = "acknowledge")
       \/ (script.at = 5 /\ StepNow = "recheck")
    BY <2>1, <1>5, Plans DEF StepNow
  <2> QED
    BY <1>1, <1>5, <2>2 DEF Where, Stands
<1> QED
  BY <1>1, <1>3, <1>4, <1>5 DEF Phases

\* A phase that is over.
Rests(verdict, d) == script' = Resting(verdict, d)

\* A phase that goes on to its next step.
GoesOn(d) ==
  /\ script.at < Len(Plan(script.phase))
  /\ script' \in Scripts
  /\ script'.phase = script.phase /\ script'.at = script.at + 1
  /\ script'.document = d /\ script'.thread = None /\ script'.verdict = script.verdict

\* A phase that goes on, or is over after its last step.
Passes(d) ==
  GoesOn(d) \/ (script.at = Len(Plan(script.phase)) /\ Rests(script.phase, d))

\* The fields of the script between phases.
LEMMA RestingSets ==
  ASSUME NEW verdict \in Phases \cup {"none", "failed", "stopped"},
         NEW d \in Documents \cup {None}, Rests(verdict, d)
  PROVE  /\ script' \in Scripts
         /\ script'.phase = "rest" /\ script'.at = 0 /\ script'.document = d
         /\ script'.thread = None /\ script'.verdict = verdict
BY DEF Rests, Resting, Scripts

\* The step after a step that succeeded,
LEMMA PassSets ==
  ASSUME ScriptInv, Running, NEW d \in Documents \cup {None}, Proceed(TRUE, d)
  PROVE  Passes(d)
<1>1. CASE script.at = Len(Plan(script.phase))
  BY <1>1 DEF Proceed, Passes, Rests
<1>2. CASE script.at # Len(Plan(script.phase))
  <2>1. script' = [script EXCEPT !.at = @ + 1, !.thread = None, !.document = d]
    BY <1>2 DEF Proceed
  <2>2. script.at < Len(Plan(script.phase))
    <3>1. Len(Plan(script.phase)) \in Nat
      BY Plans, StepsOfPlans DEF Phases
    <3> QED
      BY <1>2, <3>1 DEF ScriptInv
  <2>3. /\ script'.phase = script.phase /\ script'.at = script.at + 1
        /\ script'.document = d /\ script'.thread = None /\ script'.verdict = script.verdict
    BY <2>1 DEF ScriptInv, Scripts
  <2>4. script' \in Scripts
    <3>1. script \in Scripts /\ script.at + 1 \in Nat
      BY DEF ScriptInv, Scripts
    <3> QED
      BY <2>1, <3>1 DEF Scripts
  <2> QED
    BY <2>2, <2>3, <2>4 DEF Passes, GoesOn
<1> QED
  BY <1>1, <1>2

\* and after one that failed.
LEMMA FailureSets ==
  ASSUME NEW d, Proceed(FALSE, d)
  PROVE  Rests("failed", d)
BY DEF Proceed, Rests

-----------------------------------------------------------------------------------
(* What each step makes of the script.                                             *)

\* From its third step on a phase has a request, and the calls come after that.
LEMMA CallsHaveRequests ==
  ASSUME ScriptInv, Running, script.at > 2
  PROVE  /\ script.document \in Documents
         /\ script.document.request_id \in RequestIds
         /\ script.document.expires_at \in Nat
<1>1. script.document # None
  BY DEF ScriptInv, Scripts
<1>2. script.document \in Documents
  BY <1>1 DEF ScriptInv, Scripts
<1> QED
  BY <1>2, DocumentsAssumption

\* What a request that was posted makes of the script.
Posted(step, t, c, d) ==
  \/ /\ LifetimeAllows(d, clock) /\ Infer(t, c, d)
     /\ \/ /\ thread'[t] = Idle
           /\ AdmitError(c, d, clock) = "none" /\ AnswersAsExpected(d, step) /\ Passes(d)
        \/ /\ thread'[t] = Idle
           /\ ~(AdmitError(c, d, clock) = "none" /\ AnswersAsExpected(d, step))
           /\ Rests("failed", d)
        \/ thread'[t] # Idle /\ script' = [script EXCEPT !.thread = t]
  \/ ~LifetimeAllows(d, clock) /\ UNCHANGED vars /\ Rests("failed", d)

\* A post is made for the request of the phase: an answer lets the phase go on, or fails it.
LEMMA PostOutcome ==
  ASSUME ScriptInv, NEW step \in {"submit", "recheck"}, NEW t \in Threads, NEW c,
         Post(step, t, c)
  PROVE  /\ up /\ Running /\ script.thread = None /\ StepNow = step /\ script.at > 2
         /\ script.document \in Documents
         /\ Posted(step, t, c, script.document)
<1>1. up /\ Running /\ script.thread = None /\ StepNow = step
  BY DEF Post, AtStep, StepNow
<1>2. script.at > 2
  BY <1>1, StepsOfPlans DEF Where, Stands
<1>3. script.document \in Documents
  BY <1>1, <1>2, CallsHaveRequests
<1>4. Posted(step, t, c, script.document)
  <2> DEFINE d == script.document
  <2>1. CASE ~LifetimeAllows(d, clock)
    <3>1. UNCHANGED vars /\ Proceed(FALSE, d)
      BY <2>1 DEF Post
    <3> QED
      BY <2>1, <3>1, FailureSets DEF Posted
  <2>2. CASE LifetimeAllows(d, clock) /\ thread'[t] # Idle
    BY <2>2 DEF Post, Posted
  <2>3. CASE LifetimeAllows(d, clock) /\ thread'[t] = Idle
    <3>1. /\ Infer(t, c, d)
          /\ Proceed(AdmitError(c, d, clock) = "none" /\ AnswersAsExpected(d, step), d)
      BY <2>3 DEF Post
    <3>2. CASE AdmitError(c, d, clock) = "none" /\ AnswersAsExpected(d, step)
      <4>1. Proceed(TRUE, d)
        BY <3>1, <3>2
      <4> QED
        BY <1>1, <1>3, <2>3, <3>1, <3>2, <4>1, PassSets DEF Posted
    <3>3. CASE ~(AdmitError(c, d, clock) = "none" /\ AnswersAsExpected(d, step))
      <4>1. Proceed(FALSE, d)
        BY <3>1, <3>3
      <4> QED
        BY <2>3, <3>1, <3>3, <4>1, FailureSets DEF Posted
    <3> QED
      BY <3>2, <3>3
  <2> QED
    BY <2>1, <2>2, <2>3
<1> QED
  BY <1>1, <1>2, <1>3, <1>4

\* What a step of the gateway's thread t makes of the script.
Served(t) ==
  \/ script' = script
  \/ Running /\ script.thread = t /\ Rests("failed", script.document)
  \/ /\ Running /\ script.thread = t /\ StepNow = "submit" /\ Passes(script.document)
     /\ \/ thread[t].pc = "release" /\ thread[t].reply = "completed"
        \/ thread[t].pc = "reload" /\ AnswersAsExpected(script.document, "submit")

\* A thread that does not end the script's call leaves the script alone; one that does is an
\* answer to the submission, and only a completed one passes.
LEMMA ServedOutcome ==
  ASSUME ScriptInv, NEW t \in Threads, GatewayStep(t)
  PROVE  Served(t)
<1> DEFINE d == script.document
           ok == /\ Plan(script.phase)[script.at] = "submit"
                 /\ \/ thread[t].pc = "release" /\ thread[t].reply = "completed"
                    \/ thread[t].pc = "reload" /\ AnswersAsExpected(d, "submit")
<1>1. CASE ~(script.thread = t /\ thread'[t] = Idle)
  BY <1>1 DEF GatewayStep, Served
<1>2. CASE script.thread = t /\ thread'[t] = Idle
  <2>1. Proceed(ok, d)
    BY <1>2 DEF GatewayStep
  <2>2. Running /\ script.thread = t /\ d \in Documents \cup {None}
    BY <1>2, ProofAssumption DEF ScriptInv, Scripts
  <2>3. CASE ok
    <3>1. Proceed(TRUE, d)
      BY <2>1, <2>3
    <3> QED
      BY <2>2, <2>3, <3>1, PassSets DEF Served, StepNow
  <2>4. CASE ~ok
    <3>1. Proceed(FALSE, d)
      BY <2>1, <2>4
    <3> QED
      BY <2>2, <3>1, FailureSets DEF Served
  <2> QED
    BY <2>3, <2>4
<1> QED
  BY <1>1, <1>2

\* The steps that need no request at the gateway go on with the phase, or fail it.
Prepared ==
  \/ /\ script.at = 1 /\ up /\ file' = file /\ made' = made
     /\ Passes(None) \/ Rests("failed", None)
  \/ /\ Stands("run", 2) \/ Stands("prepare", 2)
     /\ file' = file /\ \E d \in Documents : Passes(d)
  \/ /\ Stands("prepare", 3)
     /\ \/ file = None /\ Passes(script.document)
        \/ file # None /\ file' = file /\ Rests("failed", script.document)
  \/ Stands("prepare", 4) /\ file' = script.document /\ Passes(script.document)
  \/ /\ Stands("reconcile", 2) /\ file' = file
     /\ (\E d \in Documents : Passes(d)) \/ Rests("failed", None)

\* Those steps do that, and touch nothing of the gateway.
LEMMA PreparedOutcome ==
  ASSUME ScriptInv, Health \/ Make \/ Create \/ Write \/ Read
  PROVE  Running /\ Prepared /\ UNCHANGED <<vars, reach, submitted, retained>>
<1>1. Running /\ script.document \in Documents \cup {None}
  BY DEF ScriptInv, Scripts, Health, Make, Create, Write, Read, AtStep
<1>2. UNCHANGED <<vars, reach, submitted, retained>>
  BY DEF Health, Make, Create, Write, Read
<1>3. CASE Health
  <2>1. script.at = 1
    BY <1>3, StepsOfPlans DEF Health, AtStep, StepNow, Where
  <2>2. CASE Proceed(TRUE, None)
    BY <1>1, <1>2, <1>3, <2>1, <2>2, PassSets DEF Prepared, Health
  <2>3. CASE Proceed(FALSE, None)
    BY <1>1, <1>2, <1>3, <2>1, <2>3, FailureSets DEF Prepared, Health
  <2>4. Proceed(TRUE, None) \/ Proceed(FALSE, None)
    <3>1. PICK available \in {FALSE, reach} :
            Proceed(available = (script.phase # "reconcile"), None)
      BY <1>3 DEF Health
    <3>2. (available = (script.phase # "reconcile")) \in BOOLEAN
      OBVIOUS
    <3> QED
      BY <3>1, <3>2
  <2> QED
    BY <2>2, <2>3, <2>4
<1>4. CASE Make
  <2>1. Stands("run", 2) \/ Stands("prepare", 2)
    BY <1>4, StepsOfPlans DEF Make, AtStep, StepNow, Where
  <2>2. PICK d \in Documents : Proceed(TRUE, d)
    BY <1>4 DEF Make
  <2>3. Passes(d)
    BY <1>1, <2>2, PassSets
  <2> QED
    BY <1>1, <1>2, <1>4, <2>1, <2>3 DEF Prepared, Make
<1>5. CASE Create
  <2>1. Stands("prepare", 3)
    BY <1>5, StepsOfPlans DEF Create, AtStep, StepNow, Where
  <2>2. CASE file = None
    <3>1. Proceed(TRUE, script.document)
      BY <1>5, <2>2 DEF Create
    <3> QED
      BY <1>1, <1>2, <2>1, <2>2, <3>1, PassSets DEF Prepared
  <2>3. CASE file # None
    <3>1. Proceed(FALSE, script.document) /\ file' = file
      BY <1>5, <2>3 DEF Create
    <3> QED
      BY <1>1, <1>2, <2>1, <2>3, <3>1, FailureSets DEF Prepared
  <2> QED
    BY <1>1, <1>2, <2>2, <2>3
<1>6. CASE Write
  <2>1. Stands("prepare", 4)
    BY <1>6, StepsOfPlans DEF Write, AtStep, StepNow, Where
  <2>2. Passes(script.document)
    BY <1>1, <1>6, PassSets DEF Write
  <2> QED
    BY <1>1, <1>2, <1>6, <2>1, <2>2 DEF Prepared, Write
<1>7. CASE Read
  <2>1. Stands("reconcile", 2)
    BY <1>7, StepsOfPlans DEF Read, AtStep, StepNow, Where
  <2>2. CASE file \in Documents
    <3>1. Proceed(TRUE, file)
      BY <1>7, <2>2 DEF Read
    <3>2. Passes(file)
      BY <1>1, <2>2, <3>1, PassSets
    <3> QED
      BY <1>1, <1>2, <1>7, <2>1, <2>2, <3>2 DEF Prepared, Read
  <2>3. CASE file \notin Documents
    <3>1. Rests("failed", None)
      BY <1>7, <2>3 DEF Read, Proceed, Rests
    <3> QED
      BY <1>1, <1>2, <1>7, <2>1, <3>1 DEF Prepared, Read
  <2> QED
    BY <1>1, <1>2, <2>2, <2>3
<1> QED
  BY <1>3, <1>4, <1>5, <1>6, <1>7

\* An acknowledgement is answered at once.
AcknowledgedAs(c, d) ==
  /\ AcknowledgeCall(c, d.request_id, "persisted")
  /\ \/ AcknowledgeError(c, d.request_id, "persisted", clock) = "none" /\ Passes(d)
     \/ AcknowledgeError(c, d.request_id, "persisted", clock) # "none" /\ Rests("failed", d)

\* Such a step does that, where the plans have it.
LEMMA AcknowledgeOutcome ==
  ASSUME ScriptInv, NEW c, PostAcknowledgement(c)
  PROVE  /\ Running /\ script.thread = None /\ script.document \in Documents
         /\ Stands("run", 5) \/ Stands("reconcile", 4)
         /\ AcknowledgedAs(c, script.document)
         /\ UNCHANGED <<reach, file, submitted, made, retained>>
<1> DEFINE d == script.document
<1>1. /\ Running /\ script.thread = None
      /\ Stands("run", 5) \/ Stands("reconcile", 4)
  BY StepsOfPlans DEF PostAcknowledgement, AtStep, StepNow, Where
<1>2. d \in Documents
  BY <1>1, CallsHaveRequests DEF Stands
<1>3. CASE AcknowledgeError(c, d.request_id, "persisted", clock) = "none"
  <2>1. Proceed(TRUE, d)
    BY <1>3 DEF PostAcknowledgement
  <2> QED
    BY <1>1, <1>2, <1>3, <2>1, PassSets DEF PostAcknowledgement, AcknowledgedAs
<1>4. CASE AcknowledgeError(c, d.request_id, "persisted", clock) # "none"
  <2>1. Proceed(FALSE, d)
    BY <1>4 DEF PostAcknowledgement
  <2> QED
    BY <1>1, <1>2, <1>4, <2>1, FailureSets DEF PostAcknowledgement, AcknowledgedAs
<1> QED
  BY <1>3, <1>4

-----------------------------------------------------------------------------------
(* The script stays well formed.                                                   *)

\* What the other variables do.
Around ==
  /\ submitted' \in Documents \cup {None}
  /\ retained' \subseteq Documents
  /\ reach' \in BOOLEAN
  /\ ~up' => \A t \in Threads : thread'[t] = Idle

\* A script at rest is well formed,
LEMMA RestKeeps ==
  ASSUME Around, NEW verdict \in Phases \cup {"none", "failed", "stopped"},
         NEW d \in Documents \cup {None}, Rests(verdict, d)
  PROVE  ScriptInv'
<1>1. /\ script' \in Scripts
      /\ script'.phase = "rest" /\ script'.thread = None
  BY RestingSets
<1> QED
  BY <1>1 DEF ScriptInv, Around, Running

\* and one that goes on with a request from its second step on.
LEMMA PassKeeps ==
  ASSUME ScriptInv, Running, Around, NEW d \in Documents \cup {None}, Passes(d),
         script.at = 1 <=> d = None
  PROVE  ScriptInv'
<1>1. CASE GoesOn(d)
  <2>1. /\ script.at \in Nat /\ script.at >= 1 /\ script.verdict = "none"
        /\ Len(Plan(script.phase)) \in Nat
    BY Plans, StepsOfPlans DEF ScriptInv, Scripts, Phases
  <2>2. /\ script' \in Scripts /\ script'.thread = None
        /\ script'.verdict = "none"
        /\ script'.at \in 1..Len(Plan(script'.phase))
        /\ script'.at <= 2 <=> script'.document = None
    BY <1>1, <2>1 DEF GoesOn
  <2> QED
    BY <2>2 DEF ScriptInv, Around
<1>2. CASE Rests(script.phase, d)
  BY <1>2, StepsOfPlans, RestKeeps
<1> QED
  BY <1>1, <1>2 DEF Passes

\* So does one that waits for a thread of the gateway,
LEMMA WaitKeeps ==
  ASSUME ScriptInv, Running, Around, up', StepNow \in {"submit", "recheck"},
         NEW t \in Threads, script' = [script EXCEPT !.thread = t]
  PROVE  ScriptInv'
<1>1. /\ script' \in Scripts
      /\ script'.phase = script.phase /\ script'.at = script.at
      /\ script'.document = script.document /\ script'.verdict = script.verdict
  BY DEF ScriptInv, Scripts
<1>2. Running' /\ StepNow' = StepNow
  BY <1>1 DEF Running, StepNow
<1> QED
  BY <1>1, <1>2 DEF ScriptInv, Around, Running

\* and one that stands still while the gateway runs.
LEMMA StandKeeps ==
  ASSUME ScriptInv, Around, script' = script, script.thread = None \/ up'
  PROVE  ScriptInv'
<1>1. Running' = Running /\ StepNow' = StepNow
  BY DEF Running, StepNow
<1> QED
  BY <1>1 DEF ScriptInv, Around

\* A thread that takes a step was not idle; the others keep theirs.
LEMMA StepsAreUp ==
  ASSUME ScriptInv, ServiceInv, NEW t \in Threads, GatewayStep(t)
  PROVE  up /\ UNCHANGED <<clock, up, key>>
<1>1. UNCHANGED <<clock, up, key>>
  BY DEF GatewayStep, WorkerAnswers, ThreadStep, ClaimLane, JoinActive, Reload, Answer, Mark, Dispatch, Collect,
     WorkerReturns, CallRefused, CallLost, CallInvalid, CallAnswered, MarkUnsettled,
     ReleaseLane, WaitTimeout
<1>2. thread[t].pc \in Steps
  BY DEF GatewayStep, WorkerAnswers, ThreadStep, ClaimLane, JoinActive, Reload, Answer, Mark, Dispatch, Collect,
     WorkerReturns, CallRefused, CallLost, CallInvalid, CallAnswered, MarkUnsettled,
     ReleaseLane, WaitTimeout, Steps, OwnerSteps
<1>3. thread[t] # Idle
  BY <1>2, BusyIsNotIdle
<1> QED
  BY <1>1, <1>3 DEF ScriptInv

\* The phase begins.
BeginsAs(phase) == script' = [Resting("none", None) EXCEPT !.phase = phase, !.at = 1]

\* A phase that begins is at its first step and has no request.
LEMMA BeginKeeps ==
  ASSUME Around, NEW phase \in Phases, BeginsAs(phase)
  PROVE  ScriptInv'
<1>1. /\ script' \in Scripts /\ script'.phase = phase /\ script'.at = 1
      /\ script'.document = None /\ script'.thread = None /\ script'.verdict = "none"
  BY DEF BeginsAs, Resting, Scripts, Phases
<1>2. 1 \in 1..Len(Plan(phase))
  BY Plans DEF Phases
<1> QED
  BY <1>1, <1>2 DEF ScriptInv, Around

\* Every step keeps the script well formed.
LEMMA ScriptStep == ScriptInv /\ ServiceInv /\ [ProofNext]_allVars => ScriptInv'
<1> SUFFICES ASSUME ScriptInv, ServiceInv, [ProofNext]_allVars
             PROVE  ScriptInv'
  OBVIOUS
<1> DEFINE d == script.document
<1>1. /\ submitted \in Documents \cup {None} /\ retained \subseteq Documents
      /\ reach \in BOOLEAN
      /\ ~up => \A t \in Threads : thread[t] = Idle
      /\ script.thread # None => up
      /\ d \in Documents \cup {None}
  BY DEF ScriptInv, Scripts
<1>2. CASE UNCHANGED allVars
  BY <1>1, <1>2, StandKeeps DEF Around, allVars, proofVars, vars
<1>3. ASSUME NEW phase \in Phases, StartPhase(phase)
      PROVE  ScriptInv'
  BY <1>1, <1>3, BeginKeeps DEF StartPhase, BeginsAs, Around, vars
<1>4. CASE Health \/ Make \/ Create \/ Write \/ Read
  <2>1. Running /\ Prepared /\ Around
    BY <1>1, <1>4, PreparedOutcome DEF Around, vars
  <2>2. PICK e \in Documents \cup {None} :
          Rests("failed", e) \/ (Passes(e) /\ (script.at = 1 <=> e = None))
    <3>1. None \notin Documents
      BY NoneAssumption
    <3>2. script.at > 2 => d # None
      BY <2>1 DEF ScriptInv, Scripts
    <3> QED
      BY <1>1, <2>1, <3>1, <3>2 DEF Prepared, Stands
  <2> QED
    BY <2>1, <2>2, RestKeeps, PassKeeps
<1>5. ASSUME NEW c \in Credentials, PostAcknowledgement(c)
      PROVE  ScriptInv'
  <2>1. /\ Running /\ d \in Documents /\ script.at # 1
        /\ Passes(d) \/ Rests("failed", d)
        /\ UNCHANGED <<reach, submitted, retained, up, thread>>
    BY <1>5, AcknowledgeOutcome DEF AcknowledgedAs, Stands, AcknowledgeCall
  <2>2. Around
    BY <1>1, <2>1 DEF Around
  <2> QED
    BY <2>1, <2>2, NoneAssumption, RestKeeps, PassKeeps
<1>6. ASSUME NEW c \in Credentials, NEW t \in Threads, Submit(t, c) \/ Recheck(t, c)
      PROVE  ScriptInv'
  <2>1. PICK step \in {"submit", "recheck"} : Post(step, t, c)
    BY <1>6 DEF Submit, Recheck
  <2>2. /\ up /\ Running /\ StepNow = step /\ script.at > 2
        /\ d \in Documents /\ Posted(step, t, c, d)
    BY <2>1, PostOutcome
  <2>3. up' = up
    BY <2>2 DEF Posted, Infer, vars
  <2>4. Around
    BY <1>1, <2>1, <2>2, <2>3 DEF Post, Around
  <2>5. \/ Passes(d) \/ Rests("failed", d) \/ script' = [script EXCEPT !.thread = t]
    BY <2>2 DEF Posted
  <2>6. d # None /\ script.at # 1
    BY <2>2, NoneAssumption DEF ScriptInv, Scripts
  <2> QED
    BY <2>2, <2>3, <2>4, <2>5, <2>6, RestKeeps, PassKeeps, WaitKeeps
<1>7. ASSUME NEW t \in Threads, GatewayStep(t)
      PROVE  ScriptInv'
  <2>1. up /\ up' = up /\ UNCHANGED <<reach, submitted, retained>>
    BY <1>7, StepsAreUp DEF GatewayStep
  <2>2. Around
    BY <1>1, <2>1 DEF Around
  <2>3. Served(t)
    BY <1>7, ServedOutcome
  <2>4. CASE script' = script
    BY <2>1, <2>2, <2>4, StandKeeps
  <2>5. CASE Running /\ Rests("failed", d)
    BY <1>1, <2>2, <2>5, RestKeeps
  <2>6. CASE Running /\ StepNow = "submit" /\ Passes(d)
    <3>1. script.at > 2 /\ script.at # 1
      BY <2>6, StepsOfPlans DEF Where, Stands
    <3> QED
      BY <2>2, <2>6, <3>1, CallsHaveRequests, NoneAssumption, PassKeeps
  <2> QED
    BY <2>3, <2>4, <2>5, <2>6 DEF Served
<1>8. CASE Abandon
  BY <1>1, <1>8, RestKeeps DEF Abandon, Around, Rests, vars
<1>9. CASE GatewayStops
  <2>1. Around
    BY <1>1, <1>9 DEF GatewayStops, Crash, Around
  <2> QED
    BY <1>1, <1>9, <2>1, StandKeeps, RestKeeps DEF GatewayStops, Rests
<1>10. CASE GatewayRestarts
  <2>1. up' /\ script' = script
    BY <1>10 DEF GatewayRestarts, Restart
  <2>2. Around
    BY <1>1, <1>10, <2>1 DEF GatewayRestarts, Around, Retained
  <2> QED
    BY <2>1, <2>2, StandKeeps
<1>11. CASE NewDirectory
  BY <1>1, <1>11, StandKeeps DEF NewDirectory, Around, vars
<1>12. CASE Elsewhere
  BY <1>1, <1>12, StandKeeps DEF Elsewhere, Sweep, Tick, Around, proofVars
<1> QED
  BY <1>2, <1>3, <1>4, <1>5, <1>6, <1>7, <1>8, <1>9, <1>10, <1>11, <1>12
  DEF ProofNext, Phases

-----------------------------------------------------------------------------------
(* Behind the script runs the gateway of GatewayService.                           *)

\* Every step of the proof is a step of the process, or none of its concern.
LEMMA ProofStepIsService ==
  ScriptInv /\ ServiceInv /\ [ProofNext]_allVars => [ServiceNext]_vars
<1> SUFFICES ASSUME ScriptInv, ServiceInv, [ProofNext]_allVars
             PROVE  [ServiceNext]_vars
  OBVIOUS
<1>1. CASE UNCHANGED allVars
  BY <1>1 DEF allVars
<1>2. CASE (\E phase \in Phases : StartPhase(phase)) \/ Abandon \/ NewDirectory
  BY <1>2 DEF StartPhase, Abandon, NewDirectory
<1>3. CASE Health \/ Make \/ Create \/ Write \/ Read
  BY <1>3, PreparedOutcome
<1>4. ASSUME NEW c \in Credentials, PostAcknowledgement(c)
      PROVE  ServiceNext
  <2>1. /\ script.document \in Documents
        /\ AcknowledgeCall(c, script.document.request_id, "persisted")
    BY <1>4, AcknowledgeOutcome DEF AcknowledgedAs
  <2>2. script.document.request_id \in RequestIds
    BY <2>1, DocumentsAssumption
  <2> QED
    BY <2>1, <2>2 DEF ServiceNext, Dispositions
<1>5. ASSUME NEW c \in Credentials, NEW t \in Threads, Submit(t, c) \/ Recheck(t, c)
      PROVE  [ServiceNext]_vars
  <2>1. PICK step \in {"submit", "recheck"} : Post(step, t, c)
    BY <1>5 DEF Submit, Recheck
  <2>2. script.document \in Documents /\ Posted(step, t, c, script.document)
    BY <2>1, PostOutcome
  <2> QED
    BY <2>2 DEF Posted, ServiceNext
<1>6. ASSUME NEW t \in Threads, GatewayStep(t)
      PROVE  ServiceNext
  BY <1>6 DEF GatewayStep, WorkerAnswers, ServiceNext, ThreadStep, WorkerReturns
<1>7. CASE GatewayStops \/ GatewayRestarts
  BY <1>7 DEF GatewayStops, GatewayRestarts, ServiceNext
<1>8. CASE Elsewhere
  <2>1. clock \in Seconds
    BY DEF ServiceInv, ServiceTypeOK
  <2> QED
    BY <1>8, <2>1 DEF Elsewhere, ServiceNext
<1> QED
  BY <1>1, <1>2, <1>3, <1>4, <1>5, <1>6, <1>7, <1>8 DEF ProofNext, Phases

\* The proof begins with no phase and no request.
LEMMA ScriptInitially == ProofInit => ScriptInv
<1> SUFFICES ASSUME ProofInit
             PROVE  ScriptInv
  OBVIOUS
<1>1. /\ script.phase = "rest" /\ script.thread = None /\ script \in Scripts
  BY DEF ProofInit, Resting, Scripts
<1>2. \A t \in Threads : thread[t] = Idle
  BY DEF ProofInit, ServiceInit
<1> QED
  BY <1>1, <1>2 DEF ProofInit, ScriptInv, Running

\* The invariant of the gateway and of the script: the phase is at a step of its plan, and
\* waits only for a gateway that runs (prove_operational_gateway.py:266-298, 327-363).
THEOREM ProofInvariant == ProofSpec => [](ServiceInv /\ ScriptInv)
<1>1. ProofInit => ServiceInv /\ ScriptInv
  BY ServiceInitially, ScriptInitially DEF ProofInit
<1>2. ServiceInv /\ ScriptInv /\ [ProofNext]_allVars => ServiceInv' /\ ScriptInv'
  BY ScriptStep, ProofStepIsService, ServiceStep
<1> QED
  BY <1>1, <1>2, PTL DEF ProofSpec

\* Whatever the script, its operator and crashes do, the gateway behind them behaves as
\* GatewayService says: the phases call it and restart it, and touch nothing of it
\* (prove_operational_gateway.py:71-100).
THEOREM ProofRunsService == ProofSpec => ServiceSpec
<1>1. ProofInit => ServiceInit
  BY DEF ProofInit
<1>2. ServiceInv /\ ScriptInv /\ [ProofNext]_allVars => [ServiceNext]_vars
  BY ProofStepIsService
<1> QED
  BY <1>1, <1>2, ProofInvariant, PTL DEF ProofSpec, ServiceSpec

-----------------------------------------------------------------------------------
(* The request is on file before it is submitted.                                  *)

\* A phase that goes on stands one step further, with the same request or its first one.
LEMMA PassStands ==
  ASSUME ScriptInv, Running, NEW d \in Documents \cup {None}, Passes(d),
         NEW phase \in Phases, NEW n \in Nat, Stands(phase, n)'
  PROVE  Stands(phase, n - 1) /\ script'.document = d
<1>1. CASE GoesOn(d)
  BY <1>1 DEF GoesOn, Stands, ScriptInv, Scripts
<1>2. CASE Rests(script.phase, d)
  BY <1>2 DEF Rests, Resting, Stands, Phases
<1> QED
  BY <1>1, <1>2 DEF Passes

\* A phase that is over stands nowhere.
LEMMA RestStands ==
  ASSUME NEW verdict, NEW d, Rests(verdict, d), NEW phase \in Phases, NEW n
  PROVE  ~Stands(phase, n)'
BY DEF Rests, Resting, Stands, Phases

\* What was submitted is on file; nothing was submitted while the file is incomplete; and the
\* phase that writes the file submits what it has written.
FileInv ==
  /\ SubmittedIsOnFile
  /\ Stands("prepare", 4) => submitted = None
  /\ Stands("prepare", 5) => file = script.document

\* Steps that leave the file and what was submitted alone, and do not go on with the phase
\* prepare.
LEMMA FileStays ==
  ASSUME FileInv, UNCHANGED <<file, submitted>>,
         \/ script' = script
         \/ \E t : script' = [script EXCEPT !.thread = t]
         \/ \E verdict, d : Rests(verdict, d)
         \/ \E phase \in Phases : BeginsAs(phase)
         \/ ScriptInv /\ Running /\ (\E d \in Documents \cup {None} : Passes(d))
              /\ ~Stands("prepare", 3) /\ ~Stands("prepare", 4)
  PROVE  FileInv'
<1>1. SubmittedIsOnFile'
  BY DEF FileInv, SubmittedIsOnFile
<1>2. ASSUME NEW n \in {4, 5}, Stands("prepare", n)'
      PROVE  Stands("prepare", n) /\ script'.document = script.document
  <2>1. CASE script' = script
    BY <1>2, <2>1 DEF Stands
  <2>2. CASE \E t : script' = [script EXCEPT !.thread = t]
    BY <1>2, <2>2 DEF Stands
  <2>3. CASE \E verdict, d : Rests(verdict, d)
    BY <1>2, <2>3, RestStands DEF Phases
  <2>4. CASE \E phase \in Phases : BeginsAs(phase)
    <3>1. script'.at = 1
      BY <2>4 DEF BeginsAs, Resting
    <3> QED
      BY <1>2, <3>1 DEF Stands
  <2>5. CASE ScriptInv /\ Running /\ (\E d \in Documents \cup {None} : Passes(d))
               /\ ~Stands("prepare", 3) /\ ~Stands("prepare", 4)
    BY <1>2, <2>5, PassStands DEF Phases
  <2> QED
    BY <2>1, <2>2, <2>3, <2>4, <2>5
<1> QED
  BY <1>1, <1>2 DEF FileInv

\* Every step keeps the request on file.
LEMMA FileStep == ScriptInv /\ ServiceInv /\ FileInv /\ [ProofNext]_allVars => FileInv'
<1> SUFFICES ASSUME ScriptInv, ServiceInv, FileInv, [ProofNext]_allVars
             PROVE  FileInv'
  OBVIOUS
<1> DEFINE d == script.document
<1>1. d \in Documents \cup {None}
  BY DEF ScriptInv, Scripts
<1>2. CASE UNCHANGED allVars
  BY <1>2, FileStays DEF allVars, proofVars
<1>3. CASE \/ \E phase \in Phases : StartPhase(phase)
           \/ Abandon \/ GatewayStops \/ GatewayRestarts \/ Elsewhere
  BY <1>3, FileStays
  DEF StartPhase, BeginsAs, Abandon, GatewayStops, GatewayRestarts, Elsewhere, Rests, proofVars
<1>4. CASE Health \/ Make \/ Create \/ Write \/ Read
  <2>1. Running /\ Prepared /\ UNCHANGED submitted
    BY <1>4, PreparedOutcome
  <2>2. CASE Stands("prepare", 3) /\ file = None /\ Passes(d)
    <3>1. submitted = None
      BY <2>2 DEF FileInv, SubmittedIsOnFile
    <3>2. ~Stands("prepare", 5)'
      BY <1>1, <2>1, <2>2, PassStands DEF Phases, Stands
    <3> QED
      BY <2>1, <3>1, <3>2 DEF FileInv, SubmittedIsOnFile
  <2>3. CASE Stands("prepare", 4) /\ file' = d /\ Passes(d)
    <3>1. submitted = None
      BY <2>3 DEF FileInv
    <3>2. ~Stands("prepare", 4)'
      BY <1>1, <2>1, <2>3, PassStands DEF Phases, Stands
    <3>3. Stands("prepare", 5)' => script'.document = d
      BY <1>1, <2>1, <2>3, PassStands DEF Phases
    <3> QED
      BY <2>1, <2>3, <3>1, <3>2, <3>3 DEF FileInv, SubmittedIsOnFile
  <2>4. CASE /\ file' = file /\ ~Stands("prepare", 3) /\ ~Stands("prepare", 4)
             /\ \E e \in Documents \cup {None} : Passes(e) \/ Rests("failed", e)
    BY <2>1, <2>4, FileStays
  <2>5. CASE file' = file /\ Rests("failed", d)
    BY <2>1, <2>5, FileStays
  <2> QED
    BY <2>1, <2>2, <2>3, <2>4, <2>5 DEF Prepared, Stands
<1>5. ASSUME NEW c \in Credentials, PostAcknowledgement(c)
      PROVE  FileInv'
  BY <1>5, AcknowledgeOutcome, FileStays DEF AcknowledgedAs, Stands
<1>6. ASSUME NEW c \in Credentials, NEW t \in Threads, Submit(t, c) \/ Recheck(t, c)
      PROVE  FileInv'
  <2>1. PICK step \in {"submit", "recheck"} : Post(step, t, c)
    BY <1>6 DEF Submit, Recheck
  <2>2. /\ Running /\ StepNow = step /\ d \in Documents /\ Posted(step, t, c, d)
        /\ file' = file /\ submitted' = IF script.phase = "prepare" THEN d ELSE submitted
    BY <2>1, PostOutcome DEF Post
  <2>3. Where /\ script.phase \in Phases
    BY <2>2, StepsOfPlans
  <2>4. CASE script.phase = "prepare"
    <3>1. Stands("prepare", 5)
      BY <2>2, <2>3, <2>4 DEF Where, Stands
    <3>2. file' = d /\ submitted' = d
      BY <2>2, <2>4, <3>1 DEF FileInv
    <3>3. ~Stands("prepare", 4)' /\ (Stands("prepare", 5)' => script'.document = d)
      <4>1. CASE Passes(d)
        BY <1>1, <2>2, <3>1, <4>1, PassStands DEF Phases, Stands
      <4>2. CASE Rests("failed", d)
        BY <4>2, RestStands DEF Phases
      <4>3. CASE script' = [script EXCEPT !.thread = t]
        BY <3>1, <4>3 DEF Stands
      <4> QED
        BY <2>2, <4>1, <4>2, <4>3 DEF Posted
    <3> QED
      BY <3>2, <3>3 DEF FileInv, SubmittedIsOnFile
  <2>5. CASE script.phase # "prepare"
    <3>1. submitted' = submitted /\ ~Stands("prepare", 3) /\ ~Stands("prepare", 4)
      BY <2>2, <2>5 DEF Stands
    <3> QED
      BY <2>2, <3>1, FileStays DEF Posted
  <2> QED
    BY <2>4, <2>5
<1>7. ASSUME NEW t \in Threads, GatewayStep(t)
      PROVE  FileInv'
  <2>1. Served(t) /\ UNCHANGED <<file, submitted>>
    BY <1>7, ServedOutcome DEF GatewayStep
  <2>2. Running /\ StepNow = "submit" => ~Stands("prepare", 3) /\ ~Stands("prepare", 4)
    BY StepsOfPlans DEF Where, Stands
  <2> QED
    BY <1>1, <2>1, <2>2, FileStays DEF Served
<1>8. CASE NewDirectory
  <2>1. ~Running /\ UNCHANGED script /\ file' = None /\ submitted' = None
    BY <1>8 DEF NewDirectory
  <2> QED
    BY <2>1 DEF FileInv, SubmittedIsOnFile, Stands, Running
<1> QED
  BY <1>2, <1>3, <1>4, <1>5, <1>6, <1>7, <1>8 DEF ProofNext, Phases

\* The exact request is on file before it is submitted, and stays there: whatever the
\* gateway holds can be asked for, however a phase ends (prove_operational_gateway.py:300-363,
\* _write_state and main).
THEOREM SubmittedStaysOnFile == ProofSpec => []SubmittedIsOnFile
<1>1. ProofInit => FileInv
  BY DEF ProofInit, Resting, FileInv, SubmittedIsOnFile, Stands
<1>2. ServiceInv /\ ScriptInv /\ FileInv /\ [ProofNext]_allVars => FileInv'
  BY FileStep
<1>3. FileInv => SubmittedIsOnFile
  BY DEF FileInv
<1> QED
  BY <1>1, <1>2, <1>3, ProofInvariant, PTL DEF ProofSpec

-----------------------------------------------------------------------------------
(* What the steps beside the script's own calls do to the table.                   *)

\* A method that files no request and acknowledges none, or none at all.
Calm == rows' = rows \/ TimelyAttempt

\* The steps that are no call of the script are calm.
LEMMA OthersAreCalm ==
  ASSUME ServiceInv,
         \/ \E t \in Threads : GatewayStep(t)
         \/ GatewayStops \/ GatewayRestarts \/ NewDirectory \/ Elsewhere
         \/ UNCHANGED vars
  PROVE  Calm
<1>1. ASSUME NEW t \in Threads, GatewayStep(t)
      PROVE  Calm
  <2>1. ThreadStep(t) \/ WaitTimeout(t)
    BY <1>1 DEF GatewayStep, WorkerAnswers, ThreadStep, WorkerReturns
  <2> QED
    BY <2>1, ThreadTableStep DEF ServiceInv, Calm
<1>2. clock \in Seconds /\ clock <= clock
  BY DEF ServiceInv, ServiceTypeOK, Seconds
<1>3. CASE GatewayRestarts
  BY <1>2, <1>3, SweepsAreSteps DEF GatewayRestarts, Restart, Calm
<1>4. CASE Elsewhere
  BY <1>2, <1>4, SweepsAreSteps DEF Elsewhere, Sweep, Tick, Calm
<1>5. CASE GatewayStops \/ NewDirectory \/ UNCHANGED vars
  BY <1>5 DEF GatewayStops, Crash, NewDirectory, vars, Calm
<1> QED
  BY <1>1, <1>3, <1>4, <1>5

\* A calm step lets each row run on.
LEMMA CalmRows ==
  ASSUME ServiceInv, Calm, NEW id \in RequestIds
  PROVE  \E at \in Seconds : at <= clock /\ RowRuns(rows[id], rows'[id], at)
<1>1. clock \in Seconds /\ clock <= clock
  BY DEF ServiceInv, ServiceTypeOK, Seconds
<1>2. CASE rows' = rows
  BY <1>1, <1>2 DEF RowRuns
<1>3. CASE TimelyAttempt
  BY <1>3, AttemptCallRuns DEF TimelyAttempt, ServiceInv, StoreInv
<1> QED
  BY <1>2, <1>3 DEF Calm

-----------------------------------------------------------------------------------
(* A phase that acknowledges leaves no result behind.                              *)

\* The request of a phase that has acknowledged is closed, or forgotten already.
LeftInv ==
  script.verdict \in {"run", "reconcile"} =>
    /\ script.document \in Documents
    /\ rows[script.document.request_id].state \in {"acknowledged", "absent"}

\* It stays so: nothing but a call of the script files a request.
LEMMA LeftStays ==
  ASSUME ServiceInv, LeftInv, Calm, script' = script
  PROVE  LeftInv'
<1> SUFFICES ASSUME script.verdict \in {"run", "reconcile"}
             PROVE  rows'[script.document.request_id].state \in {"acknowledged", "absent"}
  BY DEF LeftInv
<1> DEFINE id == script.document.request_id
<1>1. id \in RequestIds /\ rows[id].state \in {"acknowledged", "absent"}
  BY DocumentsAssumption DEF LeftInv
<1>2. PICK at \in Seconds : RowRuns(rows[id], rows'[id], at)
  BY <1>1, CalmRows
<1> QED
  BY <1>1, <1>2 DEF RowRuns, Lapses, Forgets, Attempted, States, OpenStates, Tombstones

\* Only the last steps of the phases that acknowledge lead to their success.
LEMMA SuccessIsLast ==
  ASSUME ScriptInv, Running, NEW d \in Documents \cup {None}, Passes(d),
         script'.verdict \in {"run", "reconcile"}
  PROVE  (Stands("run", 6) \/ Stands("reconcile", 5)) /\ script'.document = d
<1>1. CASE GoesOn(d)
  BY <1>1 DEF GoesOn, ScriptInv
<1>2. CASE script.at = Len(Plan(script.phase)) /\ Rests(script.phase, d)
  <2>1. script'.verdict = script.phase /\ script'.document = d
    BY <1>2 DEF Rests, Resting
  <2> QED
    BY <1>2, <2>1, Plans DEF Stands
<1> QED
  BY <1>1, <1>2 DEF Passes

\* So no other step of a phase has anything to show.
LEMMA OthersLeaveNothing ==
  ASSUME ScriptInv,
         \/ Running /\ \E t : script' = [script EXCEPT !.thread = t]
         \/ \E verdict \in {"failed", "stopped"}, d \in Documents \cup {None} :
              Rests(verdict, d)
         \/ \E phase \in Phases : BeginsAs(phase)
         \/ /\ Running /\ \E d \in Documents \cup {None} : Passes(d)
            /\ ~Stands("run", 6) /\ ~Stands("reconcile", 5)
  PROVE  LeftInv'
<1> SUFFICES script'.verdict \notin {"run", "reconcile"}
  BY DEF LeftInv
<1>1. CASE Running /\ \E t : script' = [script EXCEPT !.thread = t]
  BY <1>1 DEF ScriptInv, Scripts
<1>2. CASE \E verdict \in {"failed", "stopped"}, d \in Documents \cup {None} : Rests(verdict, d)
  BY <1>2 DEF Rests, Resting
<1>3. CASE \E phase \in Phases : BeginsAs(phase)
  BY <1>3 DEF BeginsAs, Resting
<1>4. CASE /\ Running /\ \E d \in Documents \cup {None} : Passes(d)
           /\ ~Stands("run", 6) /\ ~Stands("reconcile", 5)
  BY <1>4, SuccessIsLast
<1> QED
  BY <1>1, <1>2, <1>3, <1>4

\* Every step keeps it.
LEMMA LeftStep == ScriptInv /\ ServiceInv /\ LeftInv /\ [ProofNext]_allVars => LeftInv'
<1> SUFFICES ASSUME ScriptInv, ServiceInv, LeftInv, [ProofNext]_allVars
             PROVE  LeftInv'
  OBVIOUS
<1> DEFINE d == script.document
<1>1. d \in Documents \cup {None}
  BY DEF ScriptInv, Scripts
<1>2. CASE UNCHANGED allVars
  BY <1>2, OthersAreCalm, LeftStays DEF allVars, proofVars
<1>3. CASE (\E phase \in Phases : StartPhase(phase)) \/ Abandon
  BY <1>1, <1>3, OthersLeaveNothing DEF StartPhase, BeginsAs, Abandon, Rests
<1>4. CASE Health \/ Make \/ Create \/ Write \/ Read
  <2>1. Running /\ Prepared
    BY <1>4, PreparedOutcome
  <2>2. ~Stands("run", 6) /\ ~Stands("reconcile", 5)
    BY <2>1 DEF Prepared, Stands
  <2>3. \E e \in Documents \cup {None} : Passes(e) \/ Rests("failed", e)
    BY <1>1, <2>1 DEF Prepared
  <2> QED
    BY <2>1, <2>2, <2>3, OthersLeaveNothing
<1>5. ASSUME NEW c \in Credentials, PostAcknowledgement(c)
      PROVE  LeftInv'
  BY <1>1, <1>5, AcknowledgeOutcome, OthersLeaveNothing DEF AcknowledgedAs, Stands
<1>6. ASSUME NEW c \in Credentials, NEW t \in Threads, Submit(t, c) \/ Recheck(t, c)
      PROVE  LeftInv'
  <2>1. PICK step \in {"submit", "recheck"} : Post(step, t, c)
    BY <1>6 DEF Submit, Recheck
  <2>2. Running /\ StepNow = step /\ d \in Documents /\ Posted(step, t, c, d)
    BY <2>1, PostOutcome
  <2>3. CASE ~Passes(d)
    BY <1>1, <2>2, <2>3, OthersLeaveNothing DEF Posted
  <2>4. CASE Passes(d) /\ step = "submit"
    <3>1. ~Stands("run", 6) /\ ~Stands("reconcile", 5)
      BY <2>2, <2>4, StepsOfPlans DEF Where, Stands
    <3> QED
      BY <1>1, <2>2, <2>4, <3>1, OthersLeaveNothing
  <2>5. CASE Passes(d) /\ step = "recheck"
    <3>1. CASE AnswersAsExpected(d, step)
      <4>1. rows'[d.request_id].state = "acknowledged"
        BY <2>5, <3>1 DEF AnswersAsExpected
      <4>2. script'.verdict \in {"run", "reconcile"} => script'.document = d
        BY <1>1, <2>2, <2>5, SuccessIsLast
      <4> QED
        BY <2>2, <4>1, <4>2 DEF LeftInv
    <3>2. CASE ~AnswersAsExpected(d, step)
      BY <1>1, <2>2, <3>2, OthersLeaveNothing DEF Posted
    <3> QED
      BY <3>1, <3>2
  <2> QED
    BY <2>3, <2>4, <2>5
<1>7. ASSUME NEW t \in Threads, GatewayStep(t)
      PROVE  LeftInv'
  <2>1. Served(t) /\ Calm
    BY <1>7, ServedOutcome, OthersAreCalm
  <2>2. Running /\ StepNow = "submit" => ~Stands("run", 6) /\ ~Stands("reconcile", 5)
    BY StepsOfPlans DEF Where, Stands
  <2> QED
    BY <1>1, <2>1, <2>2, LeftStays, OthersLeaveNothing DEF Served
<1>8. CASE GatewayStops
  BY <1>1, <1>8, OthersAreCalm, LeftStays, OthersLeaveNothing DEF GatewayStops, Rests
<1>9. CASE GatewayRestarts \/ NewDirectory \/ Elsewhere
  <2>1. script' = script
    BY <1>9 DEF GatewayRestarts, NewDirectory, Elsewhere, proofVars
  <2> QED
    BY <1>9, <2>1, OthersAreCalm, LeftStays
<1> QED
  BY <1>2, <1>3, <1>4, <1>5, <1>6, <1>7, <1>8, <1>9 DEF ProofNext, Phases

\* The success of a phase that acknowledges means that no result of it is left at the
\* gateway, however often the gateway was stopped in between and whatever its threads did
\* (prove_operational_gateway.py:237-298, Proof.acknowledge and run; store.py:456-494).
THEOREM SuccessLeftNothing == ProofSpec => []SuccessLeavesNothing
<1>1. ProofInit => LeftInv
  BY DEF ProofInit, Resting, LeftInv
<1>2. ServiceInv /\ ScriptInv /\ LeftInv /\ [ProofNext]_allVars => LeftInv'
  BY LeftStep
<1>3. ServiceInv /\ LeftInv => SuccessLeavesNothing
  <2> SUFFICES ASSUME ServiceInv, LeftInv, script.verdict \in {"run", "reconcile"}
               PROVE  rows[script.document.request_id].output = None
    BY DEF SuccessLeavesNothing
  <2>1. /\ script.document.request_id \in RequestIds
        /\ rows[script.document.request_id].state # "completed"
    BY DocumentsAssumption DEF LeftInv
  <2> QED
    BY <2>1 DEF ServiceInv, StoreInv, GoodTable, GoodRow
<1> QED
  BY <1>1, <1>2, <1>3, ProofInvariant, PTL DEF ProofSpec

-----------------------------------------------------------------------------------
(* Without a worker, no new result is found.                                       *)

\* No thread is about to answer with a result that a worker has just returned.
Uncollected == \A t \in Threads : thread[t].pc # "collect" /\ thread[t].reply # "completed"

\* While the gateway has no worker, what it holds it held at its last start.
CutInv == ~reach => Retained \subseteq retained /\ Uncollected

\* No result is about to be answered after a call has returned.
LEMMA IdleLeaves ==
  ASSUME ServiceTypeOK, Uncollected, NEW t \in Threads, Return(t)
  PROVE  Uncollected'
<1>1. None # "completed"
  BY RepliesAssumption DEF Replies
<1>2. \A u \in Threads : thread'[u] = IF u = t THEN Idle ELSE thread[u]
  BY DEF Return, ServiceTypeOK
<1> QED
  BY <1>1, <1>2 DEF Uncollected, Idle

\* Nor after a call has come to an answer, if that is not a result.
LEMMA FinishLeaves ==
  ASSUME ServiceTypeOK, Uncollected, NEW t \in Threads, thread[t].pc \in Steps,
         NEW reply, reply # "completed", Finish(t, reply)
  PROVE  Uncollected'
<1>1. thread[t] \in Call /\ thread \in [Threads -> Call \cup {Idle}]
  BY BusyIsNotIdle DEF ServiceTypeOK
<1>2. /\ thread'[t].pc = "release" /\ thread'[t].reply = reply
      /\ \A u \in Threads \ {t} : thread'[u] = thread[u]
  BY <1>1 DEF Finish, Call
<1> QED
  BY <1>2 DEF Uncollected

\* Nor after a reload has found no answer.
LEMMA ConclusionLeaves ==
  ASSUME ServiceTypeOK, Uncollected, NEW t \in Threads, thread[t].pc \in Steps, Concludes(t)
  PROVE  Uncollected'
<1>1. thread[t] \in Call /\ thread \in [Threads -> Call \cup {Idle}]
  BY BusyIsNotIdle DEF ServiceTypeOK
<1>2. PICK reply \in {"worker_unavailable", "inference_timeout"} :
        thread' = [thread EXCEPT ![t].pc = "answer", ![t].reply = reply]
  BY DEF Concludes
<1>3. /\ thread'[t].pc = "answer" /\ thread'[t].reply = reply
      /\ \A u \in Threads \ {t} : thread'[u] = thread[u]
  BY <1>1, <1>2 DEF Call
<1> QED
  BY <1>3 DEF Uncollected

\* Nor after a call has gone on, if not to collect a result.
LEMMA StepLeaves ==
  ASSUME ServiceTypeOK, Uncollected, NEW t \in Threads, thread[t].pc \in Steps,
         NEW s, s # "collect",
         \/ thread' = [thread EXCEPT ![t].pc = s]
         \/ \E a : thread' = [thread EXCEPT ![t].pc = s, ![t].attempt = a]
         \/ \E n : thread' = [thread EXCEPT ![t].pc = s, ![t].deadline = n]
  PROVE  Uncollected'
<1>1. thread[t] \in Call /\ thread \in [Threads -> Call \cup {Idle}]
  BY BusyIsNotIdle DEF ServiceTypeOK
<1>2. /\ thread'[t].pc = s /\ thread'[t].reply = thread[t].reply
      /\ \A u \in Threads \ {t} : thread'[u] = thread[u]
  BY <1>1 DEF Call
<1> QED
  BY <1>2 DEF Uncollected

\* A request whose time is over is reloaded, and ends without a result.
LEMMA ExpiryLeaves ==
  ASSUME ServiceInv, GoodTable(rows), Uncollected, NEW t \in Threads, Owner(t), NEW at,
         ExpireInstead(t, at)
  PROVE  CompletedStay /\ Uncollected'
<1>1. thread[t].pc \in Steps
  BY DEF Owner, Steps
<1>2. CompletedStay
  BY OnlyCompleteCompletes DEF ExpireInstead
<1>3. Finish(t, "request_expired") \/ Settle(t)
  BY DEF ExpireInstead
<1> QED
  BY <1>1, <1>2, <1>3, FinishLeaves, StepLeaves DEF Settle, ServiceInv

\* A thread that is not answered by a worker completes no row and collects no result.
LEMMA ThreadLeaves ==
  ASSUME ServiceInv, Uncollected, NEW t \in Threads,
         \/ thread[t].pc # "worker" /\ (ThreadStep(t) \/ WaitTimeout(t))
         \/ CallRefused(t)
  PROVE  CompletedStay /\ Uncollected'
<1>1. GoodTable(rows) /\ ServiceTypeOK /\ LaneInv
  BY DEF ServiceInv, StoreInv
<1>2. CASE ClaimLane(t)
  <2>1. rows' = rows /\ thread[t].pc \in Steps
    BY <1>2 DEF ClaimLane, Steps
  <2>2. \/ \E a : thread' = [thread EXCEPT ![t].pc = "mark", ![t].attempt = a]
        \/ thread' = Waiting(t) \/ Return(t)
    BY <1>2 DEF ClaimLane
  <2> QED
    BY <1>1, <2>1, <2>2, OnlyCompleteCompletes, StepLeaves, IdleLeaves DEF Waiting
<1>3. CASE JoinActive(t)
  <2>1. rows' = rows /\ thread[t].pc \in Steps
    BY <1>3 DEF JoinActive, Steps
  <2>2. thread' = Waiting(t) \/ thread' = [thread EXCEPT ![t].pc = "reload"]
    BY <1>3 DEF JoinActive
  <2> QED
    BY <1>1, <2>1, <2>2, OnlyCompleteCompletes, StepLeaves DEF Waiting
<1>4. CASE WaitTimeout(t)
  BY <1>1, <1>4, OnlyCompleteCompletes, IdleLeaves DEF WaitTimeout
<1>5. CASE Reload(t) \/ Answer(t)
  <2>1. CompletedStay
    BY <1>1, <1>5, OnlyCompleteCompletes DEF Reload, Answer
  <2>2. thread[t].pc \in Steps
    BY <1>5 DEF Reload, Answer, Steps
  <2>3. Return(t) \/ Concludes(t)
    BY <1>5, ReloadEnds DEF Answer
  <2> QED
    BY <1>1, <2>1, <2>2, <2>3, IdleLeaves, ConclusionLeaves
<1>6. CASE Mark(t)
  <2>1. PICK at \in Recent :
          \/ ExpireInstead(t, at)
          \/ /\ MarkInProgress(IdOf(t), thread[t].attempt, at)
             /\ thread' = [thread EXCEPT ![t].pc = "dispatch"] \/ Settle(t)
    BY <1>6 DEF Mark
  <2>2. Owner(t) /\ thread[t].pc \in Steps
    BY <1>6 DEF Mark, Owner, OwnerSteps, Steps
  <2>3. CASE ExpireInstead(t, at)
    BY <1>1, <2>2, <2>3, ExpiryLeaves
  <2>4. CASE /\ MarkInProgress(IdOf(t), thread[t].attempt, at)
             /\ thread' = [thread EXCEPT ![t].pc = "dispatch"] \/ Settle(t)
    <3>1. CompletedStay
      BY <1>1, <2>2, <2>4, OwnersAreTyped, OnlyCompleteCompletes
    <3> QED
      BY <1>1, <2>2, <2>4, <3>1, StepLeaves DEF Settle
  <2> QED
    BY <2>1, <2>3, <2>4
<1>7. CASE Dispatch(t)
  <2>1. PICK at \in Recent :
          \/ ExpireInstead(t, at)
          \/ rows' = rows /\ thread' = [thread EXCEPT ![t].pc = "worker"]
    BY <1>7 DEF Dispatch
  <2>2. Owner(t) /\ thread[t].pc \in Steps
    BY <1>7 DEF Dispatch, Owner, OwnerSteps, Steps
  <2> QED
    BY <1>1, <2>1, <2>2, ExpiryLeaves, OnlyCompleteCompletes, StepLeaves
<1>8. CASE CallRefused(t) \/ MarkUnsettled(t)
  <2>1. Owner(t) /\ thread[t].pc \in Steps
    BY <1>8 DEF CallRefused, MarkUnsettled, Owner, OwnerSteps, Steps
  <2>2. \/ ResetReserved(IdOf(t), thread[t].attempt)
        \/ MarkAmbiguous(IdOf(t), thread[t].attempt)
    BY <1>8 DEF CallRefused, MarkUnsettled
  <2>3. CompletedStay
    BY <1>1, <2>1, <2>2, OwnersAreTyped, OnlyCompleteCompletes
  <2> QED
    BY <1>1, <1>8, <2>1, <2>3, FinishLeaves DEF CallRefused, MarkUnsettled
<1>9. CASE ReleaseLane(t)
  <2>1. CompletedStay
    BY <1>1, <1>9, OnlyCompleteCompletes DEF ReleaseLane
  <2>2. ASSUME NEW u \in Threads
        PROVE  thread'[u].pc # "collect" /\ thread'[u].reply # "completed"
    <3>1. thread'[u] = IF u = t THEN Idle ELSE Woken(thread[u])
      BY <1>9 DEF ReleaseLane
    <3>2. CASE u = t
      BY <3>1, <3>2, RepliesAssumption DEF Idle, Replies
    <3>3. CASE u # t /\ thread[u].pc # "wait"
      BY <3>1, <3>3 DEF Woken, Uncollected
    <3>4. CASE u # t /\ thread[u].pc = "wait"
      <4>1. thread[u] \in Call
        BY <1>1, <3>4, BusyIsNotIdle DEF ServiceTypeOK, Steps
      <4>2. thread'[u] = [thread[u] EXCEPT !.pc = "reload", !.deadline = 0]
        BY <3>1, <3>4 DEF Woken
      <4>3. thread'[u].pc = "reload" /\ thread'[u].reply = thread[u].reply
        BY <4>1, <4>2 DEF Call
      <4> QED
        BY <4>3 DEF Uncollected
    <3> QED
      BY <3>2, <3>3, <3>4
  <2> QED
    BY <2>1, <2>2 DEF Uncollected
<1>10. ~Collect(t)
  BY DEF Collect, Uncollected
<1>11. WorkerReturns(t) => thread[t].pc = "worker"
  BY DEF WorkerReturns, CallRefused, CallLost, CallInvalid, CallAnswered
<1> QED
  BY <1>2, <1>3, <1>4, <1>5, <1>6, <1>7, <1>8, <1>9, <1>10, <1>11 DEF ThreadStep

\* Nor does a call that is admitted.
LEMMA InferLeaves ==
  ASSUME ServiceInv, Uncollected, NEW t \in Threads, NEW c \in Credentials,
         NEW d \in Documents, Infer(t, c, d)
  PROVE  CompletedStay /\ Uncollected'
<1> DEFINE call == [Idle EXCEPT !.credential = c, !.document = d]
<1>1. CompletedStay
  BY OnlyCompleteCompletes DEF Infer, ServiceInv, StoreInv
<1>2. None # "completed"
  BY RepliesAssumption DEF Replies
<1>3. \/ thread' = thread
      \/ \E s \in {"claim", "join"} : thread' = [thread EXCEPT ![t] = [call EXCEPT !.pc = s]]
  BY DEF Infer
<1>4. CASE thread' = thread
  BY <1>1, <1>4 DEF Uncollected
<1>5. ASSUME NEW s \in {"claim", "join"},
             thread' = [thread EXCEPT ![t] = [call EXCEPT !.pc = s]]
      PROVE  Uncollected'
  <2>1. [call EXCEPT !.pc = s].pc = s /\ [call EXCEPT !.pc = s].reply = None
    BY DEF Idle
  <2>2. \A u \in Threads : thread'[u] = IF u = t THEN [call EXCEPT !.pc = s] ELSE thread[u]
    BY <1>5 DEF ServiceInv, ServiceTypeOK
  <2> QED
    BY <1>2, <2>1, <2>2 DEF Uncollected
<1> QED
  BY <1>1, <1>3, <1>4, <1>5

\* So nothing is held later that was not held before, by the same key.
LEMMA NothingNew ==
  ASSUME CompletedStay, key' = key
  PROVE  Retained' \subseteq Retained
<1> SUFFICES ASSUME NEW d \in Documents, rows'[d.request_id].document = d, Readable(rows[d.request_id])'
             PROVE  d \in Retained
  BY DEF Retained
<1>1. d.request_id \in RequestIds
  BY DocumentsAssumption
<1>2. rows'[d.request_id].state = "completed" /\ rows'[d.request_id].output.key = key
  BY DEF Readable
<1>3. rows'[d.request_id] = rows[d.request_id]
  BY <1>1, <1>2 DEF CompletedStay
<1> QED
  BY <1>2, <1>3 DEF Retained, Readable

\* A result that answers the script is one the gateway holds.
LEMMA AnswersAreHeld ==
  ASSUME key' = key, NEW d \in Documents, AnswersAsExpected(d, "submit")
  PROVE  d \in Retained'
BY DEF AnswersAsExpected, Retained, Readable

\* Every step keeps the gateway cut off, and finds no new result while it is.
LEMMA CutStep ==
  ScriptInv /\ ServiceInv /\ CutInv /\ [ProofNext]_allVars =>
    /\ CutInv'
    /\ ~reach /\ ~GatewayRestarts => key' = key /\ Retained' \subseteq retained
<1> SUFFICES ASSUME ScriptInv, ServiceInv, CutInv, [ProofNext]_allVars
             PROVE  /\ CutInv'
                    /\ ~reach /\ ~GatewayRestarts => key' = key /\ Retained' \subseteq retained
  OBVIOUS
<1>1. CASE GatewayRestarts
  <2>1. /\ ~up /\ UNCHANGED thread /\ retained' = retained \cup Retained'
    BY <1>1 DEF GatewayRestarts, Restart
  <2>2. \A t \in Threads : thread[t] = Idle
    BY <2>1 DEF ScriptInv
  <2>3. Uncollected'
    BY <2>1, <2>2, RepliesAssumption DEF Uncollected, Idle, Replies
  <2> QED
    BY <1>1, <2>1, <2>3 DEF CutInv
<1>2. CASE ~GatewayRestarts
  <2>1. reach' = reach /\ retained' = retained /\ key' = key
    <3>1. CASE UNCHANGED allVars
      BY <3>1 DEF allVars, proofVars, vars
    <3>2. CASE Health \/ Make \/ Create \/ Write \/ Read
      BY <3>2, PreparedOutcome DEF vars
    <3>3. ASSUME NEW c \in Credentials, PostAcknowledgement(c)
          PROVE  reach' = reach /\ retained' = retained /\ key' = key
      BY <3>3 DEF PostAcknowledgement, AcknowledgeCall
    <3>4. ASSUME NEW c \in Credentials, NEW t \in Threads, Submit(t, c) \/ Recheck(t, c)
          PROVE  reach' = reach /\ retained' = retained /\ key' = key
      BY <3>4 DEF Submit, Recheck, Post, Infer, vars
    <3>5. ASSUME NEW t \in Threads, GatewayStep(t)
          PROVE  reach' = reach /\ retained' = retained /\ key' = key
      BY <3>5, StepsAreUp DEF GatewayStep
    <3>6. CASE (\E phase \in Phases : StartPhase(phase)) \/ Abandon \/ NewDirectory
      BY <3>6 DEF StartPhase, Abandon, NewDirectory, vars
    <3>7. CASE GatewayStops \/ Elsewhere
      BY <3>7 DEF GatewayStops, Crash, Elsewhere, Sweep, Tick, proofVars
    <3> QED
      BY <1>2, <3>1, <3>2, <3>3, <3>4, <3>5, <3>6, <3>7 DEF ProofNext, Phases
  <2>2. ASSUME ~reach
        PROVE  CompletedStay /\ Uncollected'
    <3>1. Uncollected /\ GoodTable(rows)
      BY <2>2 DEF CutInv, ServiceInv, StoreInv
    <3>2. UNCHANGED <<rows, thread>> => CompletedStay /\ Uncollected'
      BY <3>1, OnlyCompleteCompletes DEF Uncollected
    <3>3. CASE UNCHANGED allVars
      BY <3>2, <3>3 DEF allVars, vars
    <3>4. CASE Health \/ Make \/ Create \/ Write \/ Read
      BY <3>2, <3>4, PreparedOutcome DEF vars
    <3>5. ASSUME NEW c \in Credentials, PostAcknowledgement(c)
          PROVE  CompletedStay /\ Uncollected'
      <4>1. /\ script.document \in Documents
            /\ AcknowledgeCall(c, script.document.request_id, "persisted")
        BY <3>5, AcknowledgeOutcome DEF AcknowledgedAs
      <4>2. CompletedStay
        BY <3>1, <4>1, DocumentsAssumption, OnlyCompleteCompletes DEF AcknowledgeCall
      <4> QED
        BY <3>1, <4>1, <4>2 DEF AcknowledgeCall, Uncollected
    <3>6. ASSUME NEW c \in Credentials, NEW t \in Threads, Submit(t, c) \/ Recheck(t, c)
          PROVE  CompletedStay /\ Uncollected'
      <4>1. PICK step \in {"submit", "recheck"} : Post(step, t, c)
        BY <3>6 DEF Submit, Recheck
      <4>2. /\ script.document \in Documents
            /\ Infer(t, c, script.document) \/ UNCHANGED vars
        BY <4>1, PostOutcome DEF Posted
      <4> QED
        BY <3>1, <3>2, <4>2, InferLeaves DEF vars
    <3>7. ASSUME NEW t \in Threads, GatewayStep(t)
          PROVE  CompletedStay /\ Uncollected'
      BY <2>2, <3>1, <3>7, ThreadLeaves DEF GatewayStep, WorkerAnswers
    <3>8. CASE (\E phase \in Phases : StartPhase(phase)) \/ Abandon \/ NewDirectory
      BY <3>2, <3>8 DEF StartPhase, Abandon, NewDirectory, vars
    <3>9. CASE GatewayStops
      <4>1. rows' = rows /\ thread' = [t \in Threads |-> Idle]
        BY <3>9 DEF GatewayStops, Crash
      <4> QED
        BY <3>1, <4>1, OnlyCompleteCompletes, RepliesAssumption DEF Uncollected, Idle, Replies
    <3>10. CASE Elsewhere
      BY <3>1, <3>10, OnlyCompleteCompletes DEF Elsewhere, Sweep, Tick, Uncollected
    <3> QED
      BY <1>2, <3>3, <3>4, <3>5, <3>6, <3>7, <3>8, <3>9, <3>10 DEF ProofNext, Phases
  <2> QED
    BY <2>1, <2>2, NothingNew DEF CutInv
<1> QED
  BY <1>1, <1>2

-----------------------------------------------------------------------------------
(* A reconciliation proves that the result was retained.                           *)

\* Past its submission at a closed port, the result of a reconciliation is one that a restart
\* found.
HeldInv ==
  ~reach /\ script.phase = "reconcile" /\ script.at >= 4 => script.document \in retained

\* So it is at the step by which the reconciliation succeeds.
Reconciles ==
  (script.verdict # "reconcile" /\ script'.verdict = "reconcile" /\ ~reach) =>
    script'.document \in retained

\* Steps that do not go on with the phase.
LEMMA HeldStays ==
  ASSUME HeldInv, ScriptInv, reach' = reach \/ ~Running, retained \subseteq retained',
         \/ script' = script
         \/ Running /\ \E t : script' = [script EXCEPT !.thread = t]
         \/ \E verdict \in {"failed", "stopped"} : \E d : Rests(verdict, d)
         \/ \E phase \in Phases : BeginsAs(phase)
  PROVE  HeldInv' /\ Reconciles
<1>1. CASE script' = script
  BY <1>1 DEF HeldInv, Reconciles, ScriptInv, Scripts, Running
<1>2. CASE Running /\ \E t : script' = [script EXCEPT !.thread = t]
  <2>1. /\ script'.phase = script.phase /\ script'.at = script.at
        /\ script'.document = script.document /\ script'.verdict = script.verdict
    BY <1>2 DEF ScriptInv, Scripts
  <2> QED
    BY <1>2, <2>1 DEF HeldInv, Reconciles
<1>3. CASE \E verdict \in {"failed", "stopped"} : \E d : Rests(verdict, d)
  <2>1. script'.phase = "rest" /\ script'.verdict # "reconcile"
    BY <1>3 DEF Rests, Resting
  <2> QED
    BY <2>1 DEF HeldInv, Reconciles
<1>4. CASE \E phase \in Phases : BeginsAs(phase)
  <2>1. script'.at = 1 /\ script'.verdict # "reconcile"
    BY <1>4 DEF BeginsAs, Resting
  <2> QED
    BY <2>1 DEF HeldInv, Reconciles
<1> QED
  BY <1>1, <1>2, <1>3, <1>4

\* Steps that do.
LEMMA HeldPasses ==
  ASSUME HeldInv, ScriptInv, Running, UNCHANGED <<reach, retained>>,
         NEW d \in Documents \cup {None}, Passes(d),
         ~reach /\ script.phase = "reconcile" /\ script.at >= 3 => d \in retained
  PROVE  HeldInv' /\ Reconciles
<1>1. script.at \in Nat /\ script.at >= 1 /\ script.verdict = "none"
  BY Plans, StepsOfPlans DEF ScriptInv, Scripts, Phases
<1>2. CASE GoesOn(d)
  <2>1. /\ script'.phase = script.phase /\ script'.at = script.at + 1
        /\ script'.document = d /\ script'.verdict = "none"
    BY <1>1, <1>2 DEF GoesOn
  <2> QED
    BY <1>1, <2>1 DEF HeldInv, Reconciles
<1>3. CASE script.at = Len(Plan(script.phase)) /\ Rests(script.phase, d)
  <2>1. /\ script'.phase = "rest" /\ script'.verdict = script.phase
        /\ script'.document = d
    BY <1>3 DEF Rests, Resting
  <2>2. ~reach /\ script.phase = "reconcile" => d \in retained
    BY <1>3, Plans
  <2> QED
    BY <2>1, <2>2 DEF HeldInv, Reconciles
<1> QED
  BY <1>2, <1>3 DEF Passes

\* Every step keeps it.
LEMMA HeldStep ==
  ScriptInv /\ ServiceInv /\ CutInv /\ HeldInv /\ [ProofNext]_allVars =>
    HeldInv' /\ Reconciles
<1> SUFFICES ASSUME ScriptInv, ServiceInv, CutInv, HeldInv, [ProofNext]_allVars
             PROVE  HeldInv' /\ Reconciles
  OBVIOUS
<1> DEFINE d == script.document
<1>1. d \in Documents \cup {None}
  BY DEF ScriptInv, Scripts
<1>2. CASE UNCHANGED allVars
  BY <1>2, HeldStays DEF allVars, proofVars
<1>3. CASE \/ \E phase \in Phases : StartPhase(phase)
           \/ Abandon \/ GatewayStops \/ NewDirectory \/ Elsewhere
  BY <1>3, HeldStays
  DEF StartPhase, BeginsAs, Abandon, GatewayStops, NewDirectory, Elsewhere, Rests, proofVars
<1>4. CASE GatewayRestarts
  <2>1. /\ reach' = reach \/ ~Running
        /\ script' = script /\ retained \subseteq retained'
    BY <1>4 DEF GatewayRestarts
  <2> QED
    BY <2>1, HeldStays
<1>5. CASE Health \/ Make \/ Create \/ Write \/ Read
  <2>1. Running /\ Prepared /\ UNCHANGED <<reach, retained>>
    BY <1>5, PreparedOutcome
  <2>2. CASE \E e \in Documents \cup {None} : Rests("failed", e)
    BY <2>1, <2>2, HeldStays
  <2>3. CASE ~\E e \in Documents \cup {None} : Rests("failed", e)
    <3>1. PICK e \in Documents \cup {None} : Passes(e)
      BY <1>1, <2>1, <2>3 DEF Prepared
    <3>2. ~(script.phase = "reconcile" /\ script.at >= 3)
      BY <2>1 DEF Prepared, Stands
    <3> QED
      BY <2>1, <3>1, <3>2, HeldPasses
  <2> QED
    BY <2>2, <2>3
<1>6. ASSUME NEW c \in Credentials, PostAcknowledgement(c)
      PROVE  HeldInv' /\ Reconciles
  <2>1. /\ Running /\ UNCHANGED <<reach, retained>>
        /\ Stands("run", 5) \/ Stands("reconcile", 4)
        /\ Passes(d) \/ Rests("failed", d)
    BY <1>6, AcknowledgeOutcome DEF AcknowledgedAs
  <2>2. ~reach /\ script.phase = "reconcile" => d \in retained
    BY <2>1 DEF Stands, HeldInv
  <2> QED
    BY <1>1, <2>1, <2>2, HeldStays, HeldPasses
<1>7. ASSUME NEW c \in Credentials, NEW t \in Threads, Submit(t, c) \/ Recheck(t, c)
      PROVE  HeldInv' /\ Reconciles
  <2>1. PICK step \in {"submit", "recheck"} : Post(step, t, c)
    BY <1>7 DEF Submit, Recheck
  <2>2. /\ Running /\ StepNow = step /\ script.at > 2 /\ d \in Documents
        /\ Posted(step, t, c, d) /\ UNCHANGED <<reach, retained>>
    BY <2>1, PostOutcome DEF Post
  <2>3. CASE ~Passes(d)
    <3>1. Rests("failed", d) \/ script' = [script EXCEPT !.thread = t]
      BY <2>2, <2>3 DEF Posted
    <3> QED
      BY <2>2, <3>1, HeldStays
  <2>4. CASE Rests("failed", d)
    BY <2>2, <2>4, HeldStays
  <2>5. CASE Passes(d) /\ ~Rests("failed", d)
    <3>1. ASSUME script.phase = "reconcile", ~reach
          PROVE  d \in retained
      <4>1. ~reach /\ ~GatewayRestarts
        BY <2>1, <3>1, PostOutcome DEF GatewayRestarts, Restart
      <4>2. CASE step = "submit"
        <5>1. AnswersAsExpected(d, "submit") \/ script' = [script EXCEPT !.thread = t]
          BY <2>2, <2>5, <4>2 DEF Posted
        <5>2. script' # [script EXCEPT !.thread = t]
          <6>1. script'.at # script.at
            <7>1. CASE GoesOn(d)
              BY <7>1 DEF GoesOn, ScriptInv, Scripts
            <7>2. CASE Rests(script.phase, d)
              BY <2>2, <7>2 DEF Rests, Resting
            <7> QED
              BY <2>5, <7>1, <7>2 DEF Passes
          <6>2. [script EXCEPT !.thread = t].at = script.at
            BY DEF ScriptInv, Scripts
          <6> QED
            BY <6>1, <6>2
        <5>3. d \in Retained'
          BY <2>2, <4>1, <5>1, <5>2, CutStep, AnswersAreHeld
        <5> QED
          BY <4>1, <5>3, CutStep
      <4>3. CASE step = "recheck"
        <5>1. Stands("reconcile", 5)
          BY <2>2, <3>1, <4>3, StepsOfPlans DEF Where, Stands
        <5> QED
          BY <3>1, <5>1 DEF HeldInv, Stands
      <4> QED
        BY <4>2, <4>3
    <3> QED
      BY <2>2, <2>5, <3>1, HeldPasses
  <2> QED
    BY <2>3, <2>4, <2>5
<1>8. ASSUME NEW t \in Threads, GatewayStep(t)
      PROVE  HeldInv' /\ Reconciles
  <2>1. Served(t) /\ UNCHANGED <<reach, retained>> /\ up
    BY <1>8, ServedOutcome, StepsAreUp DEF GatewayStep
  <2>2. CASE script' = script \/ Rests("failed", d)
    BY <2>1, <2>2, HeldStays
  <2>3. CASE ~(script' = script \/ Rests("failed", d))
    <3>1. /\ Running /\ StepNow = "submit" /\ Passes(d)
          /\ thread[t].reply = "completed" \/ AnswersAsExpected(d, "submit")
      BY <2>1, <2>3 DEF Served
    <3>2. script.at > 2
      BY <3>1, StepsOfPlans DEF Where, Stands
    <3>3. ASSUME script.phase = "reconcile", ~reach
          PROVE  d \in retained
      <4>1. ~reach /\ ~GatewayRestarts
        BY <2>1, <3>3 DEF GatewayRestarts, Restart
      <4>2. thread[t].reply # "completed"
        BY <4>1 DEF CutInv, Uncollected
      <4>3. d \in Documents
        BY <3>1, <3>2, CallsHaveRequests
      <4>4. d \in Retained'
        BY <3>1, <4>1, <4>2, <4>3, CutStep, AnswersAreHeld
      <4> QED
        BY <4>1, <4>4, CutStep
    <3> QED
      BY <1>1, <2>1, <3>1, <3>2, <3>3, HeldPasses
  <2> QED
    BY <2>2, <2>3
<1> QED
  BY <1>2, <1>3, <1>4, <1>5, <1>6, <1>7, <1>8 DEF ProofNext, Phases

\* The invariant behind ReconciledIsRetained: at a closed port the gateway holds what it held
\* at its last start, and so does the phase (prove_operational_gateway.py:208-234, 356-361).
THEOREM HeldInvariant == ProofSpec => [](CutInv /\ HeldInv)
<1>1. ProofInit => CutInv /\ HeldInv
  BY DEF ProofInit, Resting, CutInv, HeldInv
<1>2. ServiceInv /\ ScriptInv /\ CutInv /\ HeldInv /\ [ProofNext]_allVars => CutInv' /\ HeldInv'
  BY CutStep, HeldStep
<1> QED
  BY <1>1, <1>2, ProofInvariant, PTL DEF ProofSpec

\* A reconciliation that succeeds while the gateway is pointed at a closed port has shown what
\* it claims: the gateway held the result when it was restarted, and no worker has produced it
\* since, although the gateway may be restarted and other threads may be at work at any step
\* of the phase (prove_operational_gateway.py:356-361; worker.py:84-95, 352-363).
THEOREM ReconciledIsRetained == ProofSpec => ReconciledWasRetained
<1> DEFINE Inv == ServiceInv /\ ScriptInv /\ CutInv /\ HeldInv
<1>1. ProofSpec => []Inv
  BY ProofInvariant, HeldInvariant, PTL
<1>2. Inv /\ [ProofNext]_allVars =>
        [(script.verdict # "reconcile" /\ script'.verdict = "reconcile" /\ ~reach) =>
           script'.document \in retained]_allVars
  BY HeldStep DEF Reconciles
<1> HIDE DEF Inv
<1> QED
  BY <1>1, <1>2, PTL DEF ProofSpec, ReconciledWasRetained

-----------------------------------------------------------------------------------
(* What survived a restart is replayed and acknowledged.                           *)

\* One operator runs all phases, with one credential and one key file.
OneOperator ==
  /\ \A c, e \in Credentials : c = e
  /\ \A k, l \in Keys : k = l

Over(d) == clock >= d.expires_at
Holds(d, states) ==
  rows[d.request_id].document = d /\ rows[d.request_id].state \in states

\* Every row moves, and the clock goes on.
Moved ==
  /\ \A id \in RequestIds :
       \E at \in Seconds : at <= clock /\ RowMoves(rows[id], rows'[id], at)
  /\ clock' \in Seconds /\ clock' >= clock

\* Every step of the process does that.
LEMMA StepsMove ==
  ASSUME ServiceInv, [ServiceNext]_vars
  PROVE  Moved
<1>1. clock \in Seconds /\ clock <= clock /\ clock \in Nat
  BY DEF ServiceInv, ServiceTypeOK, Seconds
<1>2. ASSUME NEW id \in RequestIds
      PROVE  \E at \in Seconds : at <= clock /\ RowMoves(rows[id], rows'[id], at)
  <2>1. CASE rows'[id] = rows[id]
    BY <1>1, <2>1 DEF RowMoves
  <2>2. CASE rows'[id] # rows[id]
    BY <2>2, ServiceMovesRow
  <2> QED
    BY <2>1, <2>2
<1>3. clock' \in Seconds
  BY ServiceStep DEF ServiceInv, ServiceTypeOK
<1>4. clock' = clock \/ clock' = clock + 1
  <2>1. ASSUME NEW t \in Threads,
               \/ \E c \in Credentials, d \in Documents : Infer(t, c, d)
               \/ WaitTimeout(t) \/ StoreFault(t)
        PROVE  clock' = clock
    BY <2>1 DEF Infer, WaitTimeout, StoreFault
  <2>2. ASSUME NEW t \in Threads, ThreadStep(t)
        PROVE  clock' = clock
    BY <2>2 DEF ThreadStep, ClaimLane, JoinActive, Reload, Answer, Mark, Dispatch, Collect,
       WorkerReturns, CallRefused, CallLost, CallInvalid, CallAnswered, MarkUnsettled,
       ReleaseLane
  <2>3. CASE \/ \E c \in Credentials, id \in RequestIds, s \in Dispositions :
                  AcknowledgeCall(c, id, s)
             \/ \E at \in Seconds : Sweep(at)
             \/ Crash \/ Restart \/ Tick \/ UNCHANGED vars
    BY <2>3 DEF AcknowledgeCall, Sweep, Crash, Restart, Tick, vars
  <2> QED
    BY <2>1, <2>2, <2>3 DEF ServiceNext
<1> QED
  BY <1>1, <1>2, <1>3, <1>4 DEF Moved

\* A tombstone is not forgotten before its request is over.
LEMMA NotForgotten ==
  ASSUME RetentionCovers, Good, NEW d \in Documents, ~Over(d),
         rows[d.request_id].document = d, NEW at \in Seconds, at <= clock,
         NEW new, Forgets(rows[d.request_id], new, at)
  PROVE  FALSE
<1> DEFINE row == rows[d.request_id]
<1>1. d.request_id \in RequestIds /\ row \in Row \cup {Absent}
  BY DocumentsAssumption DEF Good, StoreInv, GoodTable
<1>2. row.state \in Tombstones /\ row.closed_at < at - Retention
  BY DEF Forgets
<1>3. row # Absent
  BY <1>2 DEF Absent, Tombstones
<1>4. row.closed_at \in Nat
  BY <1>1, <1>3 DEF Row, Seconds
<1>5. d.expires_at <= row.closed_at + MaxLag + Lifetime + 1
  BY <1>1, <1>2, <1>3 DEF Good, AttemptInv, RowTimes, TimeGood
<1>6. d.expires_at \in Nat /\ d.expires_at > clock
  BY Numbers DEF Good, Over
<1> QED
  BY <1>2, <1>4, <1>5, <1>6, Numbers DEF RetentionCovers, Good

\* Until the request is over, its row moves only to be acknowledged.
LEMMA HeldMoves ==
  ASSUME RetentionCovers, Good, NEW d \in Documents, ~Over(d),
         Holds(d, {"completed", "acknowledged"}), NEW at \in Seconds, at <= clock
  PROVE  LET old == rows[d.request_id]
             new == rows'[d.request_id]
         IN  /\ RowRuns(old, new, at) => new = old
             /\ RowMoves(old, new, at) =>
                  \/ new = old
                  \/ old.state = "completed" /\ new.document = d /\ new.state = "acknowledged"
             /\ Cleaned(old, at) = old
<1> DEFINE old == rows[d.request_id]
<1>1. old.document = d /\ old.state \in {"completed", "acknowledged"}
  BY DEF Holds
<1>2. old \in Row \cup {Absent}
  BY DocumentsAssumption DEF Good, StoreInv, GoodTable
<1>3. \A new : ~Forgets(old, new, at)
  BY <1>1, NotForgotten
<1>4. \A new : ~Lapses(old, new, at)
  <2>1. d.expires_at > at
    BY Numbers DEF Good, Over
  <2> QED
    BY <1>1, <2>1, Numbers DEF Lapses, Good
<1>5. \A new : ~Attempted(old, new)
  BY <1>1 DEF Attempted
<1>6. Cleaned(old, at) = old
  BY <1>2, <1>3, <1>4, CleanedMoves
<1> QED
  BY <1>1, <1>3, <1>4, <1>5, <1>6 DEF RowRuns, RowMoves, Advances

\* So a repeat of it is admitted, and answered from its row.
LEMMA HeldAnswers ==
  ASSUME RetentionCovers, OneOperator, Good, NEW d \in Documents, ~Over(d),
         Holds(d, {"completed", "acknowledged"}), NEW c \in Credentials
  PROVE  /\ LifetimeAllows(d, clock)
         /\ AdmitError(c, d, clock) = "none"
         /\ \A t \in Threads : Infer(t, c, d) =>
              /\ rows'[d.request_id] = rows[d.request_id]
              /\ thread' = thread
              /\ Holds(d, {"completed"}) => AnswersAsExpected(d, "submit")
              /\ Holds(d, {"acknowledged"}) => AnswersAsExpected(d, "recheck")
<1> DEFINE id == d.request_id
           row == rows[id]
<1>1. id \in RequestIds /\ row \in Row \cup {Absent} /\ GoodRow(id, row)
  BY DocumentsAssumption DEF Good, StoreInv, GoodTable
<1>2. row.document = d /\ row.state \in {"completed", "acknowledged"} /\ row # Absent
  BY DEF Holds, Absent
<1>3. row \in Row /\ row.credential = c
  BY <1>1, <1>2 DEF Row, OneOperator
<1>4. clock \in Recent /\ clock \in Seconds
  BY Numbers DEF Good, Recent, ServiceTypeOK
<1>5. LifetimeAllows(d, clock)
  <2>1. d.expires_at <= clock + Lifetime + 1
    BY <1>1, <1>2 DEF Good, AttemptInv, RowTimes, TimeGood
  <2>2. d.expires_at \in Nat /\ clock \in Nat
    BY Numbers DEF Good
  <2> QED
    BY <2>1, <2>2 DEF LifetimeAllows, Over
<1>6. \A at \in Recent : Cleaned(row, at) = row /\ AdmitError(c, d, at) = "none"
  <2> SUFFICES ASSUME NEW at \in Recent
               PROVE  Cleaned(row, at) = row /\ AdmitError(c, d, at) = "none"
    OBVIOUS
  <2>1. Cleaned(row, at) = row
    BY HeldMoves, Numbers DEF Good
  <2>2. IdentityError(row, c, d) = "none"
    BY <1>2, <1>3 DEF IdentityError
  <2>3. AdmitError(c, d, at) = "none"
    BY <1>2, <2>1, <2>2 DEF AdmitError
  <2> QED
    BY <2>1, <2>3
<1>7. ASSUME NEW t \in Threads, Infer(t, c, d)
      PROVE  rows'[id] = row /\ thread' = thread
  <2>1. PICK at \in Recent :
          /\ Admit(c, d, at)
          /\ AdmitError(c, d, at) = "none" =>
               LET r == rows'[id]
                   call == [Idle EXCEPT !.credential = c, !.document = d]
               IN  thread' = CASE r.state = "reserved"
                                    -> [thread EXCEPT ![t] = [call EXCEPT !.pc = "claim"]]
                               [] r.state = "in_progress"
                                    -> [thread EXCEPT ![t] = [call EXCEPT !.pc = "join"]]
                               [] OTHER -> thread
    BY <1>7 DEF Infer
  <2>2. AdmitError(c, d, at) = "none" /\ Cleaned(row, at) = row
    BY <1>6
  <2>3. Cleanup(at)[id] = row
    BY <1>1, <2>2 DEF Cleanup
  <2>4. rows' = Cleanup(at)
    BY <1>2, <2>1, <2>2, <2>3 DEF Admit
  <2>5. rows'[id] = row
    BY <2>3, <2>4
  <2> QED
    BY <1>2, <2>1, <2>2, <2>5
<1>8. ASSUME rows'[id] = row, row.state = "completed"
      PROVE  AnswersAsExpected(d, "submit")
  <2>1. row.output \in Outputs
    BY <1>1, <1>3, <1>8 DEF GoodRow, Row
  <2>2. row.output.key = key
    BY <2>1 DEF OneOperator, Outputs, Good, ServiceTypeOK
  <2> QED
    BY <1>2, <1>8, <2>2 DEF AnswersAsExpected
<1>9. ASSUME rows'[id] = row, row.state = "acknowledged"
      PROVE  AnswersAsExpected(d, "recheck")
  BY <1>2, <1>9 DEF AnswersAsExpected
<1>10. AdmitError(c, d, clock) = "none"
  BY <1>4, <1>6
<1> QED
  BY <1>5, <1>7, <1>8, <1>9, <1>10 DEF Holds

\* An acknowledgement of it is accepted, and closes it.
LEMMA HeldAcknowledges ==
  ASSUME RetentionCovers, OneOperator, Good, NEW d \in Documents, ~Over(d),
         Holds(d, {"completed"}), NEW c \in Credentials
  PROVE  /\ AcknowledgeError(c, d.request_id, "persisted", clock) = "none"
         /\ AcknowledgeCall(c, d.request_id, "persisted") => Holds(d, {"acknowledged"})'
<1> DEFINE id == d.request_id
           row == rows[id]
<1>1. id \in RequestIds /\ row \in Row \cup {Absent} /\ GoodTable(rows)
  BY DocumentsAssumption DEF Good, StoreInv, GoodTable
<1>2. row.document = d /\ row.state = "completed" /\ row # Absent
  BY DEF Holds, Absent
<1>3. row \in Row /\ row.credential = c
  BY <1>1, <1>2 DEF Row, OneOperator
<1>4. clock \in Recent
  BY Numbers DEF Good, Recent, ServiceTypeOK
<1>5. \A at \in Recent : /\ Cleaned(row, at) = row
                         /\ AcknowledgeError(c, id, "persisted", at) = "none"
  <2> SUFFICES ASSUME NEW at \in Recent
               PROVE  /\ Cleaned(row, at) = row
                      /\ AcknowledgeError(c, id, "persisted", at) = "none"
    OBVIOUS
  <2>1. Cleaned(row, at) = row
    <3>1. Holds(d, {"completed", "acknowledged"})
      BY DEF Holds
    <3> QED
      BY <3>1, HeldMoves, Numbers DEF Good
  <2> QED
    BY <1>2, <1>3, <2>1 DEF AcknowledgeError
<1>6. ASSUME AcknowledgeCall(c, id, "persisted")
      PROVE  Holds(d, {"acknowledged"})'
  <2>1. PICK at \in Recent : Acknowledge(c, id, "persisted", at)
    BY <1>6 DEF AcknowledgeCall
  <2>2. Cleanup(at)[id] = row /\ AcknowledgeError(c, id, "persisted", at) = "none"
    BY <1>1, <1>5 DEF Cleanup
  <2>3. rows' = [Cleanup(at) EXCEPT ![id].state = "acknowledged",
                                    ![id].disposition = "persisted",
                                    ![id].output = None,
                                    ![id].closed_at = at]
    BY <1>2, <2>1, <2>2 DEF Acknowledge
  <2>4. Cleanup(at) \in [RequestIds -> Row \cup {Absent}]
    BY <1>1, <2>1, CleanupIsGood, Numbers DEF GoodTable, Good
  <2>5. rows'[id].state = "acknowledged" /\ rows'[id].document = d
    BY <1>1, <1>2, <1>3, <2>2, <2>3, <2>4 DEF Row
  <2> QED
    BY <2>5 DEF Holds
<1> QED
  BY <1>4, <1>5, <1>6

\* No call is about the row any more.
Closed(d) == rows[d.request_id].state \in {"acknowledged", "absent"}

\* An acknowledgement that is accepted, whatever the row holds, closes it.
LEMMA AcceptedCloses ==
  ASSUME Good, NEW d \in Documents, NEW c \in Credentials,
         AcknowledgeError(c, d.request_id, "persisted", clock) = "none",
         AcknowledgeCall(c, d.request_id, "persisted")
  PROVE  Closed(d)'
<1> DEFINE id == d.request_id
           row == rows[id]
<1>1. id \in RequestIds /\ row \in Row \cup {Absent} /\ GoodTable(rows) /\ clock \in Seconds
  BY DocumentsAssumption DEF Good, StoreInv, GoodTable, ServiceTypeOK, Seconds
<1>2. /\ Cleaned(row, clock) # Absent /\ Cleaned(row, clock).credential = c
      /\ Cleaned(row, clock).state \in {"completed", "acknowledged"}
  <2> DEFINE new == Cleaned(row, clock)
  <2>1. new # Absent
    <3> SUFFICES ASSUME new = Absent
                 PROVE  FALSE
      OBVIOUS
    <3>1. new.state = "absent"
      BY DEF Absent
    <3>2. AcknowledgeError(c, id, "persisted", clock) \in {"unknown", "not_terminal"}
      BY <3>1 DEF AcknowledgeError
    <3> QED
      BY <3>2
  <2>2. new.credential = c
    BY <2>1 DEF AcknowledgeError
  <2>3. new.state \in {"completed", "acknowledged"}
    <3> SUFFICES ASSUME new.state \notin {"completed", "acknowledged"}
                 PROVE  FALSE
      OBVIOUS
    <3>1. AcknowledgeError(c, id, "persisted", clock) \in {"expired", "not_terminal"}
      BY <2>1, <2>2 DEF AcknowledgeError
    <3> QED
      BY <3>1
  <2> QED
    BY <2>1, <2>2, <2>3
<1>3. Cleaned(row, clock) = row
  BY <1>1, <1>2, CleanedMoves DEF Lapses
<1>4. /\ row.credential = c /\ row.state \in {"completed", "acknowledged"}
      /\ row # Absent /\ row \in Row
  BY <1>1, <1>2, <1>3
<1>5. PICK at \in Recent : Acknowledge(c, id, "persisted", at)
  BY DEF AcknowledgeCall
<1>6. at \in Nat /\ at <= clock /\ at \in Seconds /\ clock \in Nat /\ Retention \in Nat
  BY Numbers DEF Good
<1>7. Cleaned(row, at) = row
  <2>1. ~Lapses(row, Cleaned(row, at), at)
    <3> SUFFICES ASSUME row.state \in States \ Tombstones, row.document.expires_at <= at
                 PROVE  FALSE
      BY DEF Lapses
    <3>1. row.document.expires_at <= clock
      BY <1>1, <1>4, <1>6, Numbers DEF Row, Good
    <3>2. Lapse(row, clock).state = "expired"
      BY <1>4, <3>1 DEF Lapse, Row
    <3> QED
      BY <1>2, <3>2 DEF Cleaned, Forget
  <2>2. ~Forgets(row, Cleaned(row, at), at)
    <3> SUFFICES ASSUME row.state \in Tombstones, row.closed_at < at - Retention
                 PROVE  FALSE
      BY DEF Forgets
    <3>1. row.closed_at < clock - Retention
      BY <1>1, <1>4, <1>6 DEF Row, Seconds
    <3>2. Lapse(row, clock) = row
      BY DEF Lapse
    <3> QED
      BY <1>2, <3>1, <3>2 DEF Cleaned, Forget
  <2> QED
    BY <1>1, <1>6, <2>1, <2>2, CleanedMoves
<1>8. AcknowledgeError(c, id, "persisted", at) = "none"
  BY <1>3, <1>7 DEF AcknowledgeError
<1>9. Cleanup(at)[id] = row
  BY <1>1, <1>7 DEF Cleanup
<1>10. CASE row.state = "acknowledged"
  BY <1>5, <1>8, <1>9, <1>10 DEF Acknowledge, Closed
<1>11. CASE row.state = "completed"
  <2>1. rows' = [Cleanup(at) EXCEPT ![id].state = "acknowledged",
                                    ![id].disposition = "persisted",
                                    ![id].output = None,
                                    ![id].closed_at = at]
    BY <1>5, <1>8, <1>9, <1>11 DEF Acknowledge
  <2>2. Cleanup(at) \in [RequestIds -> Row \cup {Absent}]
    BY <1>1, <1>5, <1>6, CleanupIsGood DEF GoodTable, Good
  <2> QED
    BY <1>1, <1>4, <1>9, <2>1, <2>2 DEF Row, Closed
<1> QED
  BY <1>4, <1>10, <1>11

\* What a restart found, is still there or over; a reconciliation that has replayed it finds
\* it completed, and one that has acknowledged finds the row closed; and none waits for a
\* thread that works on what a restart found.
KeptRows == \A d \in retained : Over(d) \/ Holds(d, {"completed", "acknowledged"})
KeptScript ==
  LET d == script.document
  IN  /\ Stands("reconcile", 4) /\ d \in retained => Over(d) \/ Holds(d, {"completed"})
      /\ Stands("reconcile", 5) /\ script.thread = None => Closed(d)
      /\ script.phase = "reconcile" /\ script.thread # None => d \notin retained \/ Over(d)
KeptInv == KeptRows /\ KeptScript

\* What is over stays over, and what is held is held until then.
LEMMA HoldStays ==
  ASSUME RetentionCovers, Good, Moved, NEW d \in Documents
  PROVE  /\ Over(d) => Over(d)'
         /\ Over(d) \/ Holds(d, {"completed", "acknowledged"}) =>
              Over(d)' \/ Holds(d, {"completed", "acknowledged"})'
         /\ Calm /\ (Over(d) \/ Holds(d, {"completed"})) => Over(d)' \/ Holds(d, {"completed"})'
         /\ Calm /\ Closed(d) => Closed(d)'
<1> DEFINE id == d.request_id
<1>1. Over(d) => Over(d)'
  BY Numbers DEF Good, Over, Moved, Seconds
<1>2. PICK at \in Seconds : at <= clock /\ RowMoves(rows[id], rows'[id], at)
  BY DocumentsAssumption DEF Moved
<1>3. ~Over(d) /\ Holds(d, {"completed", "acknowledged"}) =>
        Holds(d, {"completed", "acknowledged"})'
  BY <1>2, HeldMoves DEF Holds
<1>4. Calm /\ Closed(d) => Closed(d)'
  <2> SUFFICES ASSUME Calm, Closed(d)
               PROVE  Closed(d)'
    OBVIOUS
  <2>1. PICK s \in Seconds : RowRuns(rows[id], rows'[id], s)
    BY DocumentsAssumption, CalmRows DEF Good, ServiceInv
  <2> QED
    BY <2>1 DEF Closed, RowRuns, Lapses, Forgets, Attempted, States, OpenStates, Tombstones
<1>5. Calm /\ ~Over(d) /\ Holds(d, {"completed"}) => Holds(d, {"completed"})'
  <2> SUFFICES ASSUME Calm, ~Over(d), Holds(d, {"completed"})
               PROVE  Holds(d, {"completed"})'
    OBVIOUS
  <2>1. Holds(d, {"completed", "acknowledged"})
    BY DEF Holds
  <2>2. PICK s \in Seconds : s <= clock /\ RowRuns(rows[id], rows'[id], s)
    BY DocumentsAssumption, CalmRows DEF Good, ServiceInv
  <2>3. rows'[id] = rows[id]
    BY <2>1, <2>2, HeldMoves
  <2> QED
    BY <2>3 DEF Holds
<1> QED
  BY <1>1, <1>3, <1>4, <1>5

\* Restarts add only what is there.
LEMMA KeptRowsStay ==
  ASSUME RetentionCovers, Good, Moved, KeptRows, retained \subseteq Documents,
         retained' \subseteq retained \cup Retained'
  PROVE  KeptRows'
<1> SUFFICES ASSUME NEW d \in retained'
             PROVE  Over(d)' \/ Holds(d, {"completed", "acknowledged"})'
  BY DEF KeptRows
<1>1. CASE d \in retained
  BY <1>1, HoldStays DEF KeptRows
<1>2. CASE d \in Retained'
  BY <1>2 DEF Retained, Readable, Holds
<1> QED
  BY <1>1, <1>2

\* A script that stands still.
LEMMA KeptStill ==
  ASSUME RetentionCovers, Good, ScriptInv, KeptScript, Moved, Calm, script' = script,
         \/ retained' = retained
         \/ script.thread = None /\ retained' \subseteq retained \cup Retained'
  PROVE  KeptScript'
<1> DEFINE d == script.document
<1>1. CASE script.phase # "reconcile"
  BY <1>1 DEF KeptScript, Stands
<1>2. CASE script.phase = "reconcile" /\ d \notin Documents
  <2>1. Running /\ ~Stands("reconcile", 4) /\ ~Stands("reconcile", 5)
    BY <1>2, CallsHaveRequests DEF Running, Stands
  <2>2. script.thread = None
    BY <1>2, <2>1, CallsHaveRequests, StepsOfPlans DEF ScriptInv, Where, Stands
  <2> QED
    BY <2>1, <2>2 DEF KeptScript, Stands
<1>3. CASE script.phase = "reconcile" /\ d \in Documents
  <2>1. PICK e \in Documents : e = d /\ e = script'.document
    BY <1>3
  <2>2. /\ Over(e) => Over(e)'
        /\ Over(e) \/ Holds(e, {"completed"}) => Over(e)' \/ Holds(e, {"completed"})'
        /\ Closed(e) => Closed(e)'
    BY HoldStays
  <2>3. /\ Over(d)' = Over(e)' /\ Closed(d)' = Closed(e)'
        /\ Holds(d, {"completed"})' = Holds(e, {"completed"})'
    BY <2>1 DEF Over, Holds, Closed
  <2>4. e \in Retained' => Holds(e, {"completed"})'
    BY DEF Retained, Readable, Holds
  <2> QED
    BY <2>1, <2>2, <2>3, <2>4 DEF KeptScript, Stands
<1> QED
  BY <1>1, <1>2, <1>3

\* A script whose phase is over, begins, has not yet replayed, or is another.
LEMMA KeptElsewhere ==
  ASSUME ScriptInv,
         \/ Running /\ script.phase # "reconcile" /\ \E t : script' = [script EXCEPT !.thread = t]
         \/ \E verdict, d : Rests(verdict, d)
         \/ \E phase \in Phases : BeginsAs(phase)
         \/ /\ Running /\ \E d \in Documents \cup {None} : Passes(d)
            /\ ~Stands("reconcile", 3) /\ ~Stands("reconcile", 4)
  PROVE  KeptScript'
<1>1. CASE Running /\ script.phase # "reconcile" /\ \E t : script' = [script EXCEPT !.thread = t]
  <2>1. script'.phase # "reconcile"
    BY <1>1 DEF ScriptInv, Scripts
  <2> QED
    BY <2>1 DEF KeptScript, Stands
<1>2. CASE \E verdict, d : Rests(verdict, d)
  BY <1>2 DEF Rests, Resting, KeptScript, Stands
<1>3. CASE \E phase \in Phases : BeginsAs(phase)
  <2>1. script'.at = 1 /\ script'.thread = None
    BY <1>3 DEF BeginsAs, Resting
  <2> QED
    BY <2>1 DEF KeptScript, Stands
<1>4. CASE /\ Running /\ \E d \in Documents \cup {None} : Passes(d)
           /\ ~Stands("reconcile", 3) /\ ~Stands("reconcile", 4)
  <2>1. ~Stands("reconcile", 4)' /\ ~Stands("reconcile", 5)'
    BY <1>4, PassStands DEF Phases
  <2>2. script'.thread = None
    BY <1>4 DEF Passes, GoesOn, Rests, Resting
  <2> QED
    BY <2>1, <2>2 DEF KeptScript
<1> QED
  BY <1>1, <1>2, <1>3, <1>4

\* One that goes on with the reconciliation of a request that is over, or is held as it
\* should be, or has been closed.
LEMMA KeptPasses ==
  ASSUME ScriptInv, Running, NEW d \in Documents, Passes(d),
         Stands("reconcile", 3) => d \notin retained' \/ Over(d)' \/ Holds(d, {"completed"})',
         Stands("reconcile", 4) => Closed(d)'
  PROVE  KeptScript'
<1>1. script'.thread = None
  BY DEF Passes, GoesOn, Rests, Resting
<1>2. ASSUME NEW n \in {4, 5}, Stands("reconcile", n)'
      PROVE  Stands("reconcile", n - 1) /\ script'.document = d
  BY <1>2, PassStands DEF Phases
<1>3. Stands("reconcile", 4)' => Stands("reconcile", 3) /\ script'.document = d
  BY <1>2
<1>4. Stands("reconcile", 5)' => Stands("reconcile", 4) /\ script'.document = d
  BY <1>2
<1> QED
  BY <1>1, <1>3, <1>4 DEF KeptScript, Over, Holds, Closed

\* What the steps below start from.
ReplayInv == Good /\ ScriptInv /\ CutInv /\ HeldInv /\ KeptInv

\* A request that is posted in a reconciliation.
LEMMA PostKeepsReplay ==
  ASSUME RetentionCovers, OneOperator, ReplayInv, Moved, UNCHANGED retained,
         NEW step \in {"submit", "recheck"}, NEW t \in Threads, NEW c \in Credentials,
         Post(step, t, c)
  PROVE  KeptScript'
<1>1. PICK d \in Documents : d = script.document
  BY PostOutcome DEF ReplayInv
<1>2. /\ Running /\ StepNow = step /\ Posted(step, t, c, d)
      /\ ScriptInv /\ Good /\ KeptRows /\ KeptScript
  BY <1>1, PostOutcome DEF ReplayInv, KeptInv
<1>3. Where
  BY <1>2, StepsOfPlans
<1>4. ~Stands("reconcile", 4)
  BY <1>2, Plans DEF StepNow, Stands
<1>5. CASE AnswersAsExpected(d, step) /\ Passes(d)
  <2>1. Stands("reconcile", 3) => step = "submit"
    BY <1>2, Plans DEF StepNow, Stands
  <2>2. step = "submit" => Holds(d, {"completed"})'
    BY <1>5 DEF AnswersAsExpected, Holds
  <2> QED
    BY <1>2, <1>4, <1>5, <2>1, <2>2, KeptPasses
<1>6. CASE Rests("failed", d)
  BY <1>2, <1>6, KeptElsewhere
<1>7. CASE Infer(t, c, d) /\ thread'[t] # Idle /\ script' = [script EXCEPT !.thread = t]
  <2>1. CASE script.phase # "reconcile"
    BY <1>2, <1>7, <2>1, KeptElsewhere
  <2>2. CASE script.phase = "reconcile"
    <3>1. script'.at = script.at /\ script'.phase = script.phase /\ script'.document = d
      BY <1>1, <1>2, <1>7 DEF ScriptInv, Scripts
    <3>2. d \notin retained \/ Over(d)
      <4> SUFFICES ASSUME d \in retained, ~Over(d)
                   PROVE  FALSE
        OBVIOUS
      <4>1. Holds(d, {"completed", "acknowledged"})
        BY <1>2 DEF KeptRows
      <4>2. thread' = thread
        BY <1>2, <1>7, <4>1, HeldAnswers
      <4> QED
        BY <1>7, <4>2 DEF Infer
    <3>3. Over(d) => Over(d)'
      BY <1>2, HoldStays
    <3>4. script'.thread # None
      BY <1>2, <1>7, ProofAssumption DEF ScriptInv, Scripts
    <3> QED
      BY <1>4, <3>1, <3>2, <3>3, <3>4 DEF KeptScript, Stands, Over
  <2> QED
    BY <2>1, <2>2
<1> QED
  BY <1>2, <1>5, <1>6, <1>7 DEF Posted

\* A thread of the gateway that answers it, or does something else.
LEMMA GatewayKeepsReplay ==
  ASSUME RetentionCovers, ReplayInv, Moved, UNCHANGED retained, NEW t \in Threads,
         GatewayStep(t)
  PROVE  KeptScript'
<1>1. /\ ScriptInv /\ Good /\ KeptScript /\ Served(t)
      /\ ServiceInv /\ Calm
  BY ServedOutcome, OthersAreCalm DEF ReplayInv, KeptInv, Good, ServiceInv
<1>2. CASE script' = script
  BY <1>1, <1>2, KeptStill
<1>3. CASE Rests("failed", script.document)
  BY <1>1, <1>3, KeptElsewhere
<1>4. CASE /\ Running /\ script.thread = t /\ StepNow = "submit"
           /\ Passes(script.document)
  <2>1. script.at > 2
    BY <1>1, <1>4, StepsOfPlans DEF Where, Stands
  <2>2. PICK d \in Documents : d = script.document
    BY <1>1, <1>4, <2>1, CallsHaveRequests
  <2>3. ~Stands("reconcile", 4)
    BY <1>4, Plans DEF StepNow, Stands
  <2>4. Stands("reconcile", 3) => d \notin retained \/ Over(d)
    BY <1>1, <1>4, <2>2, ProofAssumption DEF KeptScript, Stands
  <2>5. Over(d) => Over(d)'
    BY <1>1, HoldStays
  <2> QED
    BY <1>1, <1>4, <2>2, <2>3, <2>4, <2>5, KeptPasses
<1> QED
  BY <1>1, <1>2, <1>3, <1>4 DEF Served

\* An acknowledgement.
LEMMA AcknowledgeKeepsReplay ==
  ASSUME RetentionCovers, OneOperator, ReplayInv, Moved, NEW c \in Credentials,
         PostAcknowledgement(c)
  PROVE  KeptScript'
<1>1. PICK d \in Documents : d = script.document
  BY AcknowledgeOutcome DEF ReplayInv
<1>2. /\ Running
      /\ Stands("run", 5) \/ Stands("reconcile", 4)
      /\ ScriptInv /\ Good /\ KeptScript
      /\ AcknowledgedAs(c, d) /\ (Passes(d) \/ Rests("failed", d))
  BY <1>1, AcknowledgeOutcome DEF ReplayInv, KeptInv, AcknowledgedAs
<1>3. CASE Rests("failed", d)
  BY <1>2, <1>3, KeptElsewhere
<1>4. CASE Passes(d)
  <2>1. Closed(d)'
    <3>1. AcknowledgeError(c, d.request_id, "persisted", clock) = "none"
      <4>1. script.phase # "failed" /\ script.verdict # "failed"
        BY <1>2 DEF Stands, ScriptInv
      <4>2. ~Rests("failed", d)
        BY <1>4, <4>1 DEF Passes, GoesOn, Rests, Resting
      <4> QED
        BY <1>2, <4>2 DEF AcknowledgedAs
    <3> QED
      BY <1>2, <3>1, AcceptedCloses DEF AcknowledgedAs
  <2>2. ~Stands("reconcile", 3)
    BY <1>2 DEF Stands
  <2> QED
    BY <1>2, <1>4, <2>1, <2>2, KeptPasses
<1> QED
  BY <1>2, <1>3, <1>4

\* Every step keeps what a reconciliation rests on.
LEMMA KeptStep ==
  ASSUME RetentionCovers, OneOperator
  PROVE  ReplayInv /\ [ProofNext]_allVars => KeptInv'
<1> SUFFICES ASSUME ReplayInv, [ProofNext]_allVars
             PROVE  KeptInv'
  OBVIOUS
<1>1. ServiceInv /\ ScriptInv /\ Good /\ KeptRows /\ KeptScript
  BY DEF ReplayInv, KeptInv, Good, ServiceInv
<1>2. Moved
  BY <1>1, ProofStepIsService, StepsMove
<1>3. KeptRows'
  <2>1. retained \subseteq Documents
    BY <1>1 DEF ScriptInv
  <2>2. retained' \subseteq retained \cup Retained'
    <3>1. CASE UNCHANGED allVars
      BY <3>1 DEF allVars, proofVars
    <3>2. CASE GatewayRestarts
      BY <3>2 DEF GatewayRestarts
    <3>3. ASSUME NEW t \in Threads, NEW c \in Credentials, Submit(t, c) \/ Recheck(t, c)
          PROVE  retained' = retained
      BY <3>3 DEF Submit, Recheck, Post
    <3> QED
      BY <3>1, <3>2, <3>3
      DEF ProofNext, StartPhase, Health, Make, Create, Write, Read, PostAcknowledgement,
          GatewayStep, Abandon, GatewayStops, NewDirectory, Elsewhere, proofVars
  <2> QED
    BY <1>1, <1>2, <2>1, <2>2, KeptRowsStay
<1>4. KeptScript'
  <2>1. CASE UNCHANGED allVars
    <3>1. Calm /\ script' = script /\ retained' = retained
      BY <1>1, <2>1, OthersAreCalm DEF allVars, proofVars
    <3> QED
      BY <1>1, <1>2, <3>1, KeptStill
  <2>2. CASE (\E phase \in Phases : StartPhase(phase)) \/ Abandon
    BY <1>1, <2>2, KeptElsewhere DEF StartPhase, BeginsAs, Abandon, Rests
  <2>3. CASE Health \/ Make \/ Create \/ Write \/ Read
    <3>1. Running /\ Prepared /\ script.document \in Documents \cup {None}
      BY <1>1, <2>3, PreparedOutcome DEF ScriptInv, Scripts
    <3>2. \E e \in Documents \cup {None} : Passes(e) \/ Rests("failed", e)
      BY <3>1 DEF Prepared
    <3>3. ~Stands("reconcile", 3) /\ ~Stands("reconcile", 4)
      BY <3>1 DEF Prepared, Stands
    <3> QED
      BY <1>1, <3>1, <3>2, <3>3, KeptElsewhere
  <2>4. ASSUME NEW c \in Credentials, PostAcknowledgement(c)
        PROVE  KeptScript'
    BY <1>2, <2>4, AcknowledgeKeepsReplay
  <2>5. ASSUME NEW c \in Credentials, NEW t \in Threads, Submit(t, c) \/ Recheck(t, c)
        PROVE  KeptScript'
    <3>1. PICK step \in {"submit", "recheck"} : Post(step, t, c)
      BY <2>5 DEF Submit, Recheck
    <3>2. UNCHANGED retained
      BY <3>1 DEF Post
    <3> QED
      BY <1>2, <3>1, <3>2, PostKeepsReplay
  <2>6. ASSUME NEW t \in Threads, GatewayStep(t)
        PROVE  KeptScript'
    <3>1. UNCHANGED retained
      BY <2>6 DEF GatewayStep
    <3> QED
      BY <1>2, <2>6, <3>1, GatewayKeepsReplay
  <2>7. CASE GatewayStops
    <3>1. Calm /\ retained' = retained
      BY <1>1, <2>7, OthersAreCalm DEF GatewayStops
    <3>2. script' = script \/ Rests("stopped", script.document)
      BY <2>7 DEF GatewayStops, Rests
    <3> QED
      BY <1>1, <1>2, <3>1, <3>2, KeptStill, KeptElsewhere
  <2>8. CASE GatewayRestarts
    <3>1. Calm /\ script' = script /\ ~up
      BY <1>1, <2>8, OthersAreCalm DEF GatewayRestarts, Restart
    <3>2. script.thread = None
      BY <1>1, <3>1 DEF ScriptInv
    <3>3. retained' \subseteq retained \cup Retained'
      BY <2>8 DEF GatewayRestarts
    <3> QED
      BY <1>1, <1>2, <3>1, <3>2, <3>3, KeptStill
  <2>9. CASE NewDirectory \/ Elsewhere
    <3>1. Calm /\ script' = script /\ retained' = retained
      BY <1>1, <2>9, OthersAreCalm DEF NewDirectory, Elsewhere, proofVars
    <3> QED
      BY <1>1, <1>2, <3>1, KeptStill
  <2> QED
    BY <2>1, <2>2, <2>3, <2>4, <2>5, <2>6, <2>7, <2>8, <2>9 DEF ProofNext, Phases
<1> QED
  BY <1>3, <1>4 DEF KeptInv

\* A reconciliation fails on a request that was retained, and is not over, only where it has
\* been acknowledged before.
LEMMA FailureMeansGone ==
  ASSUME RetentionCovers, OneOperator, ReplayInv, [ProofNext]_allVars,
         script.phase = "reconcile", script'.verdict = "failed",
         NEW d \in Documents, d = script.document, d \in retained, ~Over(d)
  PROVE  AtStep("submit") /\ rows[d.request_id].state = "acknowledged"
<1>1. /\ ScriptInv /\ Good /\ KeptRows /\ KeptScript
      /\ Running /\ script.verdict = "none" /\ d # None
  BY NoneAssumption DEF ReplayInv, KeptInv, ScriptInv, Running
<1>2. Holds(d, {"completed", "acknowledged"})
  BY <1>1 DEF KeptRows
<1>3. script' # script
  BY <1>1
<1>4. ~Passes(d)
  BY <1>1 DEF Passes, GoesOn, Rests, Resting
<1>5. ~(\E phase \in Phases : StartPhase(phase)) /\ ~GatewayRestarts /\ ~NewDirectory
  BY <1>1, <1>3 DEF StartPhase, GatewayRestarts, NewDirectory
<1>6. ~Abandon /\ ~GatewayStops
  BY <1>3 DEF Abandon, GatewayStops, Resting
<1>7. ~Elsewhere /\ ~(UNCHANGED allVars)
  BY <1>3 DEF Elsewhere, allVars, proofVars
<1>8. ~(Health \/ Make \/ Create \/ Write \/ Read)
  <2>1. script.at > 2
    BY <1>1 DEF ScriptInv, Scripts
  <2> QED
    BY <1>1, <2>1, PreparedOutcome DEF Prepared, Stands
<1>9. ASSUME NEW c \in Credentials, PostAcknowledgement(c)
      PROVE  FALSE
  <2>1. Stands("reconcile", 4) /\ AcknowledgedAs(c, d)
    BY <1>1, <1>9, AcknowledgeOutcome DEF Stands
  <2>2. Holds(d, {"completed"})
    BY <1>1, <2>1 DEF KeptScript
  <2> QED
    BY <1>1, <1>4, <2>1, <2>2, HeldAcknowledges DEF AcknowledgedAs
<1>10. ASSUME NEW t \in Threads, GatewayStep(t)
       PROVE  FALSE
  <2>1. Served(t)
    BY <1>1, <1>10, ServedOutcome
  <2>2. script.thread # None
    BY <1>3, <1>4, <2>1, ProofAssumption DEF Served
  <2> QED
    BY <1>1, <2>2 DEF KeptScript
<1>11. ASSUME NEW c \in Credentials, NEW t \in Threads, Submit(t, c) \/ Recheck(t, c)
       PROVE  AtStep("submit") /\ rows[d.request_id].state = "acknowledged"
  <2>1. PICK step \in {"submit", "recheck"} : Post(step, t, c)
    BY <1>11 DEF Submit, Recheck
  <2>2. StepNow = step /\ script.thread = None /\ Posted(step, t, c, d)
    BY <1>1, <2>1, PostOutcome
  <2>3. LifetimeAllows(d, clock) /\ AdmitError(c, d, clock) = "none"
    BY <1>1, <1>2, HeldAnswers
  <2>4. script' # [script EXCEPT !.thread = t]
    BY <1>1 DEF ScriptInv, Scripts
  <2>5. Infer(t, c, d) /\ ~AnswersAsExpected(d, step)
    BY <1>4, <2>2, <2>3, <2>4 DEF Posted
  <2>6. /\ Holds(d, {"completed"}) => AnswersAsExpected(d, "submit")
        /\ Holds(d, {"acknowledged"}) => AnswersAsExpected(d, "recheck")
    BY <1>1, <1>2, <2>5, HeldAnswers
  <2>7. CASE step = "submit"
    BY <1>1, <1>2, <2>2, <2>5, <2>6, <2>7 DEF AtStep, StepNow, Holds
  <2>8. CASE step = "recheck"
    <3>1. Stands("reconcile", 5)
      BY <1>1, <2>2, <2>8, StepsOfPlans DEF Where, Stands
    <3>2. Closed(d)
      BY <1>1, <2>2, <3>1 DEF KeptScript
    <3>3. Holds(d, {"acknowledged"})
      BY <1>2, <3>2 DEF Closed, Holds
    <3> QED
      BY <2>5, <2>6, <2>8, <3>3
  <2> QED
    BY <2>7, <2>8
<1> QED
  BY <1>5, <1>6, <1>7, <1>8, <1>9, <1>10, <1>11 DEF ProofNext, Phases

\* Where SQLite works, tombstones outlast their requests, and one operator runs the phases with one
\* credential and one key file, a result that survived a restart is replayed and
\* acknowledged: no step of the reconciliation fails on it before its expiry, whatever the
\* threads of the gateway and its maintenance do meanwhile, unless an earlier reconciliation
\* has acknowledged it (prove_operational_gateway.py:207-264, 327-363; app.py:148-252).
THEOREM SurvivorsAreReplayed ==
  ASSUME RetentionCovers, OneOperator
  PROVE  ProofSpec => RetainedReplays
<1> DEFINE Inv == ServiceInv /\ ScriptInv /\ Good /\ CutInv /\ HeldInv
<1>1. ProofSpec => []Inv
  BY ProofInvariant, ProofRunsService, AttemptInvariant, HeldInvariant, PTL
<1>2. ProofInit => KeptInv
  BY DEF ProofInit, Resting, KeptInv, KeptRows, KeptScript, Stands
<1>3. Inv /\ KeptInv /\ [ProofNext]_allVars => KeptInv'
  BY KeptStep DEF ReplayInv
<1>4. Inv /\ KeptInv /\ [ProofNext]_allVars =>
        [script.phase = "reconcile" /\ script'.verdict = "failed" /\ script.document # None =>
           LET d == script.document
           IN  \/ d \notin retained
               \/ clock >= d.expires_at
               \/ AtStep("submit") /\ rows[d.request_id].state = "acknowledged"]_allVars
  <2> SUFFICES ASSUME Inv, KeptInv, [ProofNext]_allVars,
                      script.phase = "reconcile", script'.verdict = "failed",
                      script.document \in retained,
                      ~(clock >= script.document.expires_at)
               PROVE  /\ AtStep("submit")
                      /\ rows[script.document.request_id].state = "acknowledged"
    OBVIOUS
  <2>1. script.document \in Documents
    BY DEF ScriptInv
  <2>2. ~Over(script.document)
    BY DEF Over
  <2> QED
    BY <2>1, <2>2, FailureMeansGone DEF ReplayInv
<1> HIDE DEF Inv
<1> QED
  BY <1>1, <1>2, <1>3, <1>4, PTL DEF ProofSpec, RetainedReplays
===================================================================================
