# Specifications of the Local Inference Gateway

The gateway is one Python process that stands between local applications and one local
inference server (Ollama, with LM Studio as an optional fallback). Applications submit a
document with a request identity and an expiry; the gateway runs it at most once, keeps the
encrypted result until the application acknowledges it or it expires, and remembers the
identity as a tombstone afterwards. This directory holds the TLA+ modules that describe that
behaviour, the TLC configurations that check small instances, and the theorems that hold for
every instance. Source lines below are relative to the repository.

## 1. Inventory

| Component | State | Operations | Interaction |
|---|---|---|---|
| request table, `src/local_inference_gateway/store.py` `RequestStore` | SQLite table `inference_requests` | `initialize`, `admit`, `get_owned`, `mark_in_progress`, `reset_reserved`, `mark_ambiguous`, `mark_failed`, `complete`, `acknowledge`, `maintain` | called by the gateway service; each method is one `BEGIN IMMEDIATE` transaction |
| result encryption, `store.py` `ResultCipher` | the key read at start-up | `encrypt`, `decrypt` | called by `complete` and `output` |
| gateway service, `app.py` `GatewayService` | `_active` (the lane: one attempt and its event) under `_lane_lock` | `infer`, `acknowledge`, `health`, `task_profile` | called from pool threads; calls store and worker |
| maintenance, `app.py` `_run_maintenance` | none | a sweep every interval | calls `maintain` through the thread pool |
| workers, `worker.py` `OllamaWorker`, `LMStudioWorker` | none (the servers have) | `availability`, `fallback_capacity_available`, `infer` | HTTP to the servers |
| router, `worker.py` `FallbackWorker` | none | `health`, `infer` | chooses a worker before anything is submitted |
| task policy, `app.py` `_validate_policy` | none | checks of task, time, limits, schema features | first step of `infer` |
| HTTP edge, `app.py` `create_app` | the exchanges in progress, the thread pool and its queue | authentication, body limit, error envelopes | calls the service in pool threads, which it shares with the sweeps |
| contracts, `contracts.py` | none | request validation, schema subset, canonical digest, decoder order, JSON numbers | called by edge, service and workers; their answers for one document have to agree |
| configuration, `config.py` | settings and credentials, read once | validation | start-up |
| operational proof, `scripts/prove_operational_gateway.py` | a restart state file | `run`, `prepare-restart`, `reconcile-restart` | a client of the gateway |
| release installer, `deploy/systemd/install.sh` | release directories, active link, unit, service identity, a lock file | build, prove, activate a release | the host's tools; other installers |
| worker and mount installers, `deploy/systemd` | user unit, environment file, mount unit | install | host |

What is hard, and what makes each part correct:

* **Request table.** Rows enter and leave the "open" states in eight methods, ciphertext and
  state are separate columns, every method begins with a cleanup that the same transaction may
  roll back, and clock samples are taken before transactions, so they arrive out of order.
  Correct when: the admission limits hold at all times; a ciphertext exists exactly while its
  row is completed; rows follow their life cycle; results leave only by acknowledgement or
  expiry.
* **Gateway service.** Threads interleave between a read of a row, the claim of the lane, the
  marking of the row, the worker call, and the recording of its outcome; the process may crash
  between any two; SQLite may fail; keys may change at a restart; repeats wait for an event
  that someone must set. Correct when: a document is never admitted by a worker twice, a
  refusal is honest, a document has one result for one credential, the lane has one owner and
  is never leaked, waiters are woken, an attempt is settled before its call is answered, and
  expired ciphertext goes away.
* **Router and workers.** A call is a chain of up to six HTTP requests against servers that
  change in between, under one deadline; each error is classified by what was already sent.
  Correct when: "unavailable" means not admitted, a request is admitted at most once, a task
  with a context contract never reaches the worker without one, `health` and `infer` agree, and
  the fallback is used only beside an idle primary.
* **HTTP edge and credentials.** Bodies arrive in pieces of any size; a request is named by a
  path, by a body and by the answer; the service calls, the probes and the sweeps wait for the
  same pool of threads, which calls that wait for one owner may fill. Correct when: an answer
  names only a request its client named, whoever waits for a thread gets one, and so do the
  sweeps. That a body is held within its limit and that two tokens are never one client are
  guards of single steps (`Read`, `Usable`) and stated nowhere else.
* **Contracts and task policy.** Three recursive walks over one schema (admission, digest,
  decoder order) and two tables of tasks, which no type ties together. Correct when: the digest
  tells apart exactly what differs in meaning, the decoder sees the admitted schema in an order
  that the document determines, and no admitted schema allows more passages than the budget.
* **Installer.** A sequence of commands on the file system, in several processes at once, that
  may fail, be interrupted, be killed while a command runs on, or stop with the host; a failing
  run cleans up what it made, and a later run reuses what an earlier one left. Correct when: the
  active release is complete and never touched again, only one process writes at a time, and a
  reported success means that link, unit and service manager agree.
* **Proof script.** A client with a state file, which may be stopped anywhere, run again in any
  order, or give up a call that the gateway goes on with. Correct when: a reconciliation that
  succeeds has replayed a result from before the restart and not fresh work, a failing one had
  none to replay, and the request that was submitted can still be found.

`PROJECT.json` lists the hazards one by one, each at its line, with the properties that cover
it or the reason why none does.

## 2. Modules

| Module | What it is |
|---|---|
| `RequestStore` | the table; one operator per method; `StoreSpec` calls them in any order with any clock sample |
| `GatewayService` | the process over the table: EXTENDS `RequestStore` and composes its methods with threads, lane, clock, crashes |
| `InferencePromise` | the abstract specification of the process: what an application may rely on |
| `WorkerRouting` | one worker call as a chain of HTTP requests against changing servers |
| `WorkerPromise` | the abstract specification of a worker call: what its caller may rely on, and must keep |
| `GatewayWithWorker` | the process and `WorkerPromise` as one system |
| `GatewayEdge` | the HTTP handlers, the credentials and the thread pool |
| `JsonValues` | JSON values, what a walk over one adds up, and when two are one document |
| `CanonicalJson` | the text the digest is taken of |
| `SchemaAdmission` | which response schemas are admitted, and what an output of one may hold |
| `DecoderOrder` | the schema a worker's decoder sees |
| `ResponseSchema` | one request identity: task policy, and what a worker is sent for a schema |
| `OperationalProof` | the proof script as a client: EXTENDS `GatewayService` |
| `ReleaseInstall` | `install.sh` command by command, in any number of processes |
| `RequestStoreProofs` | theorems of `StoreSpec`: types, ciphertext, limits, life cycle |
| `GatewayServiceProofs` | theorems of `ServiceSpec`: types, lane, table, tombstones, expiry; attempts, worker calls, results |
| `GatewayPromiseProofs` | `ServiceSpec` implements `InferencePromise`; theorems of `ServedSpec`, the composition with the worker |
| `WorkerRoutingProofs` | theorems of `RoutingSpec`, which implements `WorkerPromise` |
| `ReleaseInstallProofs` | theorems of `InstallSpec` |
| `OperationalProofProofs` | theorems of `ProofSpec`: what the script has shown when it succeeds |
| `GatewayEdgeProofs` | a theorem of `EdgeSpec`: which request an answer names |
| `SchemaProofs` | the passage budget and the decoder's schema, for every set of documents |
| `MCRequestStore`, `MCGatewayService`, `MCGatewayWithWorker`, `MCWorkerRouting`, `MCGatewayEdge`, `MCResponseSchema`, `MCOperationalProof`, `MCReleaseInstall` | instances for TLC |

The refinements make a chain: `WorkerRouting` implements `WorkerPromise`, `GatewayWithWorker`
composes the process with `WorkerPromise` and implements `InferencePromise`, and keeps the part
of `WorkerPromise` that is the caller's (`CalledAsAgreed`). Each link may be read without the
next, and each is both model-checked and proved. On the other side `OperationalProof` puts a
client before the process, which goes on behaving as `ServiceSpec` (`ProofRunsService`).

### RequestStore

`rows` maps every request identity to a record of the columns the program reads, or `Absent`.
`document` stands for the columns an insertion copies from the request, the digest among them:
two documents are the same exactly when their digests are (SHA-256 is taken to be injective).
`output` is a content with the key it is encrypted under. `closed_at` is `updated_at` of a
tombstone, the only use the program makes of that column.

Each method is an operator with the caller's arguments and `at`, the second its clock sample
falls in; `_timestamp` cuts samples down to whole seconds and every SQL comparison is between
such strings. `Lapse` and `Forget` are the two statements of `_cleanup`; `XxxError` is the
exception a method raises, decided on the cleaned row; a method that raises leaves `rows`
unchanged because `_Transaction.__exit__` rolls back the cleanup as well. Two methods differ
from the pattern as the code does: `complete` *returns* False for an expired row, which
commits, and the three updates that end an attempt do not clean up.

### GatewayService

`thread[t]` is the call a pool thread runs. Its `pc` names the next step:

| pc | next step of `infer` | action |
|---|---|---|
| `idle` | validate, admit, answer if the row has an answer | `Infer` |
| `claim` | `_claim_lane` (own it, wait for it, or `capacity_limited`) | `ClaimLane` |
| `join` | `_join_active` | `JoinActive` |
| `wait` | `Event.wait` with its deadline | `ReleaseLane` of the owner, or `WaitTimeout` |
| `reload` | `_reload_after_attempt`: `get_owned`, and the answer or what to conclude without one | `Reload` |
| `answer` | `worker_unavailable` or `inference_timeout`, as the reload concluded, reaches the client | `Answer` |
| `mark` | expiry check, `mark_in_progress` | `Mark` |
| `dispatch` | expiry check, the worker call begins | `Dispatch` |
| `worker` | the call ends and its outcome is recorded | `CallRefused`, `CallLost`, `CallInvalid`, `CallAnswered` |
| `collect` | `get_owned` of the completed row | `Collect` |
| `settle` | the handler of `StoreError`: `mark_ambiguous` | `MarkUnsettled` |
| `release` | the `finally` clause: set the event, free the lane, answer | `ReleaseLane` |

A step is one transaction or one critical section of `_lane_lock`, with the thread-local work
around it: nothing another thread sees happens in between. A reload holds no lane, so the row it
concluded from may move on, and be submitted by the next owner, before the client is told: that
is the step from `reload` to `answer`. Acknowledgements and maintenance sweeps are one
transaction, hence one step. `StoreFault` is an `sqlite3` error: it is no `StoreError`, so only
the `finally` clause runs. `Crash` drops everything but the table, the clock and the history
variables; `Restart` reads some key and runs `initialize`. `calls` counts, per document,
submissions that a worker may have admitted: raised when the worker is called, lowered only when
the router says that it was not admitted. `delivered` collects results given to clients. Both are
history and guard nothing.

### InferencePromise

Three variables: the document with a worker, the documents a worker may have taken, the
answers given. `Submit` needs a free worker and a document not taken; `Refuse` gives the
document back; `End` spends it; `Answer` repeats earlier answers for that document.
`GatewayService` implements it under the mapping at the end of that module.

### WorkerRouting

`ollama` and `lmstudio` are what the endpoints would answer now; any step may change them.
`lmstudio` is "absent", once and for all, where `create_app` configured no fallback: `OllamaWorker`
then answers alone, and its `infer` starts where `primary.infer` does (`Opening`).
`call` is where the call is in the chain: `models` (GET /v1/models), `show` (POST /api/show),
`loaded` (GET /api/ps for the context), `capacity` (GET /api/ps for idleness), `fallback`
(GET /v1/models of LM Studio), `submit` and `answer` (the completion). `stage` tells routing
(`FallbackWorker.infer`) from dispatching (`_infer`), where an extended task is verified again.
`outcome` is how the last call ended: a result or one of the three exceptions. A submission
whose call is given up may still arrive: `adrift` is the set of such requests, and `ArrivesLate`
admits one at any later time, after the gateway has answered, recorded the attempt or
restarted.

### WorkerPromise and GatewayWithWorker

`WorkerPromise` has neither servers nor probes: a request is called (`Begin`), may be admitted
while the call lasts (`Take`) or after (`TakeLate`), and the call ends (`End`) as `unavailable`
only if nobody has it and as a result only if somebody took it. `Begin` also says what the
caller owes: one call at a time, and a repeat only after `WorkerUnavailable`.

`GatewayService` alone lets the end of a worker call come from nowhere and counts in `calls`
what may have been admitted. `GatewayWithWorker` puts the worker in its place: `ServedDispatch`
calls it, `HandleOutcome` runs the clause of `infer` that belongs to what came back, and the
admission of a request is a step of its own. `calls` is then compared with `taken`, what servers
have really admitted. `ServedCrash` ends the call with the process, not what it has submitted.

### GatewayEdge

`exchange[e]` is one request a client has open: `reading` its body on the event loop, `queued`
for a pool thread, in a thread (`running`, `owner`, `waiting`, `woken`), or `answered`. A body
is a number of bytes, and what it says is its `request_id` and whether it is valid. What a call
does in its thread is reduced to how long it keeps it: it owns the lane, waits for the owner, or
answers at once. `queue` is the order in which anyio's limiter lends threads; `SweepDue`,
`Start` and `SweepEnds` are `_run_maintenance` and its `run_in_threadpool`. `credentials` is
the file `CredentialStore.from_file` accepted.

### JsonValues, CanonicalJson, SchemaAdmission, DecoderOrder and ResponseSchema

A JSON value is a record of its kind; a dict keeps the order of its keys, as Python's does, and
a number keeps its digits and exponent, as `Decimal` does. `Encode` yields the text as a
sequence of tokens. `SameJson` is what the text has to tell apart, defined without the text.
`Values` is the set of values that occur: the documents in every spelling, and all they are made
of. What the admission computes by recursion over a value (`Depth`, `Nodes`, `Supported`,
`References`, `PassageValues`, `WellFormed`) is a recursive function on `Values`, one per walk or
result of a walk. `Admitted` puts them together as `validate_generation_shape` does. The budget
is set against `MostPassages`, which knows nothing of multiplicities: it is the most passages
that an output conforming to a schema can hold, read off the meaning of the keywords. `Ordered`,
`Wire` and `PolicyAllows` are `decoder_schema`, the payload of `_infer` and the part of
`_validate_policy` that looks at the schema. `Ordered` is a recursive function too (`OrderedIn`
takes its domain, which an instance needs to find a set of values closed under it); its filters
are `Kept`, which does what `SelectSeq` does by a recursive function. RECURSIVE operators remain
only where nothing is proved: `Encode` and `Respellings`. The state is one request identity: a client respells its document
(keys in another order, numbers in another form), rewrites it, or posts it.

### OperationalProof

`Plan` is the sequence of steps of each phase, at most one call to the gateway in each. A call
that is not answered at once is served by a thread of `GatewayService` (`script.thread`), which
goes on when the script gives up (`Abandon`). `file` is the restart state file, which exists
before it is written (`Create`, `Write`). `reach` is whether the gateway was started with a
worker's address, or with that of a closed port as the README has it for the reconciliation; the
operator changes it between phases. A worker with an address is up or down as it likes: whether
the health check finds it (`Health`) says nothing of the submission (`WorkerAnswers`). `retained`
collects the results that a restart has found. SQLite works throughout; a phase has one request;
in the script it has one per task, one after the other.

### ReleaseInstall

`installer[i]` is a process: where the script is, the commit it read, `release_created`, and
the target of its temporary link. `release` says what is in the directory of a commit, as far
as the script or the service can tell the cases apart: no executable (`bare`), no marker
(`built`), marker but nothing readable (`marked`), something not probed missing or unreadable
(`partly`), `whole`. `link`, `unit` and `loaded` name the commit that the `venv` link, the unit
file and the service manager are at. A command with one effect is one step; `chmod -R`,
`rm -rf` and the replacement of the unit take two or more. `Fail` is any failing command, failing
check or signal: the EXIT trap runs (`RemoveSome`, `RemoveRelease`, `EndTrap`). `KillShell`
kills the shell alone: a command it waits for goes on and keeps descriptor 9 and with it the
lock (`shell = FALSE`), and nobody cleans up. `HostStops` ends everything, empties `/run` and
makes the service manager read the units again. Validation of accounts, paths and interpreters
is reduced to `Fail`. Renames, links and written files are taken to survive a host stop in the
order they were made.

## 3. Runs

| Run | Asks | Instance, and why it is enough |
|---|---|---|
| `StoreLifecycle` | life cycle, ciphertext, admission limits | three identities of three credentials for two places, one per credential, and a second document that claims the first identity; two attempts, seconds 0..3 in any order, retention 1: identity conflicts, foreign attempts, expiry, forgetting and re-use of an identity all happen, and each limit is reached without the other |
| `ServiceRepeats` | settled attempts, owners, honest refusals, one result, the lane | three threads (owner, waiter and refused call together), two credentials, two documents of one identity with expiries 1 and 2 and one of another, two contents; seconds 0..2, enough for each expiry to pass |
| `ServiceLag` | at most one call, tombstones, early expiry; calls return, ciphertext is removed | two threads, one document of three seconds, samples one second late, SQLite faults; `Retention = Lifetime + 2 * MaxLag`, the least that works: with one less `AtMostOneCall` is violated. Under fairness, without symmetry |
| `ServicePromise` | at most one admission, nothing uncounted with a server, refinement of `InferencePromise`, the caller's part of `WorkerPromise` | two threads, two credentials, three documents of one identity, the last filed once the tombstone of the first is gone; two contents, two keys, SQLite faults, late admissions |
| `ServiceRace` | finding 1 | two threads, one document, nothing else goes wrong |
| `WorkerRouting` | section 1's claims about the router, refinement of `WorkerPromise` | a plain and an extended request, every state of the servers, with and without a fallback, changes at any time, submissions that arrive late |
| `WorkerSwitch` | finding 2 | one plain request |
| `EdgeExchanges` | section 1's claims about the edge | three exchanges for a pool of two, so that waiting calls can fill it; limit two and pieces of up to three bytes; one usable credential file, two that share an identity or a token, an empty one |
| `SchemaIdentity` | section 1's claims about contracts and policy | three tasks, about thirty schemas (plain objects that differ in one thing, nested arrays, nullable unions, choices, passages within the budget of three and beyond it), each in all spellings two edits away |
| `RestartProof` | section 1's claims about the proof script | two requests, two threads (one may serve a call that was given up), a crash and a restart anywhere, with the address of a worker or of a closed port |
| `InstallStops` | complete active release while every failure runs the trap; exclusion, activated releases, consistent success | three installers of two commits, two killed shells or host stops: two compete and a third follows the damage |
| `InstallIncomplete` | finding 3 | two installers of one commit, one stop |

Bounds: `MaxTime` bounds the clock (time then stops, and the system may go on), `Threads`,
`Attempts`, `Exchanges` and the sets of documents and credentials bound the population,
`MaxChunk` the piece of a body that arrives at once, `Values` the spellings (those two edits away
from a document, all they are made of, and all that with its keys in order), `MaxStops` the stops. The limits of a schema (`MaxNodes`, `MaxEnum` and the like) are
the program's constants made small. An attempt identity is re-used only when no row and no
thread holds it, as uuid4 never repeats. Deadlock is checked in the runs of the gateway; since a
sweep or a change of the servers is always possible it says little, and `CallsReturn`,
`QueuedAnswered` and `SweepsRun` say what matters instead. Installers end, so their runs allow
it. Symmetry is used in safety runs only, for threads, attempts, credentials, contents,
installers and commits; keys are not symmetric because the first key is an ordinary value of
`key`, and no property or definition names one of the symmetric values.

### Fairness

`CallsReturn` and `SealedResultsRemoved` assume weak fairness of each thread's steps (the
operating system runs threads; a worker call ends because `asyncio.timeout` bounds it,
`worker.py:210`), weak fairness of `Restart` (the service unit restarts the process), and
strong fairness of a sweep with a fresh sample (`_run_maintenance` comes round again however
often the process dies). `QueuedAnswered` and `SweepsRun` assume weak fairness of the pool (a
free thread takes the first of the queue), of each exchange in its thread (the end of a worker
call among them) and of the maintenance loop. Nothing is assumed of clients, who need not finish
their bodies or leave, of the clock, or of `WaitTimeout`: a waiting call returns because its
owner wakes it.

### Assumptions about the environment

* one gateway process per database (`docs/PR-OLLAMA-PRIMARY-LIFECYCLE.md`, `__main__.py:17`);
* the wall clock does not go back; a sample is at most `MaxLag` older than the transaction that
  uses it (SQLite gives up waiting after 30 seconds, `store.py:571`), except the maintenance
  sample, which may be of any age;
* `Retention >= Lifetime + 2 * MaxLag` for `AtMostOneCall` and everything that rests on it
  (`RetentionCovers` in the proofs). The defaults (a day against a lifetime of 900 seconds and a
  lag of 30) are far above; the ranges of `config.py:295` and `config.py:303` do not imply it,
  see the hazards;
* settings stay the same across restarts, except for the key;
* an answer 404, 429 or 5xx, or a connection that was never made, means the server did not
  admit the request. That is the reading `worker.py:230-236` is built on; what the servers do
  is not in this repository.

## 4. What the runs found

1. `RepeatJoinsOrReplays` (`app.py:174`). An exact repeat reads its row as `reserved`, the
   first attempt completes and releases the lane, the repeat claims the lane, and
   `mark_in_progress` raises because the row is completed: the repeat is answered
   `inference_timeout` although the result is there, where the lifecycle document says that an
   exact repeat joins or replays. No worker is called twice, and a further repeat succeeds.
2. `NeverSwitchesWorkers` (`worker.py:230`). A submission that Ollama answers with 404, 429 or
   5xx is reported `worker_unavailable` and put back in line; the repeat finds Ollama's model
   gone and its runtime idle and goes to LM Studio, which takes it, where the README and the
   fallback document say that workers are never switched after Ollama was called. The request is still admitted by one worker only (`TakenAtMostOnce`).

3. `ActiveIsComplete` (`install.sh:287`). The marker that makes a release reusable is written
   before `chmod -R`. When the host stops in between, a rerun takes the release as it is, the
   probes import two modules only, and the link is switched to a release of which the service
   may be unable to read a part, where the install plan says that only a completely installed
   release is activated. A stop in the middle of the trap's `rm -rf` does the same.

## 5. What is proved

TLAPS checks every theorem below, for arbitrary sets of threads, documents, credentials,
contents, keys, attempts, requests, exchanges, installers and commits and arbitrary settings.
The assumptions are the named `ASSUME`s of the modules: documents have an identity among
`RequestIds` and a natural expiry, `RequestIds` is finite (the admission counts are
cardinalities), the limits are positive naturals, the other times are naturals, extended
requests are requests, the bound on stops is a natural, and `None`, `NoCall` and `Partial` are
not ordinary values; those about JSON values are named with the two theorems on schemas below.
Two hypotheses are no assumption of a module but of single theorems:

* `RetentionCovers`, `Retention >= Lifetime + 2 * MaxLag`, of the theorems marked R. The
  defaults satisfy it by far (section 3). With one second less TLC finds `AtMostOneCall`
  violated, on which the proofs of the others rest.
* `OneOperator`, one credential and one key, of `SurvivorsAreReplayed`. A result under another
  key cannot be replayed and another credential may not see it; the script has one token file,
  and a deployment that changes its key between the phases proves nothing about results.

| Theorem | Says | Under |
|---|---|---|
| `StoreTypeCorrect` | `StoreSpec => []StoreTypeOK` |  |
| `CiphertextOnlyWhileCompleted` | `StoreSpec => []SealedWhileCompleted` |  |
| `AdmissionBounded` | `StoreSpec => []OpenWithinCapacity` |  |
| `LifecycleHolds` | `StoreSpec => LifecycleRespected` |  |
| `ResultsAreKept` | `StoreSpec => ResultKeptUntilAckOrExpiry` |  |
| `ServiceTypeCorrect` | `ServiceSpec => []ServiceTypeOK` |  |
| `LaneHasOneOwner` | `ServiceSpec => []SingleOwner` |  |
| `NoLostWakeup` | `ServiceSpec => []WaiterHasOwner` |  |
| `ServiceImplementsStore` | `ServiceSpec => StoreSpec` |  |
| `ServiceKeepsTable` | `ServiceSpec =>` the four properties of the table above, without `StoreTypeOK` |  |
| `TombstonesKept` | `ServiceSpec => TombstoneKept` |  |
| `NothingLapsesEarly` | `ServiceSpec => NothingExpiresEarly` |  |
| `CalledAtMostOnce` | `ServiceSpec => []AtMostOneCall` | R |
| `UnavailableIsHonest` | `ServiceSpec => UnavailableMeansUncalled` | R |
| `ResultIsUnique` | `ServiceSpec => []OneResultPerDocument` | R |
| `NoOrphanedAttempt` | `ServiceSpec => []InProgressHasOwner` | R |
| `AttemptIsSettled` | `ServiceSpec => []AttemptSettled` | R |
| `ServiceKeepsPromise` | `ServiceSpec => PromiseKept`, that is, `InferencePromise` is implemented | R |
| `ServedImplementsService` | `ServedSpec => ServiceSpec` |  |
| `ServersAdmitOnce` | `ServedSpec => []AdmittedAtMostOnce` | R |
| `WorkerIsCalledAsAgreed` | `ServedSpec => CalledAsAgreed` | R |
| `ServedKeepsPromise` | `ServedSpec => PromiseKept` | R |
| `RoutingTypeCorrect` | `RoutingSpec => []RoutingTypeOK` |  |
| `RefusalIsHonest` | `RoutingSpec => []UnavailableMeansNotTaken` |  |
| `AdmittedOnce` | `RoutingSpec => []TakenAtMostOnce` |  |
| `ContextIsKept` | `RoutingSpec => []ExtendedStaysOnOllama` |  |
| `HealthAgreesWithRouting` | `RoutingSpec => HealthIsHonest` |  |
| `FallbackOnlyBesideIdlePrimary` | `RoutingSpec => FallbackBesideIdlePrimary` |  |
| `RouterKeepsPromise` | `RoutingSpec => WorkerPromiseKept`, that is, `WorkerPromise` is implemented |  |
| `InstallTypeCorrect` | `InstallSpec => []InstallTypeOK` |  |
| `InstallersExcludeEachOther` | `InstallSpec => []WritersHoldTheLock` |  |
| `ActivatedReleasesAreKept` | `InstallSpec => ActivatedIsKept` |  |
| `SuccessLeavesConsistency` | `InstallSpec => SuccessIsConsistent` |  |
| `CompleteUnlessStoppedHolds` | `InstallSpec => []CompleteUnlessStopped` |  |
| `ProofRunsService` | `ProofSpec => ServiceSpec` |  |
| `SubmittedStaysOnFile` | `ProofSpec => []SubmittedIsOnFile` |  |
| `SuccessLeftNothing` | `ProofSpec => []SuccessLeavesNothing` |  |
| `ReconciledIsRetained` | `ProofSpec => ReconciledWasRetained` |  |
| `SurvivorsAreReplayed` | `ProofSpec => RetainedReplays` | R, `OneOperator` |
| `AnswersNameNoOther` | `EdgeSpec => []AnswersNameTheirRequest` |  |
| `PassagesStayInBudget` | `Writes => []BudgetCoversOutputs` |  |
| `DecoderSeesTheSchema` | `Writes => []DecoderFollowsSchema` |  |

**The table.** `StoreInv` is `GoodTable(rows) /\ OpenWithinCapacity`. `GoodTable` is type
correctness and `SealedWhileCompleted` put together row by row (`GoodRow`); each needs the
other, because a cleanup keeps the ciphertext rule only for rows of the proper shape.
`OpenWithinCapacity` by itself is inductive only with the observation that every transaction
but `admit` *opens nothing*: a row that is open afterwards was open before, for the same
credential (`OpensNothing`). From that, `CapacityShrinks` compares cardinalities of subsets,
and `AdmitKeepsBoth` adds one row where both counts leave room after the cleanup. What a step
may do to a row is said once, for all methods: `RowMoves(old, new, at)` leaves the row alone,
lapses it, forgets it, or advances it, and lapses or forgets it only where `at` allows that.
`CallMoves` shows that of every method and row, whatever the other rows. The life cycle and
the two lives of a result and of a tombstone are then facts about two rows and a second.

**The process.** `ServiceInv` adds the types and `LaneInv`: every owner has an attempt
identity, `SingleOwner`, `WaiterHasOwner`. The last two depend on each other: releasing the
lane keeps `WaiterHasOwner` because all waiters wait for the one owner and are all woken, and
claiming a free lane keeps `SingleOwner` because nobody owns or waits. A step of a thread is
either a move of the owner or of a bystander (`OwnerMoves`, `BystanderMoves`), and two lemmas
say that such moves keep the lane. That owners have attempts and calls have documents is what
makes each step a proper call of a method (`TableStep`), which gives `ServiceImplementsStore`,
and with it the table's theorems for the process without repeating their proofs. The clock is
what the table does not know: a sample is never ahead of it, so that `RowMoves` with some
`at <= clock` gives `TombstonesKept` and `NothingLapsesEarly`.

**Attempts and calls.** `AttemptInv` ties a thread's call to the row it was admitted for and to
the count of its submissions. Its centre is `Gone(d)`: every sample from now on finds `d`
expired. What a call was admitted for is on file until then (`OnFile`), and a document that a
worker may have is on file and not in line until then (`SpentGood`); a gone document can be
forgotten, because no sample would admit or dispatch it again. That is where `RetentionCovers`
is needed: `RowTimes` bounds the expiry of a tombstone's document by the second the row was
closed in, and with it a cleanup that forgets the row finds the document gone
(`CleanedIsQuiet`). None of this can be left out: `AtMostOneCall` alone says nothing of the row,
without `OnFile` a cleaned table could hold another document under a call's identity, and
without `AttemptGood` a thread could settle a row of another's attempt. Transactions are of two
kinds. Most are *quiet* (`QuietRow`): they start no attempt, complete none and put no row back
in line, and one lemma shows that they keep everything (`QuietKeeps`). The four that are not
(marking, dispatching, refusal and result) change the row of their own attempt only
(`OwnRowOnly`, `OwnStepKeeps`). `worker_unavailable` is concluded in two places, with the lane
and without it: by the owner that has just put its row back in line, and by a reload that finds
one there; in both the row is reserved in the state in which it is concluded, and a reserved row
is one that was not submitted (`ReservedIsUncalled`). `ResultsGood` relates delivered results to the stored one.

**The promise.** `DoneGood` adds that a completed row was counted and that no attempt is at work
on its document. With it, dispatching is `Submit`, a refusal is `Refuse`, the other ends of a
call and a crash are `End`, every delivery is an `Answer`, and all else is a stutter.

**Process and worker.** Every step of the composition is a step of the process
(`ServedIsService`), which is why the process's invariants hold of it. `WorkerInv` compares the
two sides: the worker serves the document of the thread that is with it, or has ended that call
(`CallsAgree`); servers have admitted no more than `calls` counts, strictly less while a
submission is adrift; and where the last outcome allows a repeat, nobody has the document
(`CountsAgree`). `CalledAsAgreed` needs both sides at once: that the lane has one owner makes it
one call at a time, and that a row which is in line has a count of zero makes the repeat
lawful.

**The router.** `OneSubmission` says of each request that it was admitted, is on its way in the
call that runs, or is adrift, and only one of them; and that none holds for a request that may
be called again. `CallGood` says that a
call under way has no outcome yet, and is not at LM Studio with an extended request. Honest
refusals, single admissions and the refinement follow. `KnownToProbes` is what the chain has
learnt by each of its steps, if the servers stayed as they were; it says nothing once they have
changed. With it the last probe of a chain decides as `health()` would have at the first
(`HealthAgreesWithRouting`). Without a fallback that is said of refusals only: `OllamaWorker.infer`
does not ask for the catalogue, and submits where `health()` misses the model in it.

**The installation.** `InstallInv` adds to exclusion what it protects. `LockSafe` is exclusion
with the observation that a process without its shell is in the middle of a command that holds
the lock. `ReleaseSafe` says that a release once activated is usable and that whoever may still
change or remove a release has not activated it: `release_created` is reset when the probes
have passed and before the link is made, so the two never meet. `WorkInPlace` carries what
earlier commands of a run have established to its last one; it holds because nobody else
writes. `ProcessesGood` is what a process knows at its step, without which none of them is
inductive. `NothingHalfDone` is about every process and every release while nothing was killed
or stopped: what is half built or half removed has a maker that is still at work on it. It
cannot be said of the active release alone, because a release is half done before it is active
and after a failure of its maker; and it fails after one stop, which is finding 3.

**The proof script.** `ProofStepIsService` shows that every step of the script, of the
operator and of a crash is a step of the process or a stutter; no phase needs a theorem of the
process proved again. `ScriptInv` places the script in its plan. `FileInv` adds that nothing was
submitted while the file is incomplete and that the file is what the phase submits next, which
is what makes `SubmittedIsOnFile` inductive. `LeftInv` names the row the success leaves behind:
it is acknowledged or forgotten, and stays so because nothing but a call of the script files a
request. `CutInv` is the core of the reconciliation: while the gateway is pointed at a closed port, what
it retains it retained at its last start, and no thread is about to answer with a result a worker
has just returned. `HeldInv` takes that to the script, past its submission. The closed port is
needed: with a worker's address the health check may find the worker down and the submission find
it up, and the phase succeeds on fresh work, which TLC shows in a few steps once `~reach` is taken
out of `ReconciledWasRetained`. `KeptInv` follows a result that survived, at either address: until
its expiry its row is completed or acknowledged with the same document, is completed where the
script goes on to acknowledge it and closed where it submits it again, and no thread works on it,
so that every submission of it is answered at once.

**The edge.** `EdgeInv` says by route and phase what a handler has named so far (`CallGood`),
and that whoever is in the queue is queued once (`QueueGood`), since an exchange that was
queued twice could be started after it was answered and used again.

**The passage budget.** `validate_generation_shape` bounds a number it computes on the way down
(the multiplicity of a place times the references there), and never sees an output.
`PassagesStayInBudget` says that the bound holds of every output: of `sent`, whatever document
of `Values` it is (`Writes`, of which the specification of `ResponseSchema` is a special case:
its documents are in `Values` and a client respells within it). The statement that is inductive
is `Covered(s)`: at every place where `s` is supported and for every number of times it may be
repeated, that number times `MostPassages[s]` is at most `PassageValues[s]` at that number. It
has to be said of all places and all repetitions, because the fields of an array's items are
counted at another multiplicity and a branch stands under other rules than the schema it
belongs to; and it has to suppose that `s` is supported, because the count of an array is right
only where its `maxItems` is a limit, and that of a reference only where nothing stands beside
it. The proof is by induction over data. The library's induction theorems cannot be used for
that here, but what they rest on can: a set of depths has a least element (`LeastElement`), so a
statement on `Values` that follows from less depth holds (`DepthInduction`). That a recursive
function satisfies its own equation is proved in the same way: `Recursion` shows that a
definition that looks only at less depth has a solution in a given set of functions, and
`MostUnfolds`, `PassagesUnfold` and `SupportedUnfolds` apply it. Sums over sequences get the
same treatment (`TotalIsASum`). Assumed are `ValuesAssumption` (values are finite trees, and
`Values` holds what they are made of), `BodiesAssumption` (it holds the documents without their
`$defs` too) and `LimitsAssumption` (limits are natural numbers); TLC evaluates them on the
instance.

**The decoder's schema.** `decoder_schema` rebuilds an admitted schema with its keys in another
order, and what the worker generates against is the rebuilt one. `DecoderSeesTheSchema` says
that nothing was lost or changed on the way (`SameJson`), and that where the order counts the
required fields of every schema inside come first, as `required` lists them. The first half is
inductive as `SameInOrder`: a value in order is the same document both as data, whatever it
looks like, and as a schema if it is a well-formed one; the second reading needs the first, since
`default`, `enum` and `required` hold data, and needs the value to be well formed, because what
is under `properties` of anything else would be replaced by an empty object. The second half is
`OrderedFollows`: `FieldOrderIsRight` and `KeptInOrder` say what one level's keys become,
`RequiredStays` that ordering leaves `required` as it was (its entries are names, each once, and
ordering data keeps lists), and `OrderedInside` that every schema inside an ordered schema is
the order of one inside the original. The values of `Ordered` lie in no set known beforehand, so
its equation is not a case of `Recursion`: `OrdersExist` builds a solution for each depth out of
the one below, and `OrdersAgree` says that solutions coincide. Assumed besides are
`KeyOrderAssumption` (`sorted` orders the keys that occur, each once) and `OrderAssumption`
(`Values` holds every value with its keys in order); TLC evaluates both on the instance.

The type invariants `StoreTypeOK`, `RoutingTypeOK` and `InstallTypeOK` are left to these proofs
and take no run of their own.

Model-checked only: liveness and everything under fairness (`CallsReturn`,
`SealedResultsRemoved`, `QueuedAnswered`, `SweepsRun`), which the prover has no means for; and
two properties of `ResponseSchema` (`OneWire`, `IdentityIsMeaning`), which are about the texts
that the RECURSIVE operator `Encode` produces, and of such operators the prover can say nothing. Every other property of a passing run is a theorem.

## 6. Not modelled

* Configuration: the ranges of the settings and the checks of private files (owner, mode, size).
  They end the start-up before there is any state.
* The edge: the syntax of headers, the wording and codes of errors, logging.
* Contracts: the byte limits and ranges of fields, the syntax of JSON numbers, the pattern of
  passage names, the validation of a completion against its schema. Task policy: the bounds on
  temperature and output tokens, comparisons that reject a request before any state exists.
* Workers: the headers and the parsing of answers, reduced to whether they succeed.
* `health` and `task_profile` change nothing and are no action of `GatewayService`; the decision
  of `FallbackWorker.health` (`OllamaWorker.health` without a fallback) is in `WorkerRouting`, the document made of it is not modelled.
* AES-GCM and the key file: decryption succeeds exactly under the key of the encryption.
* `store.py`: the schema version checks of `initialize` (they end the start-up before anything
  changes), `raw_persisted_values` (a test helper), the columns nobody reads.
* The proof script: its calls with credentials that must be refused (a refusal changes nothing),
  more than one request in a phase, a host stop before the state file is on the disk.
* The process entry point, the systemd units, and the installers of the worker's user unit and
  of the model mount (short sequences of atomic renames after checks of the host). What the
  models take from them: there is one gateway process, and it is restarted when it has died.
* The installer: validation of accounts, paths and interpreters, reduced to `Fail`; the private
  source snapshot and the constraints file, which no other process sees.

## 7. Plan

Done: the table, the process, the promise, router, installer; the composition of process and
worker; edge, contracts and proof script; the theorems of section 5, which state every safety
and action property of the runs but two of `ResponseSchema`. What could follow:

1. *Proofs:* a step of the service that ends a call of the edge, so that `GatewayEdge` can be
   shown to run `GatewayService` as the proof script does; the steps behind the liveness
   properties that are no liveness themselves (a sweep leaves no expired ciphertext, the release
   of the lane leaves nobody waiting).
2. *Contracts:* the validation of a completion, so that what is stored conforms to what was
   admitted.
3. *Installer:* the two hazards without a property (a release directory that no run may use or
   remove, a temporary link under a re-used process identifier).
