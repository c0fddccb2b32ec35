# PII engine: TLA+ verification project

The PII engine answers one question for a gateway: may this request leave for a
model, unchanged, rewritten, by another route, or not at all?  This project
models the parts of the engine in which that answer depends on order:
concurrency, cancellation, time-outs, shared stores, crashes, and the sweeps
that turn detections into a rewritten text.  Source paths below are relative to
`src/pii_engine/`.

## 1. The system

| part | state it keeps | operations | interacts with |
|---|---|---|---|
| request and task coroutines, `runtime.py` | the task of each request, two sets of background tasks | `analyze_segments`, `evaluate_segments_policy`, `_run_analysis`, `_run_policy_evaluation`, retention | limiter, Studio semaphore, worker threads, session store |
| `AnalysisLimiter`, `services/limiter.py` | semaphore, queued and in-flight counters | `slot()` | every task |
| Studio limit, `runtime.py` | a second semaphore | taken before the shared slot | Studio tasks |
| session taint, `services/session.py`, `runtime.py` | one decision per session key in Valkey, with sliding expiry | `get`, `set`, `_cached_decision`, `_final_cached_result`, `_apply_cached_decision`, `_taint_session` | requests of one session, several processes |
| reasoning receipts, `services/session.py` | digests in Valkey, with fixed expiry | `record_reasoning`, `verify_reasoning` | HTTP API, engines of several policy versions |
| policy, `services/policy.py` | none between requests | preflight, face findings, global block, route resolution | planner, analyzer, safety registry |
| planner, `services/planner.py`, `lib/actions.py` | the plan of a leaf | `prepare`, `transform` | anonymizer |
| analyzers, windows, `services/analyzer.py`, `services/recognizers.py`, `services/rules.py`, `services/layers.py` | loaded models | `analyze`: split a long text into windows, collect what is found | NER cache, remote transport |
| NER cache, `services/ner_cache.py` | bounded map of findings, a clean-up thread | `run`, `expire`, `start`, `close` | worker threads, the runtime's start and stop |
| remote NER, `services/remote_http.py`, `services/remote_analyzer.py`, `services/remote_tokens.py` | call budget, process-wide capacity, HTTP client | predict with time-outs and subdivision, token windows | layered analyzer |
| bundle cache, `lib/bundle.py`, `jobs/model_sync.py` | directories by digest, one reference file | `sync_bundle`, `atomic_publish`, `select_desired_bundle`, `completed_cache` | sync jobs and engines, through the file system only |
| start, readiness, restart, `runtime.py`, `controllers/health.py` | analyzer mode | `resolve_analyzer_mode`, `ready`, `restart_required`, `live` | bundle cache, Valkey |
| HTTP front end, `main.py`, `controllers/api.py`, `lib/identity.py` | the certificate of each connection, the body that is being received | body limit, identity, routing, error mapping | runtime, receipts |
| segment extraction, vendored `request_segments` | none | extract, restore | HTTP API |

What is hard here, and what makes each part correct:

* *Admission.*  Futures, timers, cancellation and threads that cannot be stopped
  meet in one event loop.  Permits must be neither lost nor minted, counters
  must agree with reality, abandoned work must stay bounded and be let go, and
  every request must be answered.
* *Session.*  Read, analyse, merge, write, with other requests in between: a
  taint that was answered must hold for what comes later.
* *Rollout.*  Jobs and engines share a volume without a lock, and jobs can be
  killed between any two system calls: what the reference names must be whole,
  and engines must end up serving it.
* *Policy.*  Everything found in a request, in any leaf, in its attachments and
  its images, and everything its session remembers must come down to one
  decision, one route and one report that contradict each other nowhere.
* *Planner.*  Overlapping detections of different strictness, and offsets into
  a text that changes length.
* *Remote.*  Windows that are cut again when a service refuses them, threads that
  compete for the calls of the process, budgets and deadlines: no detection may
  fall between two windows, no permit may get lost, and no analysis may hang.
* *NER cache.*  Inference runs outside the lock, so that closing, expiry and other
  threads come between a miss and the store: findings of personal data must not
  outlive their time or the cache, and a hit must be the answer that inference
  would have given.
* *Windows.*  Three ways to split a text, each with its own arithmetic: what lies
  across an edge must be reported whole, and cutting must end.
* *Front.*  Bodies arrive in pieces and clients go away in between; connections
  share one ASGI state; receipts expire, are evicted and are written with replies
  lost: a route must work on exactly what was sent, for exactly who sent it, and
  an answer must say nothing that is not so.

`PROJECT.json` lists every part under "components" and every place where
something could go wrong unseen, with its line, under "hazards".

## 2. Modules

| module | models | composes |
|---|---|---|
| `AsyncSemaphore` | `asyncio.Semaphore` of the standard library (external): value, queue of futures, woken waiters | |
| `Admission` | `runtime.py` coroutines, `services/limiter.py` | `AsyncSemaphore` twice; implements `Capacity` twice |
| `Capacity` | the abstract first-come-first-served capacity | |
| `Session` | `services/session.py` and its use in `runtime.py` | |
| `Rollout` | `lib/bundle.py`, `jobs/model_sync.py`, mode selection and probes | jobs, engines and the file system |
| `Actions` | the action registry, `lib/actions.py` | |
| `Planner` | `services/planner.py`, `services/anonymizer.py` | `Actions` |
| `Policy` | `services/policy.py`, the merge and the record in `runtime.py`, the validators in `models/contracts.py`, `services/session.py`, `controllers/api.py` | `Actions`; takes `Planner`'s regions as given, and `Session`'s interleavings |
| `Remote` | `services/remote_http.py`, the GLiNER part of `services/remote_analyzer.py` | worker threads and the capacity they share |
| `NerCache` | `services/ner_cache.py`, its callers in `services/analyzer.py` and `services/remote_analyzer.py`, start and close in `services/layers.py` and `runtime.py` | worker threads, the clean-up thread and the owner of the cache |
| `Windows` | `_baseline_chunks`, `_chunks` and `analyze` in `services/analyzer.py`; `token_chunks` in `services/remote_tokens.py` and `kserve_matches` | |
| `Front` | `main.py`, the routes in `controllers/api.py`, `lib/identity.py`, the receipts in `services/session.py` | connections, engines and Valkey; takes the outcome of an analysis, which is `Admission`, `Session` and `Policy`, as given |
| `MC...` | instances for TLC | |
| `...Proofs` | theorems and proofs | |

Definitions carry the names of the functions they model; "map" in
`PROJECT.json` gives the lines.  Definitions named as mutations or mutants in
their comment are not part of the model: each is a plausible mistake in the
definition after it, used to show that a property notices it.

**Admission.**  An action is what the event loop runs between two suspensions
of one coroutine, or an event from outside (a timer, a cancellation, the end of
a thread).  `AnalyzeSegments` and `EvaluateSegmentsPolicy` submit the task;
`BeginAnalysis`, `BeginStudio` and the `...Granted` and `...Aborted` actions are
its stretches up to the thread; `FinishTask` is everything after it, the
`finally` clauses included; `ObserveStart`, `TakeResult`, `DeadlineFires`,
`CancelTask` and `CancelRequest` are the request's side.  A permit that
`release()` hands to a waiter that has not run yet is in `woken`, which is where
time-outs and cancellations race with it.  The limiter's `asyncio.Lock` is not
modelled: no section under it suspends.

**Session.**  An action is the stretch between two Valkey calls.  The verdict of
the policy is left open: any decision for any request.  A failing `SET` may have
been carried out or not.  Three history variables (`told`, `floor`, `stale`)
record what was answered and when, for the properties only.  The model has
session state enabled; without it none of this code runs.

**Rollout.**  An action is one access to the shared volume that others can come
between: a validation, the begin and the two ends of `rmtree`, a rename.  A
directory is absent, torn, empty or complete.  `StopJob` ends a job anywhere and
leaves the volume as it is.  `Overlap` says whether two jobs may work on the
same bundle at once.  Nothing else writes to the volume, and a rename is atomic.
Loading from a torn directory may go unnoticed or fail: only the manifest is
read again.

**Planner.**  One match per step in the order of the code's sorts, first per
entity type, then over all; then one region per step from right to left.  The
text is a sequence of the original character numbers, with 0 for new
characters, so that the result shows where each character went.  Scores and
sources only break ties and are left open.  The content of hashes and
placeholders, the reversal map and the counters are left out.

**Policy.**  One request of the adapter at a time, on one session, from its
arrival to its answer: stored decision, preflight, faces, one step for each leaf
that is planned, the global block, one step for each leaf that is rewritten, the
decision, the merge with what was stored, the record, the answer.  A leaf is a
set of regions, a region the set of entity types that overlap there, which is
what `Planner` is proved to deliver; its owner is any of the strictest.  The
validators of the record and of the answer are part of the model: what they
refuse ends in `rejected`, which the code answers with an internal error.  What
fails for other reasons (a kind that does not match, too many leaves, no text, a
placeholder that already exists) ends in `failed`.  Capacity, deadlines and
Valkey failures are in `Admission` and `Session`; texts of notices and the order
of lists that the code sorts are left out.

The upper limits of the fields of records and answers (64 types, counts and
overlaps of 10 million) are `MaxTypes` and `MaxCount`.  What keeps the engine
within them is part of the model.  A region has text of its own, since the planner
refuses empty matches (`services/planner.py:295`), and the text of a request is
limited to fewer than 10 million characters (`config/settings.py:28`,
`services/policy.py:490`): so `SegmentRequest` has at most `MaxCount` regions, and
`FaceFindings` has its own limit.  A merge takes the larger of two counts, not
their sum, so a long session does not outgrow them.  Routes and notices have the
same limits in the policy as in the record.  That there are no more than 64 entity
types is **not** enforced: the catalogue has fewer, but a policy may add any number
of custom recognizers.  It is an assumption of the model.

**Remote.**  A worker thread has the texts of its request scanned one after the
other.  A window is an interval of offsets.  `analysis_budget` is entered twice: by
the runtime, which gives the request its budget and its deadline
(`AnalysisBudget`), and again around the planning of its leaves (`PreparePlans`),
where the budget that exists keeps its calls and takes the earlier deadline; a
request may also end in between.  `Analyze`, `CutWindow`, `TakeWindow` and `TextScanned` are the loops of a request, of
`RemoteAnalyzer.analyze` and of `gliner_matches`; `Request`, `Acquire`,
`AcquireTimesOut` and `Reply` are one call, from the budget to the `finally`
clause that returns the permit.  A hit of the window cache and the answer of the
service are left open, and a deadline may pass at any time.  A request with
several models scans each text once for each of them, which `Requests` can say.
`calls` is a history variable.  `ShortSpan` is the longest span that the overlaps
promise to keep whole: with the code's 128, 32 and 64 characters it is 32.

**NerCache.**  What runs under the lock is one action; `Detect` is inference,
outside it.  A thread looks up its window (`Hit`, `Miss`, `LookupError`), detects,
stores (`Store`, `StoreError`) and makes results of its own at the window's
offset (`Convert`); it then takes any other window.  The key is the length of the
context, the context and the text, as sequences: the keyed hash over them is
taken to have no collisions, but that the three together name one window is
proved.  Which entries cachetools evicts is left open, beyond that it evicts only
for room.  The owner starts, closes and starts again, with threads of an earlier
life still inside `run`.

**Windows.**  One text with one entity and any tokens, one window per step.  Per
window the model returns the entity if it sees all of it, and otherwise nothing
or the part it sees.  spaCy windows own the characters between their overlaps and
report what has its midpoint there; transformer and KServe windows are made of
tokens; a KServe window with too many tokens of its own is cut at the end of any
of them, or refused, since what a tokenizer makes of a part of a text is not
known.  Tokens may start at the same character.

**Front.**  A connection gets its certificate, sends requests one after the other,
in chunks of any size, and may go away at any time before its route runs.  A body
is its length.  `Request` and `Chunk` are the middleware, `NotAccepted` what is
refused before the code of a route runs, and `AnalysisFails`, `AnalysisAnswers`,
`ReceiptsRefused`, `Record`, `RecordFails`, `Verify` and `VerifyFails` the routes
with the answer that each outcome is given.  `Apply` is the transaction that sets
the receipts; it may have been carried out when the call fails.  `Enforcing` are
the engines with `enforce_client_identity`, which is the default; the others take a
request from any peer.  A certificate has exactly one common name.  `recorded` is a history
variable: what was recorded no longer than a lifetime ago.

## 3. Runs

| run | instance | checks |
|---|---|---|
| `admission` | 2 adapter and 2 Studio requests, 2 slots, 2 queue places, 1 Studio permit; 1.8 million states | `PermitsConserved`, `CountersExact`, `NoStrandedPermit`, `NoOrphanedTask`, `WorkersBounded` |
| `admission_live` | 1 adapter, 2 Studio requests, 1 slot | `EveryRequestAnswered`, `BackgroundDrains`, `StudioImplementsCapacity`, `SlotsImplementCapacity` |
| `session` | 2 concurrent requests, again and again, on 1 key, 2 routes | `TaintIsSticky`, `AnsweredTaintIsStored`, `OnlyStaleWritersWeaken` |
| `session_block` | the same | `BlockIsSticky` is **violated**: see 5 |
| `rollout` | 2 jobs on different bundles, 1 engine, 2 bundles | `ReferenceComplete`, `LoadsWholeBundle`, `CompletedNeverMutated`, `SelectedBundleActivates`, `EnginesComeUp` |
| `rollout_overlap` | the same, jobs may share a bundle | `CompletedNeverMutated` is **violated**: see 5 |
| `planner` | up to 3 detections of 2 types in 4 characters, 5 actions, masks of 1 character; 1.3 million states | `StrictestWins`, `RegionsSound`, `TextFollowsPlan`, `BlockDecides` |
| `policy` | 2 entity types, 5 actions, 2 routes, both orders of rerouting policies, 3 actions on faces; requests of up to 2 leaves, again and again on 1 session; both upper limits are reached exactly | `TypeOK`, `NoSelfRejection`, `StrictestDecides`, `NoLeafForwardedRaw`, `RouteHonoured`, `EvidenceKept` |
| `remote` | 2 threads, 1 permit, 3 calls for each request; windows of 8 characters that share 3; texts of 12 characters, or of 7, 0 and 3, again and again | `ShortSpansWhole`, `PermitsReturned`, `CallsBounded`, `AnalysesEnd` |
| `nercache` | 2 threads; 3 windows, two of which have the same bytes split differently between context and text and do not fit into the cache together, and one larger than the cache; lifetime of 2 ticks; closing and starting again | `ClosedStaysEmpty`, `AnswersAreDetections`, `FixedExpiry`, `FindingsReleased` |
| `windows` | texts of up to 10 characters for spaCy, up to 5 characters and 5 tokens for the others; overlaps of none, one and more than half a window; tokenizers with and without room | `ShortEntitiesReported`, `CuttingEnds` |
| `front` | 2 connections, 2 certificates, 14 kinds of request: bodies below and above the limit, declared, undeclared, badly declared and invalid; receipts of 2 scopes for engines of 2 policy versions, too many, and for another version; one of the engines does not enforce identities; 1.5 million states | `HandledAsSent`, `LimitFactsTrue`, `ReceiptAnswersTrue` |

What the properties of the last three runs say.  `ClosedStaysEmpty`: no thread that was inside `run`
when the cache was closed puts anything back.  `AnswersAreDetections`: whatever
hits, misses, errors and restarts led to it, a window is answered with what
inference finds for its own text in its own context, at its own offset.
`FixedExpiry`: nothing makes a living entry younger.  `FindingsReleased`: expired
entries go although nobody asks for them, and closing ends although inference
hangs.  `ShortEntitiesReported`: an entity no longer than what the overlaps are for
(twice the overlap of spaCy windows; with as many tokens inside as token windows
share and, if they are cut, no longer than 64 characters) is reported whole, and
by spaCy exactly once.  `HandledAsSent`, `LimitFactsTrue` and `ReceiptAnswersTrue`:
see *Front* above; a verified receipt was recorded for its scope by an engine of
the same policy version no longer than a lifetime ago, however often it was
verified since.

Why the bounds are enough for the interesting cases.  Admission: with four
requests and two slots the queue fills and refuses, a slot is handed over while
a newcomer arrives and a second waiter times out, a permit is free while a woken
waiter has not run yet, and Studio work waits at both limits.  Session: the record is written between another
request's read and its write; request identities are reused, so sequences are
unbounded.  Rollout: identities of jobs are reused too; two bundles are needed
for the reference to move away and back.  Planner: three detections give
nesting, chains (a overlaps b overlaps c), touching spans and duplicates; with
two types these cross types.  The action sets are reduced to one action per way
of rewriting: to nothing, to another length, partly masked, not at all, and
block.  Policy: two types that overlap or not, in the same or in different
leaves, one of them perhaps left to the default action, give every combination
of two demands; faces are the third.  The session takes any number of requests
in turn; its counts are maxima and stay bounded.  Remote: a text of two windows,
each of which can be cut twice before the floor, at even and odd lengths, and a
budget that ends in the middle of it; the second thread can take the permit
again and again.  NerCache: two threads miss the same window, one window pushes
another out, and a thread sleeps through close and start.  Windows: texts of
several windows with the entity at every place, every tokenization of up to five
tokens, windows that are cut down to the overlap.  Front: a body of three bytes
can end exactly at the limit, in the middle of a chunk above it, or not at all;
two connections record and verify the same receipts at any age.  Symmetry is used
for requests, connections, routes and entity types that the specification does not tell apart, never with liveness.

Fairness.  `Admission!FairSpec`: the event loop runs every ready coroutine and
fires its timers; worker threads are **not** assumed to end, except in
`BackgroundDrains`, which says so in its formula.  `Rollout!FairSpec`: engine
processes go on, probes are made and failing containers are restarted; no job
is assumed to succeed and no redeployment to happen.  `Remote!FairSpec`: threads
run, a call ends (its connection and its reads have time limits) and deadlines
pass; **no** thread is assumed to get a permit, since `threading.Semaphore`
promises no order.  `NerCache!FairSpec`: the clean-up thread is scheduled,
what it does under the lock does not fail for ever (strong fairness of
`CleanupExpire` beside `CleanupError`), and `close` goes on once what it waits for
has happened; **no** inference is assumed to end, no clock to tick and nobody to
look anything up.  `Windows!FairSpec`: one thread runs the loop to its end, and
every call of a model ends.  `Session`, `Policy`, `Planner` and `Front` have no
liveness properties: a `Planner` that stops before its end would be reported as a
deadlock.

## 4. Proofs

All of these hold for every value of the constants, checked by TLAPS.

* `AdmissionProofs`: `TypeOK`, `PermitsConserved`, `CountersExact`,
  `NoStrandedPermit`, `NoOrphanedTask`, `WorkersBounded`, from `Inductive`.  The
  properties alone are not inductive: that a permit is conserved depends on each
  task being in exactly the queue or woken set that its state says
  (`TasksMatch`), and on the structure of each semaphore (`Sound`): no duplicate
  in the queue, queue and woken set apart, free permits beside waiters only if
  as many have been woken.  Lemmas about the semaphore operations are stated
  once and used for both semaphores.  Assumptions: finitely many requests,
  Studio requests and evaluations among them, limits positive.

  From the same invariant, `LimiterImplementsCapacity` and
  `StudioLimiterImplementsCapacity`: the runtime implements `Capacity` twice
  (`SharedSlots!Spec` and `StudioPermits!Spec`, its safety part).  The steps of a
  capacity are stated once as relations between holders and line (`EnterStep`,
  `JoinStep`, `AbandonStep`, `LeaveStep`); one lemma per semaphore operation says
  which of them it is, and one lemma per action that each of its operations on
  the two semaphores is such a step.  An action with two operations on the Studio
  semaphore, a waiter that gets its permit and loses it at once because the
  shared queue is full, is still one step (`ResumeReleaseLeaves`).  That the line
  is within `MaxQueued` needs `CountersExact`: the limiter goes by its counter,
  which counts withdrawn tasks as well.
* `SessionProofs`: `TypeOK`, `TaintIsSticky`, `AnsweredTaintIsStored`,
  `OnlyStaleWritersWeaken`, from `Inductive`, which adds for each request what
  it has read and will therefore answer (`RequestOK`).  Assumption: `None` is
  none of the keys, routes and decisions.
* `PlannerProofs`: `StrictestWins`, `RegionsSound` (regions are disjoint and
  have no character that nobody detected), `BlockDecides`, for any text length,
  any policy and any set of detections.
  `Inductive` is the loop invariant of the two sweeps: the open group is without
  gaps and spans its members (`GroupOK`), what was taken is covered by what was
  closed (`CoalesceOK`, `ResolveOK`), and closed regions end before the sweep
  goes on.  Also `TextFollowsPlan`, by the invariant of the rewriting loop
  (`RewriteOK`): up to the end of the regions that are left the text is the
  original, so offsets of the plan are still positions in it; behind that the
  characters kept are exactly those that no rewritten region hides, in their
  order, and the new characters of each region stand where it was.  It needs
  that regions lie in the text (`SpansOK`), that they do not overlap
  (`RegionsSound`), and that the rightmost is taken first
  (`RightmostIsBehind`).  The property counts original characters in front of a
  place; the invariant says where the new ones stand (`StandsAt`), and that the
  two counts agree follows once, at the end, from a bijection (`AsManyBefore`).
* `PolicyProofs`: `TypeOK`, `NoSelfRejection`, `StrictestDecides`,
  `NoLeafForwardedRaw`, `RouteHonoured` and the action property `EvidenceKept`,
  for any policy, requests and number of leaves.  `Inductive` has one part for
  each thing the code carries along: where the request is (`StageOK`), the leaves
  planned so far and the totals over them (`PlansOK`), the leaves rewritten so far
  (`TextOK`), what the session holds and the request has read (`CacheOK`), and the
  result (`ResultOK`).  A result is a `Draft` before the faces are applied, then
  `Sound`, then, merged with what was stored, `Settled`: each says of the part of
  the answer that exists by then which demands it meets and which validators it
  passes.  That nothing is refused needs all of them together, since the
  validators relate counts, actions and the decision.  Assumptions
  (`PolicyAssumption`): finitely many entity types, none of them named as the
  faces are, and no more of them, faces included, than a record may hold;
  `None` is no request, route, finding or set of leaves.  `Bounded` carries the
  upper limits: counts and overlaps are numbers of regions of the request, and the
  rows of a report are told apart by their entity type.
* `RemoteProofs`: `ShortSpansWhole`, `PermitsReturned`, `CallsBounded`, for any
  texts, sizes, overlaps, threads and capacity.  `Inductive` adds that a call is
  paid for before the thread waits (`BudgetOK`) and, while a text is being cut,
  that every short span up to the end of the last window is covered
  (`Coverage`).  `HalvesCover` is the heart: a short span of a window lies in one
  of its halves.  Assumption (`RemoteAssumption`): `ShortSpan` is at most the
  overlap of windows, and at most twice as long as each half reaches over the
  middle, in the smallest window that is still cut as well.

  Also `AnalysesAlwaysAdvance`, why a request ends however often its windows are
  refused and cut again: every step of a thread that has one brings it `Closer` to
  its end in a lexicographic order of natural numbers (texts left, stage, text left
  to cut, calls left in the budget, place on the way to the next call, windows
  pending), and no step of another thread or of the clock takes it back.
* `NerCacheProofs`: `ClosedStaysEmpty`, `AnswersAreDetections`, `FixedExpiry`, for
  any threads, windows, sizes and lifetime.  `KeyIsInjective` is the heart: because
  the length comes first, two windows with the same key have the same context and
  the same text.  `Inductive` adds that the stop event stays set from the
  beginning of `close` to the next start (`ClosingOK`), that an entry is what
  inference finds for the window of its key (`EntriesOK`), and what each thread
  has in hand at each place (`ThreadsOK`).  Assumptions: contexts and texts are
  sequences, the size and the lifetime are positive.
* `WindowsProofs`: `ShortEntitiesReported`, for any text, tokens, profile and
  tokenizer.  `CharactersOK` says which windows have been read when the entity is
  reported: a short entity whose midpoint a window owns lies in it, and a part of
  it that a neighbour sees has its midpoint outside what the neighbour owns.
  `TokensOK` says that the entity is reported, lies in a window still to be sent,
  or begins no earlier than the next window to be listed; that it cannot fall
  between two windows is an argument about the number of tokens inside it, and
  that it cannot fall between the parts of a cut window one about its length.
  Assumption: what `ModelProfile.validate_limits` accepts.

  Also `AnalysisAlwaysAdvances`, why an analysis ends: every step ends it, moves on
  in the text (`Onward`), or puts shorter windows in the place of one (`Shortened`);
  that both parts of a cut window are shorter is what `CanCut` is there for.
* `ServingProofs`, of `Rollout`: `ReferenceComplete`, `LoadsWholeBundle`,
  `CompletedNeverMutated`, under `~Overlap`.  `RolloutInductive` adds that a job
  about to change a directory has seen it incomplete and that active jobs are on
  different bundles; `rollout_overlap` shows that the latter is needed.  Of
  `Front`: `HandledAsSent`, `LimitFactsTrue`, `ReceiptAnswersTrue`, for any
  connections, certificates, requests and limits.  `Inductive` adds that the state
  of a connection is that of its peer and a route starts with the whole body
  (`ConnectionsOK`), and that Valkey has no receipt younger than its last
  recording (`ReceiptsOK`), which is why verifying must not renew.

Every invariant and action property that a passing run checks is proved.  Only
model-checked, since the prover handles neither fairness nor `ENABLED`: all
liveness (`EveryRequestAnswered`, `BackgroundDrains`, `SelectedBundleActivates`,
`EnginesComeUp`, `AnalysesEnd`, `FindingsReleased`, `CuttingEnds`), and the
fairness of `Capacity` in `SlotsImplementCapacity` and `StudioImplementsCapacity`.
Of `AnalysesEnd` and `CuttingEnds` the part without fairness is proved, that no
behaviour goes on stepping without coming closer to the end; that such an order has
no infinite descent is an argument outside the prover.

## 5. What disagrees

* **A recorded block can be overwritten.**  `_taint_session` writes the merge of
  its verdict and the decision read before the analysis.  If another request of
  the session was answered with a block in the meantime, a reroute replaces it,
  and the next request is rerouted instead of blocked (`session_block`).  A test
  states that tainting decisions remain sticky, and shows it for requests in
  sequence.  What does hold is proved: the session stays tainted, and only such
  an outdated writer can weaken the record.
* **Overlapping sync jobs can delete a completed bundle.**  `atomic_publish`
  validates the destination and removes it later if it exists; a job for the
  same digest can have completed it in between (`rollout_overlap`).  The
  docstring promises not to mutate completed directories.  With one job per
  bundle at a time it does not, which is proved.

## 6. Not modelled, and the plan

Not modelled, because it has no state and no order, or is outside this code:

* regular expressions, checksums and word lists of recognizers and safety rules,
  model inference, and `decode_predictions` of remote models;
* Presidio's removal of duplicates and the merge of rule and model findings, which
  are set operations on the result of `Windows`;
* segment extraction and restoration (`services/traversal.py`, vendored
  `request_segments`): walks over provider JSON, whose model would be a
  transliteration;
* configuration and contract validators, except those that decide about records,
  answers, profiles and limits, which are in `Policy`, `Windows` and `Front`;
* read-only routes, correlation identifiers, metrics and logging;
* the health of Valkey and of remote services in `ready`.

Known places that no property covers.  `ready` is looked at once per request
(`runtime.py:257`), so a request may run on a cache or store that has gone since.
The verdict of an analysis that was answered with a time-out is dropped and does
not taint its session (`runtime.py:320`).  A killed sync job leaves its staging
directory behind (`lib/bundle.py:313`).  Engines of the old bundle are unready as
soon as the reference moves (`runtime.py:743`).  The lifetime of a session is
truncated to whole seconds (`runtime.py:571`).  A partial mask that wins a region
is applied to the union of its detections (`services/planner.py:161`).  Records
and answers hold at most 64 entity types (`models/contracts.py:533`), which the
model assumes of the policy and no check of the policy ensures; and a history that
already holds a placeholder of its conversation is refused
(`services/policy.py:221`).  In each of these the code does what it seems meant to
do: there is no promise in the repository that a property could state.

What is left, in this order:

1. The reversal map: placeholders and restoration as a round trip.
2. Proofs: the same for `FindingsReleased` and `SelectedBundleActivates`, that
   every step of a closing cache or of an activation comes closer to its end.
3. The composition of `Remote`'s call budget with `Windows` for KServe models.
