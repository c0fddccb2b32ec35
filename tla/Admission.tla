------------------------------ MODULE Admission ------------------------------
(***************************************************************************)
(* How a request gets analysis capacity and an answer.                     *)
(*                                                                         *)
(* A request coroutine (EngineRuntime.analyze_segments or                  *)
(* evaluate_segments_policy) starts a task (_run_analysis or               *)
(* _run_policy_evaluation) and waits for it.  The task takes, in this      *)
(* order, a Studio permit when the caller is Studio and a slot of the      *)
(* shared AnalysisLimiter, then runs the policy in a worker thread and     *)
(* gives both back.  The request may be answered, run into its deadline or *)
(* be cancelled while the task goes on.                                    *)
(*                                                                         *)
(* An action is what the event loop runs between two suspensions of one    *)
(* coroutine, or one event from outside: a timer, a cancellation, the end  *)
(* of a worker thread.  The limiter's asyncio.Lock is never contended: no  *)
(* section under it suspends.                                              *)
(***************************************************************************)
EXTENDS AsyncSemaphore, FiniteSets

CONSTANTS Requests,       \* identities of concurrent requests
          Studio,         \* the requests whose caller is Studio
          Evaluations,    \* the Studio requests that evaluate a candidate
          MaxConcurrent,  \* settings.max_concurrent_analyses
          MaxQueued,      \* settings.max_queued_analyses
          StudioMax       \* settings.studio_max_concurrent_analyses

ASSUME AdmissionAssumption ==
    /\ IsFiniteSet(Requests)
    /\ Studio \subseteq Requests
    /\ Evaluations \subseteq Studio
    /\ MaxConcurrent \in Nat \ {0}
    /\ MaxQueued \in Nat
    /\ StudioMax \in Nat \ {0}

VARIABLES req,          \* where the request coroutine is, or its answer
          task,         \* where the task of the request is, or how it ended
          worker,       \* the worker thread of the task, or how it ended
          mark,         \* a cancellation the task has still to see
          slots,        \* AnalysisLimiter._semaphore
          queued,       \* AnalysisLimiter._queued
          inFlight,     \* AnalysisLimiter._in_flight
          studio,       \* EngineRuntime._studio_limiter
          analyses,     \* EngineRuntime._background_analyses
          evaluations   \* EngineRuntime._background_evaluations

limiterVars == <<slots, queued, inFlight>>
backgroundVars == <<analyses, evaluations>>
vars == <<req, task, worker, mark, slots, queued, inFlight, studio, analyses, evaluations>>

Waiting == {"awaiting", "guarded"}
Answers == {"served", "rejected", "timeout", "cancelled", "failed"}

\* "running" is a task inside the slot() context, awaiting its thread.
Ended == {"full", "expired", "cancelled", "returned", "raised"}
TaskStates == {"none", "created", "studioWait", "slotWait", "running"} \union Ended

\* A mutation of Started: the event is set only after the thread has ended.
StartedLate(r) == task[r] \in {"returned", "raised"}

\* analysis_started.is_set(): set right after the slot is taken.
Started(r) == task[r] \in {"running", "returned", "raised"}

Background == analyses \union evaluations

-----------------------------------------------------------------------------

Init ==
    /\ req = [r \in Requests |-> "idle"]
    /\ task = [r \in Requests |-> "none"]
    /\ worker = [r \in Requests |-> "none"]
    /\ mark = [r \in Requests |-> "none"]
    /\ slots = Semaphore(MaxConcurrent)
    /\ queued = 0
    /\ inFlight = 0
    /\ studio = Semaphore(StudioMax)
    /\ analyses = {}
    /\ evaluations = {}

\* A request arrives and creates its task.  An identity is free for the next
\* request once nothing of the last one is left.
Submit(r) ==
    /\ req[r] \notin Waiting
    /\ task[r] \in Ended \union {"none"}
    /\ worker[r] # "busy"
    /\ r \notin Background
    /\ req' = [req EXCEPT ![r] = "awaiting"]
    /\ task' = [task EXCEPT ![r] = "created"]
    /\ worker' = [worker EXCEPT ![r] = "none"]
    /\ mark' = [mark EXCEPT ![r] = "none"]
    /\ UNCHANGED <<limiterVars, studio, backgroundVars>>

AnalyzeSegments(r) == r \notin Evaluations /\ Submit(r)

EvaluateSegmentsPolicy(r) == r \in Evaluations /\ Submit(r)

-----------------------------------------------------------------------------
(* The task *)

\* A mutation of StudioReleased: studio_acquired is not consulted.
StudioAlwaysReleased(r, s) == Release(s)

\* "finally: if studio_acquired: release()" for a task that leaves with the
\* Studio semaphore as in s.
StudioReleased(r, s) == IF r \in Studio THEN Release(s) ELSE s

\* Mutations of MustQueue: the limiter goes by its own counter, or admits only
\* while nobody else is in flight.
MustQueueByCounter == inFlight >= MaxConcurrent
MustQueueBehindAny == locked(slots) \/ inFlight > 0

\* slot() does not try to acquire at once.
MustQueue == locked(slots)

\* A mutation of QueueFull: off by one.
QueueOverfull == queued > MaxQueued

\* slot() turns a task away that would have to queue.
QueueFull == queued >= MaxQueued

\* limiter.slot() up to its first suspension or to its body, entered with the
\* Studio semaphore as in s.  Not locked: the slot is taken at once, started
\* is set and the worker thread begins.
EnterSlot(r, s) ==
    /\ \/ /\ MustQueue
          /\ QueueFull
          /\ task' = [task EXCEPT ![r] = "full"]
          /\ studio' = StudioReleased(r, s)
          /\ UNCHANGED <<limiterVars, worker>>
       \/ /\ MustQueue
          /\ ~QueueFull
          /\ task' = [task EXCEPT ![r] = "slotWait"]
          /\ slots' = Join(slots, r)
          /\ queued' = queued + 1
          /\ studio' = s
          /\ UNCHANGED <<inFlight, worker>>
       \/ /\ ~MustQueue
          /\ task' = [task EXCEPT ![r] = "running"]
          /\ worker' = [worker EXCEPT ![r] = "busy"]
          /\ slots' = Take(slots)
          /\ inFlight' = inFlight + 1
          /\ studio' = s
          /\ UNCHANGED queued

\* The first step of an adapter's analysis task.
BeginAnalysis(r) ==
    /\ task[r] = "created"
    /\ mark[r] = "none"
    /\ r \notin Studio
    /\ EnterSlot(r, studio)
    /\ UNCHANGED <<req, mark, backgroundVars>>

\* The first step of a Studio task: the Studio permit comes first.
BeginStudio(r) ==
    /\ task[r] = "created"
    /\ mark[r] = "none"
    /\ r \in Studio
    /\ \/ /\ ~locked(studio)
          /\ EnterSlot(r, Take(studio))
       \/ /\ locked(studio)
          /\ task' = [task EXCEPT ![r] = "studioWait"]
          /\ studio' = Join(studio, r)
          /\ UNCHANGED <<limiterVars, worker>>
    /\ UNCHANGED <<req, mark, backgroundVars>>

\* A task cancelled before its first step never runs a line of its own.
BeginCancelled(r) ==
    /\ task[r] = "created"
    /\ mark[r] = "cancel"
    /\ task' = [task EXCEPT ![r] = "cancelled"]
    /\ UNCHANGED <<req, worker, mark, limiterVars, studio, backgroundVars>>

\* The timer of wait_for(acquire(), queue_wait_timeout): it cancels the task
\* inside acquire(), which may have been woken already.
QueueTimer(r) ==
    /\ task[r] \in {"studioWait", "slotWait"}
    /\ mark[r] = "none"
    /\ mark' = [mark EXCEPT ![r] = "timeout"]
    /\ slots' = IF task[r] = "slotWait" THEN Withdraw(slots, r) ELSE slots
    /\ studio' = IF task[r] = "studioWait" THEN Withdraw(studio, r) ELSE studio
    /\ UNCHANGED <<req, task, worker, queued, inFlight, backgroundVars>>

\* How a waiting task ends when acquire() raises: TimeoutError becomes
\* AnalysisCapacityError, CancelledError goes through.
Aborted(r) == IF mark[r] = "timeout" THEN "expired" ELSE "cancelled"

\* The Studio waiter is resumed with its permit and goes on into slot().
StudioGranted(r) ==
    /\ task[r] = "studioWait"
    /\ r \in studio.woken
    /\ mark[r] = "none"
    /\ EnterSlot(r, Resume(studio, r))
    /\ UNCHANGED <<req, mark, backgroundVars>>

\* A mutation of StudioAborted: studio_acquired is set before the wait.
StudioAbortedAsOwner(r) ==
    /\ task[r] = "studioWait"
    /\ mark[r] # "none"
    /\ task' = [task EXCEPT ![r] = Aborted(r)]
    /\ studio' = Release(Abort(studio, r))
    /\ UNCHANGED <<req, worker, mark, limiterVars, backgroundVars>>

\* The Studio waiter is resumed with an exception: studio_acquired is false.
StudioAborted(r) ==
    /\ task[r] = "studioWait"
    /\ mark[r] # "none"
    /\ task' = [task EXCEPT ![r] = Aborted(r)]
    /\ studio' = Abort(studio, r)
    /\ UNCHANGED <<req, worker, mark, limiterVars, backgroundVars>>

\* The queued task is resumed with its slot; the worker thread begins.
SlotGranted(r) ==
    /\ task[r] = "slotWait"
    /\ r \in slots.woken
    /\ mark[r] = "none"
    /\ task' = [task EXCEPT ![r] = "running"]
    /\ worker' = [worker EXCEPT ![r] = "busy"]
    /\ slots' = Resume(slots, r)
    /\ queued' = queued - 1
    /\ inFlight' = inFlight + 1
    /\ UNCHANGED <<req, mark, studio, backgroundVars>>

\* The queued task is resumed with an exception: it leaves the queue, and a
\* Studio task gives back the permit it holds.
SlotAborted(r) ==
    /\ task[r] = "slotWait"
    /\ mark[r] # "none"
    /\ task' = [task EXCEPT ![r] = Aborted(r)]
    /\ slots' = Abort(slots, r)
    /\ queued' = queued - 1
    /\ studio' = StudioReleased(r, studio)
    /\ UNCHANGED <<req, worker, mark, inFlight, backgroundVars>>

\* policy.analyze returns or raises in its worker thread.
WorkerExits(r) ==
    /\ worker[r] = "busy"
    /\ \E end \in {"ok", "error"} : worker' = [worker EXCEPT ![r] = end]
    /\ UNCHANGED <<req, task, mark, limiterVars, studio, backgroundVars>>

\* The task is resumed and leaves slot() and the outer try: both permits go
\* back.  It is resumed by the end of its thread; cancelling it would resume
\* it at once and leave the thread behind.
FinishTask(r) ==
    /\ task[r] = "running"
    /\ worker[r] = "busy" => mark[r] = "cancel"
    /\ task' = [task EXCEPT ![r] = CASE mark[r] = "cancel"  -> "cancelled"
                                     [] worker[r] = "error" -> "raised"
                                     [] OTHER               -> "returned"]
    /\ inFlight' = inFlight - 1
    /\ slots' = Release(slots)
    /\ studio' = StudioReleased(r, studio)
    /\ UNCHANGED <<req, worker, mark, queued, backgroundVars>>

-----------------------------------------------------------------------------
(* The request coroutine *)

\* A mutation of RetainBackground: nobody keeps the task.
RetainNothing(r) == UNCHANGED backgroundVars

\* _retain_background_analysis and _retain_background_evaluation.
RetainBackground(r) ==
    /\ analyses' = IF r \in Evaluations THEN analyses ELSE analyses \union {r}
    /\ evaluations' = IF r \in Evaluations THEN evaluations \union {r} ELSE evaluations

\* asyncio.wait returns because the analysis started: the deadline begins.
ObserveStart(r) ==
    /\ req[r] = "awaiting"
    /\ Started(r)
    /\ task[r] \notin Ended
    /\ req' = [req EXCEPT ![r] = "guarded"]
    /\ UNCHANGED <<task, worker, mark, limiterVars, studio, backgroundVars>>

\* The request sees how its task ended.
TakeResult(r) ==
    /\ req[r] \in Waiting
    /\ task[r] \in Ended \ {"cancelled"}
    /\ req' = [req EXCEPT ![r] = CASE task[r] = "returned" -> "served"
                                   [] task[r] = "raised"   -> "failed"
                                   [] OTHER                -> "rejected"]
    /\ UNCHANGED <<task, worker, mark, limiterVars, studio, backgroundVars>>

\* A mutation of DeadlineFires: evaluations have no deadline.
DeadlineForAnalyses(r) ==
    /\ req[r] = "guarded"
    /\ r \notin Evaluations
    /\ req' = [req EXCEPT ![r] = "timeout"]
    /\ RetainBackground(r)
    /\ UNCHANGED <<task, worker, mark, limiterVars, studio>>

\* wait_for(shield(task), timeout) runs out, perhaps just as the task ended.
DeadlineFires(r) ==
    /\ req[r] = "guarded"
    /\ req' = [req EXCEPT ![r] = "timeout"]
    /\ RetainBackground(r)
    /\ UNCHANGED <<task, worker, mark, limiterVars, studio>>

\* task.cancel(): an ended task ignores it, a waiting one leaves its queue.
CancelTask(r) ==
    /\ mark' = [mark EXCEPT ![r] = IF task[r] \in Ended THEN @ ELSE "cancel"]
    /\ slots' = IF task[r] = "slotWait" THEN Withdraw(slots, r) ELSE slots
    /\ studio' = IF task[r] = "studioWait" THEN Withdraw(studio, r) ELSE studio

\* The request coroutine is cancelled: work that has not started is cancelled
\* with it, started work is kept until its thread exits.
CancelRequest(r) ==
    /\ req[r] \in Waiting
    /\ req' = [req EXCEPT ![r] = "cancelled"]
    /\ IF Started(r) THEN UNCHANGED <<mark, slots, studio>> ELSE CancelTask(r)
    /\ RetainBackground(r)
    /\ UNCHANGED <<task, worker, queued, inFlight>>

\* A mutation of BackgroundDone: both kinds are discarded from one set.
BackgroundDoneInOneSet(r) ==
    /\ r \in Background
    /\ task[r] \in Ended
    /\ analyses' = analyses \ {r}
    /\ UNCHANGED <<req, task, worker, mark, limiterVars, studio, evaluations>>

\* The done callback of a retained task.
BackgroundDone(r) ==
    /\ r \in Background
    /\ task[r] \in Ended
    /\ analyses' = analyses \ {r}
    /\ evaluations' = evaluations \ {r}
    /\ UNCHANGED <<req, task, worker, mark, limiterVars, studio>>

-----------------------------------------------------------------------------

TaskStep(r) ==
    \/ BeginAnalysis(r)
    \/ BeginStudio(r)
    \/ BeginCancelled(r)
    \/ StudioGranted(r)
    \/ StudioAborted(r)
    \/ SlotGranted(r)
    \/ SlotAborted(r)
    \/ FinishTask(r)

RequestStep(r) ==
    \/ ObserveStart(r)
    \/ TakeResult(r)

Next ==
    \E r \in Requests :
        \/ AnalyzeSegments(r)
        \/ EvaluateSegmentsPolicy(r)
        \/ TaskStep(r)
        \/ QueueTimer(r)
        \/ WorkerExits(r)
        \/ RequestStep(r)
        \/ DeadlineFires(r)
        \/ CancelRequest(r)
        \/ BackgroundDone(r)

\* The event loop runs every callback that is ready, and timers run out.
\* Nothing makes a worker thread end.
LoopFairness ==
    \A r \in Requests :
        /\ WF_vars(TaskStep(r))
        /\ WF_vars(RequestStep(r))
        /\ WF_vars(QueueTimer(r))
        /\ WF_vars(DeadlineFires(r))
        /\ WF_vars(BackgroundDone(r))

WorkerFairness == \A r \in Requests : WF_vars(WorkerExits(r))

Spec == Init /\ [][Next]_vars

FairSpec == Spec /\ LoopFairness

-----------------------------------------------------------------------------
(* Properties *)

SlotHolders == {r \in Requests : task[r] = "running"}

StudioHolders == {r \in Studio : task[r] \in {"slotWait", "running"}}

SlotWaiters == {r \in Requests : task[r] = "slotWait"}

ControlOK ==
    /\ req \in [Requests -> Waiting \union Answers \union {"idle"}]
    /\ task \in [Requests -> TaskStates]
    /\ worker \in [Requests -> {"none", "busy", "ok", "error"}]
    /\ mark \in [Requests -> {"none", "timeout", "cancel"}]
    /\ analyses \subseteq Requests
    /\ evaluations \subseteq Requests

SemaphoreOK(s) == s \in [value : Nat, queue : Seq(Requests), woken : SUBSET Requests]

\* Every variable keeps its type; in particular no counter of the limiter or
\* of a semaphore ever falls below zero.
TypeOK ==
    /\ ControlOK
    /\ SemaphoreOK(slots)
    /\ SemaphoreOK(studio)
    /\ queued \in Nat
    /\ inFlight \in Nat

\* A semaphore of size max whose permits the tasks H own: nobody is in it
\* twice and the permits add up.
Balanced(s, H, max) ==
    /\ SemaphoreOK(s)
    /\ \A i, j \in 1..Len(s.queue) : s.queue[i] = s.queue[j] => i = j
    /\ \A i \in 1..Len(s.queue) : s.queue[i] \notin s.woken \union H
    /\ s.woken \intersect H = {}
    /\ s.value + Cardinality(s.woken) + Cardinality(H) = max

\* A free permit beside a waiter is on its way to it.
Passing(s) == s.value > 0 /\ s.queue # <<>> => s.woken # {}

Sound(s, H, max) == Balanced(s, H, max) /\ Passing(s)

\* What the semaphores know of the tasks agrees with where the tasks are.
TasksMatch ==
    /\ \A r \in Waiters(slots) : task[r] = "slotWait" /\ mark[r] = "none"
    /\ \A r \in slots.woken : task[r] = "slotWait"
    /\ \A r \in Waiters(studio) : r \in Studio /\ task[r] = "studioWait" /\ mark[r] = "none"
    /\ \A r \in studio.woken : r \in Studio /\ task[r] = "studioWait"
    /\ \A r \in Requests :
          /\ task[r] = "running" => mark[r] = "none"
          /\ worker[r] = "busy" => task[r] = "running"

\* No permit is lost or made up, whatever mixture of time-outs, cancellations
\* and hand-overs happens: for the shared slots and for the Studio semaphore,
\* the free permits, those handed to woken waiters and those in use add up to
\* the configured limit (limiter.slot, _run_analysis).
PermitsConserved ==
    /\ slots.value + Cardinality(slots.woken) + Cardinality(SlotHolders) = MaxConcurrent
    /\ studio.value + Cardinality(studio.woken) + Cardinality(StudioHolders) = StudioMax

\* The counters the limiter decides on tell the truth between any two steps:
\* _queued counts exactly the tasks inside acquire(), withdrawn ones that have
\* not been resumed included, and stays within max_queued; _in_flight counts
\* exactly the tasks inside the slot body, within max_concurrent.
CountersExact ==
    /\ queued = Cardinality(SlotWaiters)
    /\ queued <= MaxQueued
    /\ inFlight = Cardinality(SlotHolders)
    /\ inFlight <= MaxConcurrent

\* A free permit never sits beside a waiter with nobody left to hand it over:
\* somebody who was woken is still to run, and passes it on.
NoStrandedPermit == Passing(slots) /\ Passing(studio)

\* A task that can still run is referenced: by the request that waits for it
\* or by a background set (the event loop itself keeps only weak references,
\* hence _retain_background_analysis), and a request waits only for a task
\* that was not cancelled behind its back.
NoOrphanedTask ==
    \A r \in Requests :
        /\ task[r] \notin Ended \union {"none"} => req[r] \in Waiting \/ r \in Background
        /\ req[r] \in Waiting => mark[r] # "cancel"

\* The inductive invariant behind the invariants above and below.
Inductive ==
    /\ ControlOK
    /\ Sound(slots, SlotHolders, MaxConcurrent)
    /\ Sound(studio, StudioHolders, StudioMax)
    /\ TasksMatch
    /\ queued = Cardinality(SlotWaiters)
    /\ queued <= MaxQueued
    /\ inFlight = Cardinality(SlotHolders)
    /\ NoOrphanedTask

\* Worker threads stay within both limits at any time, those whose request
\* timed out or was cancelled included: "retaining every acquired limit until
\* the thread exits" (_run_analysis), so abandoned work cannot pile up.
WorkersBounded ==
    /\ Cardinality({r \in Requests : worker[r] = "busy"}) <= MaxConcurrent
    /\ Cardinality({r \in Studio : worker[r] = "busy"}) <= StudioMax

\* Every request is answered, even when worker threads never end: the queue
\* timers, the deadline after the start and the hand-overs leave no way to
\* wait for ever (analyze_segments, evaluate_segments_policy).
EveryRequestAnswered ==
    \A r \in Requests : req[r] \in Waiting ~> req[r] \in Answers

\* Retained work is let go in the end, provided worker threads end: the
\* background sets do not grow for ever.
BackgroundDrains ==
    WorkerFairness => \A r \in Requests : r \in Background ~> r \notin Background

\* The shared limiter is a first-come-first-served capacity: what the tasks
\* own (handed over or in use) are the holders, what pends is the line.
SharedSlots == INSTANCE Capacity WITH
    Clients <- Requests, Max <- MaxConcurrent, MaxLine <- MaxQueued,
    holders <- SlotHolders \union slots.woken, line <- slots.queue

StudioPermits == INSTANCE Capacity WITH
    Clients <- Studio, Max <- StudioMax, MaxLine <- Cardinality(Studio),
    holders <- StudioHolders \union studio.woken, line <- studio.queue

\* The limiter implements the capacity, and a freed slot is taken up while
\* somebody waits for it.
SlotsImplementCapacity == SharedSlots!FairSpec

\* So does the Studio semaphore, whose permit is held from before the shared
\* queue is entered until the worker thread has ended.
StudioImplementsCapacity == StudioPermits!FairSpec

=============================================================================
