------------------------------- MODULE Remote --------------------------------
(***************************************************************************)
(* Remote detection: how worker threads have the texts of a request        *)
(* scanned by a GLiNER service.                                            *)
(*                                                                         *)
(* A text is cut into overlapping windows, for each model anew.  A window  *)
(* costs one call unless its findings are in the window cache; one that    *)
(* the service refuses for its size (413) is cut in two again.  All calls  *)
(* of a request share one budget and one deadline, all calls of the        *)
(* process a bounded capacity.  Whatever else goes wrong fails the         *)
(* analysis.                                                               *)
(*                                                                         *)
(* Windows are intervals of offsets, the end excluded.  What a window      *)
(* contains, and what is found in it, does not matter here: a hit of the   *)
(* cache and every answer of the service are left open.                    *)
(***************************************************************************)
EXTENDS Integers, Sequences, FiniteSets

CONSTANTS Threads,        \* worker threads
          Requests,       \* for each request, the lengths of its texts
          Size,           \* characters in a window
          Overlap,        \* characters that neighbouring windows share
          Floor,          \* a window of so many characters is not cut again
          HalfOverlap,    \* each half reaches so far over the middle, at most
          MaxCalls,       \* settings.remote_max_calls
          Capacity,       \* settings.remote_max_concurrent_calls
          ShortSpan       \* characters in the longest span that no cut may part

ASSUME RemoteAssumption ==
    /\ IsFiniteSet(Threads)
    /\ Requests \subseteq Seq(Nat)
    /\ Size \in Nat /\ Overlap \in Nat /\ Overlap < Size
    /\ Floor \in Nat \ {0}
    /\ HalfOverlap \in Nat
    /\ MaxCalls \in Nat
    /\ Capacity \in Nat \ {0}
    /\ ShortSpan \in Nat
    /\ ShortSpan <= Overlap
    /\ ShortSpan <= 2 * HalfOverlap
    /\ ShortSpan <= 2 * (((Floor + 1) \div 2) \div 2)

VARIABLES free,       \* permits left in RemoteTransport._capacity
          at,         \* where a thread is
          texts,      \* lengths of the texts it has still to scan, its own first
          offset,     \* where the next window of the text begins
          pending,    \* windows to scan, the next one last
          current,    \* the window it is at
          scanned,    \* windows of the text whose findings it has
          remaining,  \* calls left in its budget
          late,       \* its deadline has passed
          calls       \* history: the calls made for its request

vars == <<free, at, texts, offset, pending, current, scanned, remaining, late, calls>>

Window == [start : Nat, end : Nat]
Nowhere == [start |-> 0, end |-> 0]
Width(w) == w.end - w.start
Min2(a, b) == IF a < b THEN a ELSE b

Init ==
    /\ free = Capacity
    /\ at = [t \in Threads |-> "idle"]
    /\ texts = [t \in Threads |-> <<>>]
    /\ offset = [t \in Threads |-> 0]
    /\ pending = [t \in Threads |-> <<>>]
    /\ current = [t \in Threads |-> Nowhere]
    /\ scanned = [t \in Threads |-> {}]
    /\ remaining = [t \in Threads |-> 0]
    /\ late = [t \in Threads |-> FALSE]
    /\ calls = [t \in Threads |-> 0]

Go(t, place) == at' = [at EXCEPT ![t] = place]

-----------------------------------------------------------------------------
(* One request, text by text *)

\* analysis_budget in the runtime, where there is none yet: a request gets its
\* budget and its deadline once, for all of its texts.
AnalysisBudget(t) ==
    /\ at[t] \in {"idle", "done", "failed"}
    /\ \E r \in Requests : texts' = [texts EXCEPT ![t] = r]
    /\ remaining' = [remaining EXCEPT ![t] = MaxCalls]
    /\ late' = [late EXCEPT ![t] = FALSE]
    /\ calls' = [calls EXCEPT ![t] = 0]
    /\ scanned' = [scanned EXCEPT ![t] = {}]
    /\ pending' = [pending EXCEPT ![t] = <<>>]
    /\ current' = [current EXCEPT ![t] = Nowhere]
    /\ Go(t, "begun")
    /\ UNCHANGED <<free, offset>>

\* _prepare_plans, unless the request ends before it.  Its analysis_budget finds
\* the one of the runtime, which keeps its calls and gets the earlier of the two
\* deadlines: one that has passed stays passed, one to come may only pass sooner.
PreparePlans(t) ==
    /\ at[t] = "begun"
    /\ \E place \in {"text", "done", "failed"} : Go(t, place)
    /\ UNCHANGED <<free, texts, offset, pending, current, scanned, remaining, late, calls>>

\* A mutation of Analyze: every text has a budget of its own.
AnalyzeNewBudget(t) ==
    /\ at[t] = "text"
    /\ offset' = [offset EXCEPT ![t] = 0]
    /\ scanned' = [scanned EXCEPT ![t] = {}]
    /\ remaining' = [remaining EXCEPT ![t] = MaxCalls]
    /\ Go(t, IF texts[t] = <<>> THEN "done" ELSE "cut")
    /\ UNCHANGED <<free, texts, pending, current, late, calls>>

\* RemoteAnalyzer.analyze for the next text; an empty one is not scanned.
Analyze(t) ==
    /\ at[t] = "text"
    /\ offset' = [offset EXCEPT ![t] = 0]
    /\ scanned' = [scanned EXCEPT ![t] = {}]
    /\ \/ /\ texts[t] = <<>>
          /\ Go(t, "done")
          /\ UNCHANGED texts
       \/ /\ texts[t] # <<>> /\ Head(texts[t]) = 0
          /\ texts' = [texts EXCEPT ![t] = Tail(texts[t])]
          /\ Go(t, "text")
       \/ /\ texts[t] # <<>> /\ Head(texts[t]) > 0
          /\ Go(t, "cut")
          /\ UNCHANGED texts
    /\ UNCHANGED <<free, pending, current, remaining, late, calls>>

\* The first loop of gliner_matches: one more window, up to the end.
CutWindow(t) ==
    LET length == Head(texts[t])
        w == [start |-> offset[t], end |-> Min2(offset[t] + Size, length)]
    IN  /\ at[t] = "cut"
        /\ pending' = [pending EXCEPT ![t] = Append(pending[t], w)]
        /\ IF offset[t] + Size >= length
             THEN Go(t, "window") /\ UNCHANGED offset
             ELSE offset' = [offset EXCEPT ![t] = offset[t] + (Size - Overlap)] /\ UNCHANGED at
        /\ UNCHANGED <<free, texts, current, scanned, remaining, late, calls>>

\* Keep the findings of a window.
KeepFindings(t, w) == scanned' = [scanned EXCEPT ![t] = scanned[t] \union {w}]

\* _remote_window: the findings may be in the cache; if not, detect is called.
RemoteWindow(t, w) ==
    \/ KeepFindings(t, w) /\ UNCHANGED <<at, current>>
    \/ current' = [current EXCEPT ![t] = w] /\ Go(t, "request") /\ UNCHANGED scanned

\* The second loop takes the last pending window; when none is left the text is
\* through.
TakeWindow(t) ==
    LET n == Len(pending[t])
    IN  /\ at[t] = "window"
        /\ pending[t] # <<>>
        /\ pending' = [pending EXCEPT ![t] = SubSeq(pending[t], 1, n - 1)]
        /\ RemoteWindow(t, pending[t][n])
        /\ UNCHANGED <<free, texts, offset, remaining, late, calls>>

TextScanned(t) ==
    /\ at[t] = "window"
    /\ pending[t] = <<>>
    /\ texts' = [texts EXCEPT ![t] = Tail(texts[t])]
    /\ Go(t, "text")
    /\ UNCHANGED <<free, offset, pending, current, scanned, remaining, late, calls>>

-----------------------------------------------------------------------------
(* One call *)

\* The thread enters _request with a permit.
Call(t) ==
    /\ free > 0
    /\ free' = free - 1
    /\ calls' = [calls EXCEPT ![t] = calls[t] + 1]
    /\ Go(t, "calling")

\* RemoteTransport.request: budget, deadline, capacity, in this order.
Request(t) ==
    /\ at[t] = "request"
    /\ \/ /\ remaining[t] <= 0
          /\ Go(t, "failed")
          /\ UNCHANGED <<free, remaining, calls>>
       \/ /\ remaining[t] > 0
          /\ remaining' = [remaining EXCEPT ![t] = remaining[t] - 1]
          /\ \/ late[t] /\ Go(t, "failed") /\ UNCHANGED <<free, calls>>
             \/ ~late[t] /\ Call(t)
             \/ ~late[t] /\ free = 0 /\ Go(t, "waiting") /\ UNCHANGED <<free, calls>>
    /\ UNCHANGED <<texts, offset, pending, current, scanned, late>>

\* _capacity.acquire gets a permit.
Acquire(t) ==
    /\ at[t] = "waiting"
    /\ Call(t)
    /\ UNCHANGED <<texts, offset, pending, current, scanned, remaining, late>>

\* A mutation of GivesUp: the thread waits for a permit without a time limit.
NeverGivesUp(t) == FALSE

\* What is left of the deadline is the time limit of acquire.
GivesUp(t) == late[t]

AcquireTimesOut(t) ==
    /\ at[t] = "waiting"
    /\ GivesUp(t)
    /\ Go(t, "failed")
    /\ UNCHANGED <<free, texts, offset, pending, current, scanned, remaining, late, calls>>

\* A mutation of Release: a permit only comes back from a call that succeeds.
ReleaseAfterSuccess(answer) == free' = IF answer = "findings" THEN free + 1 ELSE free

\* The finally clause of RemoteTransport.request.
Release(answer) == free' = free + 1

\* A mutation of Halves: the halves do not overlap.
HalvesApart(w) ==
    LET middle == w.start + Width(w) \div 2
    IN  <<[start |-> w.start, end |-> middle], [start |-> middle, end |-> w.end]>>

\* gliner_matches: both halves reach over the middle.
Halves(w) ==
    LET middle == Width(w) \div 2
        overlap == Min2(HalfOverlap, middle \div 2)
    IN  <<[start |-> w.start, end |-> w.start + middle + overlap],
          [start |-> w.start + middle - overlap, end |-> w.end]>>

\* Findings that _gliner_response accepts, a refusal for size, anything else.
Answers == {"findings", "too large", "error"}

\* The service answers, or _request fails: no valid answer, too long an answer,
\* no credential, the deadline.  The deadline may also pass behind the last part
\* of an answer, which is then taken.
Reply(t, answer) ==
    LET w == current[t]
    IN  /\ at[t] = "calling"
        /\ Release(answer)
        /\ \/ /\ answer = "findings"
              /\ KeepFindings(t, w)
              /\ Go(t, "window")
              /\ UNCHANGED pending
           \/ /\ answer = "too large"
              /\ Width(w) > Floor
              /\ pending' = [pending EXCEPT ![t] = pending[t] \o Halves(w)]
              /\ Go(t, "window")
              /\ UNCHANGED scanned
           \/ /\ answer = "too large"
              /\ Width(w) <= Floor
              /\ Go(t, "failed")
              /\ UNCHANGED <<pending, scanned>>
           \/ /\ answer = "error"
              /\ Go(t, "failed")
              /\ UNCHANGED <<pending, scanned>>
        /\ current' = [current EXCEPT ![t] = Nowhere]
        /\ UNCHANGED <<texts, offset, remaining, late, calls>>

\* Time passes.
DeadlinePasses(t) ==
    /\ at[t] \notin {"idle", "done", "failed"}
    /\ ~late[t]
    /\ late' = [late EXCEPT ![t] = TRUE]
    /\ UNCHANGED <<free, at, texts, offset, pending, current, scanned, remaining, calls>>

\* What a thread does by itself once it has a request, and what ends a call.
Progress(t) ==
    \/ PreparePlans(t)
    \/ Analyze(t)
    \/ CutWindow(t)
    \/ TakeWindow(t)
    \/ TextScanned(t)
    \/ Request(t)
    \/ AcquireTimesOut(t)
    \/ \E answer \in Answers : Reply(t, answer)

Next ==
    \E t \in Threads : AnalysisBudget(t) \/ Progress(t) \/ Acquire(t) \/ DeadlinePasses(t)

Spec == Init /\ [][Next]_vars

\* Threads run, calls end (every read has a time limit) and time passes.  A
\* thread that waits for a permit may be overtaken for ever.
FairSpec ==
    /\ Spec
    /\ \A t \in Threads : WF_vars(Progress(t)) /\ WF_vars(DeadlinePasses(t))

-----------------------------------------------------------------------------
(* Properties *)

TypeOK ==
    /\ free \in Int
    /\ at \in [Threads -> {"idle", "begun", "text", "cut", "window", "request", "waiting",
                           "calling", "done", "failed"}]
    /\ texts \in [Threads -> Seq(Nat)]
    /\ offset \in [Threads -> Nat]
    /\ pending \in [Threads -> Seq(Window)]
    /\ current \in [Threads -> Window]
    /\ scanned \in [Threads -> SUBSET Window]
    /\ remaining \in [Threads -> Nat]
    /\ late \in [Threads -> BOOLEAN]
    /\ calls \in [Threads -> Nat]

Within(s, n, w) == w.start <= s /\ s + n <= w.end

\* The windows a thread has scanned, is at or is going to scan.
Windows(t) ==
    scanned[t] \union {pending[t][i] : i \in 1..Len(pending[t])}
               \union {w \in {current[t]} : at[t] \in {"request", "waiting", "calling"}}

Covered(t, s) == \E w \in Windows(t) : Within(s, ShortSpan, w)

\* No cut parts a short span: however windows are cut and cut again, every span
\* of up to ShortSpan characters of the text lies in one window that was
\* scanned or will be.  When no window is left, all of them have been scanned.
ShortSpansWhole ==
    \A t \in Threads : at[t] \in {"window", "request", "waiting", "calling"} =>
      \A s \in 0..Head(texts[t]) : s + ShortSpan <= Head(texts[t]) => Covered(t, s)

\* The process never has more calls under way than its capacity, and a call
\* gives its permit back however it ends.
PermitsReturned ==
    /\ free >= 0
    /\ free + Cardinality({t \in Threads : at[t] = "calling"}) = Capacity

\* A request makes at most MaxCalls calls, over all of its texts and however
\* often windows are cut.
CallsBounded == \A t \in Threads : calls[t] <= MaxCalls

\* An analysis that was begun ends, also when other threads keep every permit.
AnalysesEnd == \A t \in Threads : (at[t] = "begun") ~> (at[t] \in {"done", "failed"})

=============================================================================
