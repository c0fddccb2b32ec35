------------------------------ MODULE NerCache ------------------------------
(***************************************************************************)
(* The process-wide cache of NER findings (services/ner_cache.py), the     *)
(* analyses that use it from worker threads, one text window at a time     *)
(* (services/analyzer.py, services/remote_analyzer.py), and the life of    *)
(* its clean-up thread between start and close of the runtime              *)
(* (services/layers.py, runtime.py, main.py).                              *)
(*                                                                         *)
(* What runs under the cache's lock is one step; inference runs outside    *)
(* it, so that anything may happen between a miss and the attempt to store *)
(* what was found.  The cachetools TTLCache is external: it is modelled by *)
(* what this code asks of it.                                              *)
(***************************************************************************)
EXTENDS Naturals, Sequences, FiniteSets, FiniteSetsExt

CONSTANTS
    Threads,    \* worker threads that analyse windows
    Windows,    \* what can be looked up: records of a context and a text
    Offsets,    \* where in the whole text a window can begin
    Size,       \* accounted_size of the findings of each window
    MaxBytes,   \* ner_cache_max_bytes
    Ttl         \* ner_cache_ttl_seconds, in ticks

ASSUME WindowsAreSequences ==
    /\ Windows # {}
    /\ \A w \in Windows : /\ w = [context |-> w.context, text |-> w.text]
                          /\ w.context \in Seq(Nat)
                          /\ w.text \in Seq(Nat)

ASSUME BoundsAreNumbers ==
    /\ Offsets \subseteq Nat
    /\ Size \in [Windows -> Nat]
    /\ MaxBytes \in Nat \ {0}
    /\ Ttl \in Nat \ {0}

VARIABLES
    life,      \* the owner: new, running, joining, clearing, closed
    stop,      \* the _stop event
    cleanup,   \* the _thread: none, waiting, expiring, ended
    cache,     \* _cache: the findings and the age of every key it holds
    pc,        \* where each thread is in run() and in its caller
    window,    \* the window each thread works on
    offset,    \* ... and where that window begins
    findings   \* what the thread has of its window so far

vars == <<life, stop, cleanup, cache, pc, window, offset, findings>>

Pcs == {"idle", "lookup", "detect", "bypass", "store", "convert", "done"}

None == [state |-> "none"]
Failed == [state |-> "failed"]

\* Detection is a function of text and context: the comment at layers.py:51
\* calls a namespace the name of one immutable loaded configuration.  Spans are
\* relative to the window, so the first one starts at 0.
Detection(w) == [state |-> "found", window |-> w, start |-> 0]

\* A finding of window w once its offsets are those of the whole text.
Shifted(w, n) == [state |-> "found", window |-> w, start |-> n]

Answers == {None, Failed} \union [state : {"found"}, window : Windows, start : Nat]

-----------------------------------------------------------------------------
(***************************************************************************)
(* The cache.                                                              *)
(***************************************************************************)

\* Mutant: the digest is fed without the length.
KeyWithoutLength(w) == w.context \o w.text

\* The digest covers the length of the context, the context and the text; the
\* keyed hash is taken to have no collisions.
Key(w) == <<Len(w.context)>> \o w.context \o w.text

Expired(k) == k \in DOMAIN cache /\ cache[k].age = Ttl

\* What the cache holds after expire().
Unexpired ==
    [k \in {j \in DOMAIN cache : cache[j].age < Ttl} |-> cache[k]]

\* The bytes that a set of keys of the cache accounts for.
Bytes(keys) == MapThenSumSet(LAMBDA k : Size[cache[k].findings.window], keys)

\* Setting an item evicts others only when there is no room; which ones is the
\* business of the TTLCache.
Insert(k, found) ==
    LET live == DOMAIN Unexpired
        Fits(keys) == Bytes(keys) + Size[found.window] <= MaxBytes
    IN  \E kept \in SUBSET live :
          /\ Fits(kept)
          /\ Fits(live) => kept = live
          /\ cache' = [j \in kept \union {k} |->
                         IF j = k THEN [findings |-> found, age |-> 0]
                                  ELSE cache[j]]

-----------------------------------------------------------------------------
Init ==
    /\ life = "new"
    /\ stop = FALSE
    /\ cleanup = "none"
    /\ cache = <<>>
    /\ pc = [t \in Threads |-> "idle"]
    /\ window \in [Threads -> {CHOOSE w \in Windows : TRUE}]
    /\ offset = [t \in Threads |-> 0]
    /\ findings = [t \in Threads |-> None]

(***************************************************************************)
(* A thread analyses one window: run() and its caller.                     *)
(***************************************************************************)

\* The caller reaches its next window; a closing cache is not consulted.
Enter(t, w, n) ==
    /\ life # "new"
    /\ pc[t] \in {"idle", "done"}
    /\ pc' = [pc EXCEPT ![t] = IF stop THEN "bypass" ELSE "lookup"]
    /\ window' = [window EXCEPT ![t] = w]
    /\ offset' = [offset EXCEPT ![t] = n]
    /\ findings' = [findings EXCEPT ![t] = None]
    /\ UNCHANGED <<life, stop, cleanup, cache>>

Hit(t) ==
    /\ pc[t] = "lookup"
    /\ Key(window[t]) \in DOMAIN Unexpired
    /\ cache' = Unexpired
    /\ findings' = [findings EXCEPT ![t] = cache[Key(window[t])].findings]
    /\ pc' = [pc EXCEPT ![t] = "convert"]
    /\ UNCHANGED <<life, stop, cleanup, window, offset>>

Miss(t) ==
    /\ pc[t] = "lookup"
    /\ Key(window[t]) \notin DOMAIN Unexpired
    /\ cache' = Unexpired
    /\ pc' = [pc EXCEPT ![t] = "detect"]
    /\ UNCHANGED <<life, stop, cleanup, window, offset, findings>>

\* The key cannot be computed (a text that has no encoding) or the lookup
\* raises: the window is analysed and nothing will be stored.
LookupError(t) ==
    /\ pc[t] = "lookup"
    /\ cache' \in {cache, Unexpired}
    /\ pc' = [pc EXCEPT ![t] = "bypass"]
    /\ UNCHANGED <<life, stop, cleanup, window, offset, findings>>

\* Inference ends, without the lock.
Detect(t) ==
    /\ pc[t] \in {"detect", "bypass"}
    /\ findings' = [findings EXCEPT ![t] = Detection(window[t])]
    /\ pc' = [pc EXCEPT ![t] = IF @ = "detect" THEN "store" ELSE "convert"]
    /\ UNCHANGED <<life, stop, cleanup, cache, window, offset>>

\* Inference raises, through run() and through its caller.
DetectFails(t) ==
    /\ pc[t] \in {"detect", "bypass"}
    /\ findings' = [findings EXCEPT ![t] = Failed]
    /\ pc' = [pc EXCEPT ![t] = "done"]
    /\ UNCHANGED <<life, stop, cleanup, cache, window, offset>>

\* Mutant: the stop event is not looked at again.
StoreUnchecked(t) ==
    /\ pc[t] = "store"
    /\ IF /\ Key(window[t]) \notin DOMAIN Unexpired
          /\ Size[window[t]] <= MaxBytes
       THEN Insert(Key(window[t]), findings[t])
       ELSE cache' = Unexpired
    /\ pc' = [pc EXCEPT ![t] = "convert"]
    /\ UNCHANGED <<life, stop, cleanup, window, offset, findings>>

\* Mutant: the slower of two threads overwrites what the faster one stored.
StoreAlways(t) ==
    /\ pc[t] = "store"
    /\ IF stop
       THEN UNCHANGED cache
       ELSE IF Size[window[t]] <= MaxBytes
            THEN Insert(Key(window[t]), findings[t])
            ELSE cache' = Unexpired
    /\ pc' = [pc EXCEPT ![t] = "convert"]
    /\ UNCHANGED <<life, stop, cleanup, window, offset, findings>>

\* A finding that was made is stored, unless the cache was closed meanwhile,
\* another thread was faster, or it is larger than the whole cache.
Store(t) ==
    /\ pc[t] = "store"
    /\ IF stop
       THEN UNCHANGED cache
       ELSE IF /\ Key(window[t]) \notin DOMAIN Unexpired
               /\ Size[window[t]] <= MaxBytes
            THEN Insert(Key(window[t]), findings[t])
            ELSE cache' = Unexpired
    /\ pc' = [pc EXCEPT ![t] = "convert"]
    /\ UNCHANGED <<life, stop, cleanup, window, offset, findings>>

\* Storing raises; what was found is returned all the same.
StoreError(t) ==
    /\ pc[t] = "store"
    /\ cache' \in {cache, Unexpired}
    /\ pc' = [pc EXCEPT ![t] = "convert"]
    /\ UNCHANGED <<life, stop, cleanup, window, offset, findings>>

\* Mutant: the caller moves the very objects the cache returned.
ConvertShared(t) ==
    /\ pc[t] = "convert"
    /\ findings' = [findings EXCEPT ![t].start = @ + offset[t]]
    /\ cache' = [k \in DOMAIN cache |->
                   IF cache[k].findings = findings[t]
                   THEN [cache[k] EXCEPT !.findings = findings'[t]]
                   ELSE cache[k]]
    /\ pc' = [pc EXCEPT ![t] = "done"]
    /\ UNCHANGED <<life, stop, cleanup, window, offset>>

\* The caller makes results of its own from the findings and moves those by
\* the offset of the window; what the cache holds stays relative.
Convert(t) ==
    /\ pc[t] = "convert"
    /\ findings' = [findings EXCEPT ![t].start = @ + offset[t]]
    /\ pc' = [pc EXCEPT ![t] = "done"]
    /\ UNCHANGED <<life, stop, cleanup, cache, window, offset>>

-----------------------------------------------------------------------------
(***************************************************************************)
(* Time, the clean-up thread, start and close.                             *)
(***************************************************************************)

\* A tick of the monotonic clock; an entry older than Ttl is as one of age Ttl.
Tick ==
    /\ \E k \in DOMAIN cache : cache[k].age < Ttl
    /\ cache' = [k \in DOMAIN cache |->
                   [cache[k] EXCEPT !.age = IF @ < Ttl THEN @ + 1 ELSE @]]
    /\ UNCHANGED <<life, stop, cleanup, pc, window, offset, findings>>

\* wait(60) returned because the minute was over.
CleanupWake ==
    /\ cleanup = "waiting"
    /\ ~stop
    /\ cleanup' = "expiring"
    /\ UNCHANGED <<life, stop, cache, pc, window, offset, findings>>

CleanupExpire ==
    /\ cleanup = "expiring"
    /\ cache' = Unexpired
    /\ cleanup' = "waiting"
    /\ UNCHANGED <<life, stop, pc, window, offset, findings>>

CleanupError ==
    /\ cleanup = "expiring"
    /\ cleanup' = "waiting"
    /\ UNCHANGED <<life, stop, cache, pc, window, offset, findings>>

\* wait(60) returned because the event is set.
CleanupExit ==
    /\ cleanup = "waiting"
    /\ stop
    /\ cleanup' = "ended"
    /\ UNCHANGED <<life, stop, cache, pc, window, offset, findings>>

\* The runtime starts; a runtime that was closed may be started again, while
\* threads of its earlier life are still at work.
Start ==
    /\ life \in {"new", "closed"}
    /\ life' = "running"
    /\ stop' = FALSE
    /\ cleanup' = "waiting"
    /\ UNCHANGED <<cache, pc, window, offset, findings>>

\* Mutant: close() joins the thread before it sets the event.
CloseSetLater ==
    /\ life = "running"
    /\ life' = "joining"
    /\ UNCHANGED <<stop, cleanup, cache, pc, window, offset, findings>>

\* close(): the event first, then the thread, then the findings.
CloseSet ==
    /\ life = "running"
    /\ life' = "joining"
    /\ stop' = TRUE
    /\ UNCHANGED <<cleanup, cache, pc, window, offset, findings>>

CloseJoin ==
    /\ life = "joining"
    /\ cleanup = "ended"
    /\ life' = "clearing"
    /\ cleanup' = "none"
    /\ UNCHANGED <<stop, cache, pc, window, offset, findings>>

CloseClear ==
    /\ life = "clearing"
    /\ life' = "closed"
    /\ cache' = <<>>
    /\ UNCHANGED <<stop, cleanup, pc, window, offset, findings>>

-----------------------------------------------------------------------------
Thread(t) ==
    \/ \E w \in Windows, n \in Offsets : Enter(t, w, n)
    \/ Hit(t) \/ Miss(t) \/ LookupError(t)
    \/ Detect(t) \/ DetectFails(t)
    \/ Store(t) \/ StoreError(t)
    \/ Convert(t)

Owner == Start \/ CloseSet \/ CloseJoin \/ CloseClear

Cleanup == CleanupWake \/ CleanupExpire \/ CleanupError \/ CleanupExit

Next == Tick \/ Owner \/ Cleanup \/ (\E t \in Threads : Thread(t))

Spec == Init /\ [][Next]_vars

\* Inference may hang and time may stand still, but the clean-up thread is
\* scheduled, what it does under the lock does not fail for ever, and close()
\* goes on once what it waits for has happened.
Fairness ==
    /\ WF_vars(CleanupWake) /\ SF_vars(CleanupExpire) /\ WF_vars(CleanupExit)
    /\ WF_vars(CloseJoin) /\ WF_vars(CloseClear)

FairSpec == Spec /\ Fairness

-----------------------------------------------------------------------------
(***************************************************************************)
(* Properties.                                                             *)
(***************************************************************************)

Entries == [findings : {Detection(w) : w \in Windows}, age : 0 .. Ttl]

\* Every variable has a value of its kind, and the cache holds findings of
\* Windows whose spans are relative.
TypeOK ==
    /\ life \in {"new", "running", "joining", "clearing", "closed"}
    /\ stop \in BOOLEAN
    /\ cleanup \in {"none", "waiting", "expiring", "ended"}
    /\ DOMAIN cache \subseteq {Key(w) : w \in Windows}
    /\ cache = [k \in DOMAIN cache |-> cache[k]]
    /\ \A k \in DOMAIN cache : cache[k] \in Entries
    /\ pc \in [Threads -> Pcs]
    /\ window \in [Threads -> Windows]
    /\ offset \in [Threads -> Nat]
    /\ findings \in [Threads -> Answers]

\* A closed cache holds no findings, whatever the threads that were inside
\* run() when it closed do afterwards (close() releases what is retained).
ClosedStaysEmpty == life = "closed" => DOMAIN cache = {}

\* Whatever mixture of hits, misses, failures of the cache and restarts led to
\* it, a window that was analysed is answered with what inference finds for
\* exactly its text in exactly its context, at its own place in the whole text.
AnswersAreDetections ==
    \A t \in Threads :
      pc[t] = "done" =>
        findings[t] \in {Failed, Shifted(window[t], offset[t])}

\* The time to live counts from the creation: while an entry lives, no lookup
\* and no second detection of the same window makes it younger.
FixedExpiry ==
    [][\A k \in DOMAIN cache \intersect DOMAIN cache' :
         cache[k].age < Ttl => cache'[k].age >= cache[k].age]_vars

\* Findings are released: an expired entry goes although nobody looks it up,
\* and close() ends with the cache cleared although inference hangs.
FindingsReleased ==
    /\ \A w \in Windows : Expired(Key(w)) ~> ~Expired(Key(w))
    /\ life \in {"joining", "clearing"} ~> life = "closed"

-----------------------------------------------------------------------------
(***************************************************************************)
(* The inductive invariant behind the safety properties.                   *)
(***************************************************************************)

\* From the moment close() set the event until the next start it stays set, so
\* that nothing is stored behind the back of clear().
ClosingOK ==
    /\ life \in {"joining", "clearing", "closed"} => stop
    /\ ClosedStaysEmpty

\* Every entry is under the key of the window that it is about.
EntriesOK == \A k \in DOMAIN cache : k = Key(cache[k].findings.window)

\* What a thread is about to store or to convert was found for its window.
ThreadsOK ==
    \A t \in Threads :
      pc[t] \in {"store", "convert"} => findings[t] = Detection(window[t])

Inductive ==
    TypeOK /\ ClosingOK /\ EntriesOK /\ ThreadsOK /\ AnswersAreDetections
=============================================================================
