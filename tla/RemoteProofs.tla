---------------------------- MODULE RemoteProofs -----------------------------
(***************************************************************************)
(* Proofs about Remote, for any texts, any sizes of windows and any number *)
(* of threads.                                                             *)
(***************************************************************************)
EXTENDS Remote, FiniteSetTheorems, SequenceTheorems, TLAPS

Callers == {t \in Threads : at[t] = "calling"}

\* A call is paid for before the thread waits for its permit.
BudgetOK ==
    \A t \in Threads :
      calls[t] + remaining[t] + (IF at[t] = "waiting" THEN 1 ELSE 0) <= MaxCalls

Busy == {"cut", "window", "request", "waiting", "calling"}

\* A thread that has windows has a text.
TextOK == \A t \in Threads : at[t] \in Busy => texts[t] # <<>>

Scanning == {"window", "request", "waiting", "calling"}

\* While a text is cut, the spans that end inside the last window are covered;
\* afterwards all are.
Coverage(t) ==
    /\ at[t] = "cut" =>
         \A s \in Nat : (/\ offset[t] > 0
                        /\ s + ShortSpan <= offset[t] + Overlap
                        /\ s + ShortSpan <= Head(texts[t])) => Covered(t, s)
    /\ at[t] \in Scanning =>
         \A s \in Nat : s + ShortSpan <= Head(texts[t]) => Covered(t, s)

CoverageOK == \A t \in Threads : Coverage(t)

Inductive ==
    /\ TypeOK
    /\ PermitsReturned
    /\ BudgetOK
    /\ TextOK
    /\ CoverageOK

-----------------------------------------------------------------------------
(* Types *)

LEMMA Constants ==
    /\ IsFiniteSet(Threads)
    /\ Requests \subseteq Seq(Nat)
    /\ Size \in Nat /\ Overlap \in Nat /\ Size - Overlap \in Nat \ {0}
    /\ MaxCalls \in Nat /\ Capacity \in Nat /\ ShortSpan \in Nat /\ ShortSpan <= Overlap
  BY RemoteAssumption

LEMMA HalvesType ==
    ASSUME NEW w \in Window, Width(w) > Floor
    PROVE  /\ Halves(w) = <<Halves(w)[1], Halves(w)[2]>>
           /\ Halves(w)[1] \in Window
           /\ Halves(w)[2] \in Window
           /\ Halves(w) \in Seq(Window)
           /\ Len(Halves(w)) = 2
  <1> USE RemoteAssumption
  <1> DEFINE middle == Width(w) \div 2
             overlap == Min2(HalfOverlap, middle \div 2)
             a == [start |-> w.start, end |-> w.start + middle + overlap]
             b == [start |-> w.start + middle - overlap, end |-> w.end]
  <1>1. w.start \in Nat /\ w.end \in Nat
    BY DEF Window
  <1>2. Width(w) \in Nat
    BY <1>1 DEF Width
  <1>3. middle \in Nat
    BY <1>2
  <1>4. overlap \in Nat /\ overlap <= middle
    <2> HIDE DEF middle
    <2> QED
      BY <1>3 DEF Min2
  <1>5. a \in Window /\ b \in Window
    <2> HIDE DEF middle, overlap
    <2> QED
      BY <1>1, <1>3, <1>4 DEF Window
  <1>6. Halves(w) = <<a, b>>
    BY DEF Halves
  <1> HIDE DEF a, b
  <1> QED
    BY <1>5, <1>6

\* Both halves together keep every short span of a window whole.
LEMMA HalvesCover ==
    ASSUME NEW w \in Window, Width(w) > Floor,
           NEW s \in Nat, Within(s, ShortSpan, w)
    PROVE  Within(s, ShortSpan, Halves(w)[1]) \/ Within(s, ShortSpan, Halves(w)[2])
  <1> USE RemoteAssumption
  <1> DEFINE middle == Width(w) \div 2
             overlap == Min2(HalfOverlap, middle \div 2)
  <1>1. w.start \in Nat /\ w.end \in Nat
    BY DEF Window
  <1>2. Width(w) \in Nat /\ Width(w) >= Floor + 1
    BY <1>1 DEF Width
  <1>3. middle \in Nat /\ middle >= (Floor + 1) \div 2
    BY <1>2
  <1>4. middle \div 2 \in Nat /\ middle \div 2 >= ((Floor + 1) \div 2) \div 2
    <2> HIDE DEF middle
    <2> (Floor + 1) \div 2 \in Nat
      OBVIOUS
    <2> QED
      BY <1>3
  <1>5. overlap \in Nat /\ ShortSpan <= 2 * overlap
    <2> HIDE DEF middle
    <2> ((Floor + 1) \div 2) \div 2 \in Nat
      OBVIOUS
    <2> QED
      BY <1>4 DEF Min2
  <1>6. /\ Halves(w)[1].start = w.start
        /\ Halves(w)[1].end = w.start + middle + overlap
        /\ Halves(w)[2].start = w.start + middle - overlap
        /\ Halves(w)[2].end = w.end
    BY DEF Halves
  <1> HIDE DEF middle, overlap
  <1> QED
    BY <1>1, <1>3, <1>5, <1>6 DEF Within

\* How a call ends.
LEMMA ReplyCases ==
    ASSUME TypeOK, NEW t \in Threads, NEW answer \in Answers, Reply(t, answer)
    PROVE  /\ at[t] = "calling"
           /\ free' = free + 1
           /\ current' = [current EXCEPT ![t] = Nowhere]
           /\ UNCHANGED <<texts, offset, remaining, late, calls>>
           /\ \/ /\ scanned' = [scanned EXCEPT ![t] = scanned[t] \union {current[t]}]
                 /\ at' = [at EXCEPT ![t] = "window"]
                 /\ UNCHANGED pending
              \/ /\ Width(current[t]) > Floor
                 /\ pending' = [pending EXCEPT ![t] = pending[t] \o Halves(current[t])]
                 /\ at' = [at EXCEPT ![t] = "window"]
                 /\ UNCHANGED scanned
              \/ /\ at' = [at EXCEPT ![t] = "failed"]
                 /\ UNCHANGED <<pending, scanned>>
  BY DEF Reply, Release, Go, KeepFindings

LEMMA TypeNext ==
    ASSUME TypeOK, TextOK, [Next]_vars
    PROVE  TypeOK'
  <1> USE DEF TypeOK
  <1>1. ASSUME NEW t \in Threads, AnalysisBudget(t)
        PROVE  TypeOK'
    <2> Nowhere \in Window
      BY DEF Nowhere, Window
    <2> QED
      BY <1>1, Constants DEF AnalysisBudget, Go
  <1>2. ASSUME NEW t \in Threads, Analyze(t)
        PROVE  TypeOK'
    <2>1. texts' \in [Threads -> Seq(Nat)]
      <3>1. texts[t] # <<>> => Tail(texts[t]) \in Seq(Nat)
        OBVIOUS
      <3>2. texts' = texts \/ (texts[t] # <<>> /\ texts' = [texts EXCEPT ![t] = Tail(texts[t])])
        BY <1>2 DEF Analyze
      <3> QED
        BY <3>1, <3>2
    <2> QED
      BY <1>2, <2>1 DEF Analyze, Go
  <1>3. ASSUME NEW t \in Threads, CutWindow(t)
        PROVE  TypeOK'
    <2> DEFINE w == [start |-> offset[t], end |-> Min2(offset[t] + Size, Head(texts[t]))]
    <2>1. Head(texts[t]) \in Nat
      BY <1>3 DEF CutWindow, TextOK, Busy
    <2>2. w \in Window
      BY <2>1, Constants DEF Window, Min2
    <2>3. pending' = [pending EXCEPT ![t] = Append(pending[t], w)]
      BY <1>3 DEF CutWindow
    <2> HIDE DEF w
    <2>4. pending' \in [Threads -> Seq(Window)]
      BY <2>2, <2>3
    <2>5. offset' \in [Threads -> Nat]
      <3>1. offset[t] + (Size - Overlap) \in Nat
        BY Constants
      <3>2. offset' = offset \/ offset' = [offset EXCEPT ![t] = offset[t] + (Size - Overlap)]
        BY <1>3 DEF CutWindow
      <3> QED
        BY <3>1, <3>2
    <2>6. at' \in [Threads -> {"idle", "begun", "text", "cut", "window", "request", "waiting", "calling",
                               "done", "failed"}]
      BY <1>3 DEF CutWindow, Go
    <2>7. UNCHANGED <<free, texts, current, scanned, remaining, late, calls>>
      BY <1>3 DEF CutWindow
    <2> QED
      BY <2>4, <2>5, <2>6, <2>7
  <1>4. ASSUME NEW t \in Threads, TakeWindow(t)
        PROVE  TypeOK'
    <2>1. pending[t] \in Seq(Window) /\ Len(pending[t]) \in Nat \ {0}
      BY <1>4 DEF TakeWindow
    <2>2. pending[t][Len(pending[t])] \in Window
      BY <2>1
    <2>3. SubSeq(pending[t], 1, Len(pending[t]) - 1) \in Seq(Window)
      BY <2>1
    <2>4. pending' \in [Threads -> Seq(Window)]
      <3>1. pending' = [pending EXCEPT ![t] = SubSeq(pending[t], 1, Len(pending[t]) - 1)]
        BY <1>4 DEF TakeWindow
      <3> QED
        BY <2>3, <3>1
    <2>5. scanned' \in [Threads -> SUBSET Window]
      <3>1. scanned' = scanned
              \/ scanned' = [scanned EXCEPT ![t] = scanned[t] \union {pending[t][Len(pending[t])]}]
        BY <1>4 DEF TakeWindow, RemoteWindow, KeepFindings
      <3>2. scanned[t] \union {pending[t][Len(pending[t])]} \in SUBSET Window
        BY <2>2
      <3> QED
        BY <3>1, <3>2
    <2>6. current' \in [Threads -> Window]
      BY <1>4, <2>2 DEF TakeWindow, RemoteWindow
    <2>7. at' = at \/ at' = [at EXCEPT ![t] = "request"]
      BY <1>4 DEF TakeWindow, RemoteWindow, Go
    <2>8. UNCHANGED <<free, texts, offset, remaining, late, calls>>
      BY <1>4 DEF TakeWindow
    <2> QED
      BY <2>4, <2>5, <2>6, <2>7, <2>8
  <1>5. ASSUME NEW t \in Threads, TextScanned(t)
        PROVE  TypeOK'
    BY <1>5 DEF TextScanned, Go, TextOK, Busy
  <1>6. ASSUME NEW t \in Threads, Request(t)
        PROVE  TypeOK'
    <2>1. remaining' \in [Threads -> Nat]
      <3>1. remaining' = remaining
              \/ (remaining[t] > 0 /\ remaining' = [remaining EXCEPT ![t] = remaining[t] - 1])
        BY <1>6 DEF Request
      <3>2. remaining[t] > 0 => remaining[t] - 1 \in Nat
        OBVIOUS
      <3> QED
        BY <3>1, <3>2
    <2>2. (free' = free /\ calls' = calls) \/ Call(t)
      BY <1>6 DEF Request
    <2>3. free' \in Int /\ calls' \in [Threads -> Nat]
      <3>1. free - 1 \in Int /\ calls[t] + 1 \in Nat
        OBVIOUS
      <3> QED
        BY <2>2, <3>1 DEF Call
    <2>4. \E place \in {"failed", "calling", "waiting"} : at' = [at EXCEPT ![t] = place]
      BY <1>6 DEF Request, Call, Go
    <2>5. UNCHANGED <<texts, offset, pending, current, scanned, late>>
      BY <1>6 DEF Request
    <2> QED
      BY <2>1, <2>3, <2>4, <2>5
  <1>7. ASSUME NEW t \in Threads, Acquire(t)
        PROVE  TypeOK'
    BY <1>7 DEF Acquire, Call, Go
  <1>8. ASSUME NEW t \in Threads, AcquireTimesOut(t)
        PROVE  TypeOK'
    BY <1>8 DEF AcquireTimesOut, Go
  <1>9. ASSUME NEW t \in Threads, NEW answer \in Answers, Reply(t, answer)
        PROVE  TypeOK'
    <2>1. Nowhere \in Window
      BY DEF Nowhere, Window
    <2>2. current[t] \in Window
      OBVIOUS
    <2>3. Width(current[t]) > Floor => Halves(current[t]) \in Seq(Window)
      BY <2>2, HalvesType
    <2>4. pending' = pending \/ (/\ Width(current[t]) > Floor
                                /\ pending' = [pending EXCEPT ![t] = pending[t] \o Halves(current[t])])
      BY <1>9, ReplyCases
    <2>5. pending' \in [Threads -> Seq(Window)]
      <3>1. Width(current[t]) > Floor => pending[t] \o Halves(current[t]) \in Seq(Window)
        BY <2>3
      <3> QED
        BY <2>4, <3>1
    <2>6. scanned' = scanned
            \/ scanned' = [scanned EXCEPT ![t] = scanned[t] \union {current[t]}]
      BY <1>9, ReplyCases
    <2>7. scanned' \in [Threads -> SUBSET Window]
      <3>1. scanned[t] \union {current[t]} \in SUBSET Window
        BY <2>2
      <3> QED
        BY <2>6, <3>1
    <2>8. at' = [at EXCEPT ![t] = "window"] \/ at' = [at EXCEPT ![t] = "failed"]
      BY <1>9, ReplyCases
    <2>9. /\ free' = free + 1
          /\ current' = [current EXCEPT ![t] = Nowhere]
          /\ UNCHANGED <<texts, offset, remaining, late, calls>>
      BY <1>9, ReplyCases
    <2>10. at' \in [Threads -> {"idle", "begun", "text", "cut", "window", "request", "waiting", "calling",
                                "done", "failed"}]
      BY <2>8
    <2>11. current' \in [Threads -> Window]
      BY <2>1, <2>9
    <2> QED
      BY <2>5, <2>7, <2>9, <2>10, <2>11
  <1>10. ASSUME NEW t \in Threads, DeadlinePasses(t)
         PROVE  TypeOK'
    BY <1>10 DEF DeadlinePasses
  <1>11. CASE UNCHANGED vars
    BY <1>11 DEF vars
  <1>12. ASSUME NEW t \in Threads, PreparePlans(t)
         PROVE  TypeOK'
    BY <1>12 DEF PreparePlans, Go
  <1> QED
    BY <1>1, <1>2, <1>3, <1>4, <1>5, <1>6, <1>7, <1>8, <1>9, <1>10, <1>11, <1>12 DEF Next, Progress

-----------------------------------------------------------------------------
(* Budget and text *)

LEMMA BudgetNext ==
    ASSUME TypeOK, TextOK, BudgetOK, [Next]_vars
    PROVE  BudgetOK' /\ TextOK'
  <1> USE DEF TypeOK, BudgetOK, TextOK, Busy
  <1>1. ASSUME NEW t \in Threads, AnalysisBudget(t)
        PROVE  BudgetOK' /\ TextOK'
    BY <1>1, Constants DEF AnalysisBudget, Go
  <1>2. ASSUME NEW t \in Threads, Analyze(t)
        PROVE  BudgetOK' /\ TextOK'
    BY <1>2 DEF Analyze, Go
  <1>3. ASSUME NEW t \in Threads, CutWindow(t)
        PROVE  BudgetOK' /\ TextOK'
    BY <1>3 DEF CutWindow, Go
  <1>4. ASSUME NEW t \in Threads, TakeWindow(t)
        PROVE  BudgetOK' /\ TextOK'
    BY <1>4 DEF TakeWindow, RemoteWindow, Go
  <1>5. ASSUME NEW t \in Threads, TextScanned(t)
        PROVE  BudgetOK' /\ TextOK'
    BY <1>5 DEF TextScanned, Go
  <1>6. ASSUME NEW t \in Threads, Request(t)
        PROVE  BudgetOK' /\ TextOK'
    <2>1. at[t] = "request" /\ texts' = texts
      BY <1>6 DEF Request
    <2>2. CASE remaining[t] <= 0
      <3>1. at' = [at EXCEPT ![t] = "failed"] /\ UNCHANGED <<remaining, calls>>
        BY <1>6, <2>2 DEF Request, Go
      <3> QED
        BY <2>1, <3>1, Constants
    <2>3. CASE remaining[t] > 0
      <3>1. remaining' = [remaining EXCEPT ![t] = remaining[t] - 1]
        BY <1>6, <2>3 DEF Request
      <3>2. \/ at' = [at EXCEPT ![t] = "failed"] /\ calls' = calls
            \/ at' = [at EXCEPT ![t] = "waiting"] /\ calls' = calls
            \/ /\ at' = [at EXCEPT ![t] = "calling"]
               /\ calls' = [calls EXCEPT ![t] = calls[t] + 1]
        BY <1>6, <2>3 DEF Request, Call, Go
      <3>3. BudgetOK'
        <4> SUFFICES ASSUME NEW u \in Threads
                     PROVE  calls'[u] + remaining'[u]
                              + (IF at'[u] = "waiting" THEN 1 ELSE 0) <= MaxCalls
          OBVIOUS
        <4> remaining[u] \in Nat /\ calls[u] \in Nat
          OBVIOUS
        <4>1. calls[u] + remaining[u] + (IF at[u] = "waiting" THEN 1 ELSE 0) <= MaxCalls
          OBVIOUS
        <4>2. CASE u = t
          <5>1. calls[t] + remaining[t] <= MaxCalls
            BY <2>1, <4>1, <4>2
          <5>2. remaining'[t] = remaining[t] - 1
            BY <3>1
          <5>3. \/ at'[t] = "failed" /\ calls'[t] = calls[t]
                \/ at'[t] = "waiting" /\ calls'[t] = calls[t]
                \/ at'[t] = "calling" /\ calls'[t] = calls[t] + 1
            BY <3>2
          <5> QED
            BY <4>2, <5>1, <5>2, <5>3, Constants
        <4>3. CASE u # t
          <5>1. remaining'[u] = remaining[u] /\ calls'[u] = calls[u] /\ at'[u] = at[u]
            BY <3>1, <3>2, <4>3
          <5> QED
            BY <4>1, <5>1
        <4> QED
          BY <4>2, <4>3
      <3>4. TextOK'
        BY <2>1, <3>2
      <3> QED
        BY <3>3, <3>4
    <2> QED
      BY <2>2, <2>3
  <1>7. ASSUME NEW t \in Threads, Acquire(t)
        PROVE  BudgetOK' /\ TextOK'
    <2>1. /\ at[t] = "waiting" /\ at' = [at EXCEPT ![t] = "calling"]
          /\ calls' = [calls EXCEPT ![t] = calls[t] + 1]
          /\ UNCHANGED <<texts, remaining>>
      BY <1>7 DEF Acquire, Call, Go
    <2>2. BudgetOK'
      <3> SUFFICES ASSUME NEW u \in Threads
                   PROVE  calls'[u] + remaining'[u]
                            + (IF at'[u] = "waiting" THEN 1 ELSE 0) <= MaxCalls
        OBVIOUS
      <3>1. remaining[u] \in Nat /\ calls[u] \in Nat /\ MaxCalls \in Nat
        BY Constants
      <3>2. calls[u] + remaining[u] + (IF at[u] = "waiting" THEN 1 ELSE 0) <= MaxCalls
        OBVIOUS
      <3>3. CASE u = t
        <4>1. calls'[t] = calls[t] + 1 /\ remaining'[t] = remaining[t] /\ at'[t] = "calling"
          BY <2>1
        <4> QED
          BY <2>1, <3>1, <3>2, <3>3, <4>1
      <3>4. CASE u # t
        <4>1. remaining'[u] = remaining[u] /\ calls'[u] = calls[u] /\ at'[u] = at[u]
          BY <2>1, <3>4
        <4> QED
          BY <3>2, <4>1
      <3> QED
        BY <3>3, <3>4
    <2>3. TextOK'
      BY <2>1
    <2> QED
      BY <2>2, <2>3
  <1>8. ASSUME NEW t \in Threads, AcquireTimesOut(t)
        PROVE  BudgetOK' /\ TextOK'
    <2>1. /\ at[t] = "waiting" /\ at' = [at EXCEPT ![t] = "failed"]
          /\ UNCHANGED <<texts, calls, remaining>>
      BY <1>8 DEF AcquireTimesOut, Go
    <2>2. BudgetOK'
      <3> SUFFICES ASSUME NEW u \in Threads
                   PROVE  calls'[u] + remaining'[u]
                            + (IF at'[u] = "waiting" THEN 1 ELSE 0) <= MaxCalls
        OBVIOUS
      <3>1. remaining[u] \in Nat /\ calls[u] \in Nat /\ MaxCalls \in Nat
        BY Constants
      <3>2. calls[u] + remaining[u] + (IF at[u] = "waiting" THEN 1 ELSE 0) <= MaxCalls
        OBVIOUS
      <3>3. CASE u = t
        <4>1. calls'[t] = calls[t] /\ remaining'[t] = remaining[t] /\ at'[t] = "failed"
          BY <2>1
        <4> QED
          BY <2>1, <3>1, <3>2, <3>3, <4>1
      <3>4. CASE u # t
        <4>1. remaining'[u] = remaining[u] /\ calls'[u] = calls[u] /\ at'[u] = at[u]
          BY <2>1, <3>4
        <4> QED
          BY <3>2, <4>1
      <3> QED
        BY <3>3, <3>4
    <2>3. TextOK'
      BY <2>1
    <2> QED
      BY <2>2, <2>3
  <1>9. ASSUME NEW t \in Threads, NEW answer \in Answers, Reply(t, answer)
        PROVE  BudgetOK' /\ TextOK'
    <2>1. at[t] = "calling" /\ UNCHANGED <<texts, remaining, calls>>
      BY <1>9, ReplyCases
    <2>2. at' = [at EXCEPT ![t] = "window"] \/ at' = [at EXCEPT ![t] = "failed"]
      BY <1>9, ReplyCases
    <2> QED
      BY <2>1, <2>2
  <1>10. ASSUME NEW t \in Threads, DeadlinePasses(t)
         PROVE  BudgetOK' /\ TextOK'
    BY <1>10 DEF DeadlinePasses
  <1>11. CASE UNCHANGED vars
    BY <1>11 DEF vars
  <1>12. ASSUME NEW t \in Threads, PreparePlans(t)
         PROVE  BudgetOK' /\ TextOK'
    BY <1>12 DEF PreparePlans, Go
  <1> QED
    BY <1>1, <1>2, <1>3, <1>4, <1>5, <1>6, <1>7, <1>8, <1>9, <1>10, <1>11, <1>12 DEF Next, Progress

-----------------------------------------------------------------------------
(* Permits *)

\* A thread that starts a call takes one permit, and one that ends it returns it.
LEMMA CallersMove ==
    ASSUME TypeOK, PermitsReturned, NEW t \in Threads,
           \/ /\ at[t] # "calling" /\ Callers' = Callers \union {t}
              /\ free > 0 /\ free' = free - 1
           \/ /\ at[t] = "calling" /\ Callers' = Callers \ {t}
              /\ free' = free + 1
    PROVE  PermitsReturned'
  <1>1. IsFiniteSet(Callers)
    BY Constants, FS_Subset DEF Callers
  <1>2. free \in Int /\ Cardinality(Callers) \in Nat /\ free + Cardinality(Callers) = Capacity
    BY <1>1, FS_CardinalityType DEF PermitsReturned, Callers, TypeOK
  <1>3. CASE at[t] # "calling" /\ Callers' = Callers \union {t} /\ free > 0 /\ free' = free - 1
    <2>1. Cardinality(Callers') = Cardinality(Callers) + 1
      BY <1>1, <1>3, FS_AddElement DEF Callers
    <2> QED
      BY <1>2, <1>3, <2>1 DEF PermitsReturned, Callers
  <1>4. CASE at[t] = "calling" /\ Callers' = Callers \ {t} /\ free' = free + 1
    <2>1. Cardinality(Callers') = Cardinality(Callers) - 1
      <3>1. t \in Callers
        BY <1>4 DEF Callers
      <3>2. Cardinality(Callers \ {t}) = Cardinality(Callers) - 1
        BY <1>1, <3>1, FS_RemoveElement
      <3> QED
        BY <1>4, <3>2
    <2> QED
      BY <1>2, <1>4, <2>1 DEF PermitsReturned, Callers
  <1> QED
    BY <1>3, <1>4

LEMMA CallersStay ==
    ASSUME PermitsReturned, Callers' = Callers, free' = free
    PROVE  PermitsReturned'
  BY DEF PermitsReturned, Callers

LEMMA PermitsNext ==
    ASSUME TypeOK, PermitsReturned, [Next]_vars
    PROVE  PermitsReturned'
  <1> USE DEF TypeOK, Callers
  <1>1. ASSUME NEW t \in Threads, AnalysisBudget(t)
        PROVE  PermitsReturned'
    BY <1>1, CallersStay DEF AnalysisBudget, Go
  <1>2. ASSUME NEW t \in Threads, Analyze(t)
        PROVE  PermitsReturned'
    BY <1>2, CallersStay DEF Analyze, Go
  <1>3. ASSUME NEW t \in Threads, CutWindow(t)
        PROVE  PermitsReturned'
    BY <1>3, CallersStay DEF CutWindow, Go
  <1>4. ASSUME NEW t \in Threads, TakeWindow(t)
        PROVE  PermitsReturned'
    BY <1>4, CallersStay DEF TakeWindow, RemoteWindow, Go
  <1>5. ASSUME NEW t \in Threads, TextScanned(t)
        PROVE  PermitsReturned'
    BY <1>5, CallersStay DEF TextScanned, Go
  <1>6. ASSUME NEW t \in Threads, Request(t)
        PROVE  PermitsReturned'
    <2>1. CASE Call(t)
      <3>1. at[t] # "calling" /\ free > 0 /\ free' = free - 1
        BY <1>6, <2>1 DEF Request, Call
      <3>2. Callers' = Callers \union {t}
        BY <2>1 DEF Call, Go
      <3> QED
        BY <3>1, <3>2, CallersMove
    <2>2. CASE ~Call(t)
      BY <1>6, <2>2, CallersStay DEF Request, Go
    <2> QED
      BY <2>1, <2>2
  <1>7. ASSUME NEW t \in Threads, Acquire(t)
        PROVE  PermitsReturned'
    BY <1>7, CallersMove DEF Acquire, Call, Go
  <1>8. ASSUME NEW t \in Threads, AcquireTimesOut(t)
        PROVE  PermitsReturned'
    BY <1>8, CallersStay DEF AcquireTimesOut, Go
  <1>9. ASSUME NEW t \in Threads, NEW answer \in Answers, Reply(t, answer)
        PROVE  PermitsReturned'
    <2>1. at[t] = "calling" /\ free' = free + 1
      BY <1>9, ReplyCases
    <2>2. at' = [at EXCEPT ![t] = "window"] \/ at' = [at EXCEPT ![t] = "failed"]
      BY <1>9, ReplyCases
    <2>3. Callers' = Callers \ {t}
      BY <2>1, <2>2
    <2> QED
      BY <2>1, <2>3, CallersMove
  <1>10. ASSUME NEW t \in Threads, DeadlinePasses(t)
         PROVE  PermitsReturned'
    BY <1>10, CallersStay DEF DeadlinePasses
  <1>11. CASE UNCHANGED vars
    BY <1>11, CallersStay DEF vars
  <1>12. ASSUME NEW t \in Threads, PreparePlans(t)
         PROVE  PermitsReturned'
    BY <1>12, CallersStay DEF PreparePlans, Go
  <1> QED
    BY <1>1, <1>2, <1>3, <1>4, <1>5, <1>6, <1>7, <1>8, <1>9, <1>10, <1>11, <1>12 DEF Next, Progress

-----------------------------------------------------------------------------
(* Coverage *)

\* The other threads' windows stay as they are.
LEMMA CoverageFrame ==
    ASSUME NEW u \in Threads, Coverage(u),
           at'[u] = at[u], texts'[u] = texts[u], offset'[u] = offset[u],
           pending'[u] = pending[u], current'[u] = current[u], scanned'[u] = scanned[u]
    PROVE  Coverage(u)'
  <1>1. Windows(u)' = Windows(u)
    BY DEF Windows
  <1> QED
    BY <1>1 DEF Coverage, Covered

\* Once a text is cut, a step only has to keep what is covered.
LEMMA CoverageKept ==
    ASSUME NEW t \in Threads, Coverage(t), at[t] \in Scanning, texts'[t] = texts[t],
           at'[t] \in Scanning,
           \A s \in Nat : Covered(t, s) => Covered(t, s)'
    PROVE  Coverage(t)'
  BY DEF Coverage, Scanning

LEMMA CoverageVacuous ==
    ASSUME NEW t \in Threads, at'[t] \notin Busy
    PROVE  Coverage(t)'
  BY DEF Coverage, Scanning, Busy

LEMMA CutCovers ==
    ASSUME TypeOK, TextOK, NEW t \in Threads, Coverage(t), CutWindow(t)
    PROVE  Coverage(t)'
  <1> DEFINE length == Head(texts[t])
             w == [start |-> offset[t], end |-> Min2(offset[t] + Size, length)]
             n == Len(pending[t])
  <1>1. length \in Nat /\ offset[t] \in Nat /\ pending[t] \in Seq(Window)
    BY DEF TypeOK, TextOK, Busy, CutWindow
  <1>2. /\ at[t] = "cut"
        /\ pending'[t] = Append(pending[t], w)
        /\ texts'[t] = texts[t] /\ scanned'[t] = scanned[t] /\ current'[t] = current[t]
    BY DEF CutWindow, TypeOK
  <1>3. \/ /\ offset[t] + Size >= length /\ at'[t] = "window"
        \/ /\ ~(offset[t] + Size >= length) /\ at'[t] = "cut"
           /\ offset'[t] = offset[t] + (Size - Overlap)
    BY DEF CutWindow, TypeOK, Go
  <1>4. \A v \in Windows(t) \union {w} : v \in Windows(t)'
    <2> HIDE DEF w
    <2>1. Windows(t) = scanned[t] \union {pending[t][i] : i \in 1..Len(pending[t])}
      BY <1>2 DEF Windows
    <2>2. \A i \in 1..Len(pending[t]) : i \in 1..Len(pending'[t]) /\ pending'[t][i] = pending[t][i]
      BY <1>1, <1>2
    <2>3. n + 1 \in 1..Len(pending'[t]) /\ pending'[t][n + 1] = w
      BY <1>1, <1>2
    <2>4. \A v \in scanned'[t] : v \in Windows(t)'
      BY DEF Windows
    <2>5. \A i \in 1..Len(pending'[t]) : pending'[t][i] \in Windows(t)'
      BY DEF Windows
    <2> QED
      BY <1>2, <2>1, <2>2, <2>3, <2>4, <2>5
  <1>5. ASSUME NEW s \in Nat, s + ShortSpan <= offset[t] + Size, s + ShortSpan <= length
        PROVE  Covered(t, s)'
    <2>1. CASE s >= offset[t]
      <3>1. Within(s, ShortSpan, w)
        BY <1>1, <1>5, <2>1, Constants DEF Within, Min2
      <3> QED
        BY <1>4, <3>1 DEF Covered
    <2>2. CASE s < offset[t]
      <3>1. offset[t] > 0 /\ s + ShortSpan <= offset[t] + Overlap
        BY <1>1, <2>2, Constants
      <3>2. Covered(t, s)
        BY <1>2, <1>5, <3>1 DEF Coverage
      <3> QED
        BY <1>4, <3>2 DEF Covered
    <2> QED
      BY <1>1, <2>1, <2>2
  <1>6. CASE offset[t] + Size >= length /\ at'[t] = "window"
    <2>1. \A s \in Nat : s + ShortSpan <= length => s + ShortSpan <= offset[t] + Size
      BY <1>1, <1>6, Constants
    <2>2. \A s \in Nat : s + ShortSpan <= length => Covered(t, s)'
      BY <1>5, <2>1
    <2> QED
      BY <1>2, <1>6, <2>2 DEF Coverage
  <1>7. CASE at'[t] = "cut" /\ offset'[t] = offset[t] + (Size - Overlap)
    <2>1. offset'[t] + Overlap = offset[t] + Size
      BY <1>1, <1>7, Constants
    <2> QED
      BY <1>2, <1>5, <1>7, <2>1 DEF Coverage, Scanning
  <1> QED
    BY <1>3, <1>6, <1>7

LEMMA TakeCovers ==
    ASSUME TypeOK, NEW t \in Threads, Coverage(t), TakeWindow(t)
    PROVE  Coverage(t)'
  <1> DEFINE n == Len(pending[t])
             w == pending[t][n]
  <1>1. pending[t] \in Seq(Window) /\ n \in Nat \ {0}
    BY DEF TypeOK, TakeWindow
  <1>2. /\ at[t] = "window" /\ texts'[t] = texts[t]
        /\ pending'[t] = SubSeq(pending[t], 1, n - 1)
        /\ scanned[t] \subseteq scanned'[t]
    BY DEF TakeWindow, RemoteWindow, KeepFindings, TypeOK
  <1>3. \/ at'[t] = "window" /\ w \in scanned'[t]
        \/ at'[t] = "request" /\ current'[t] = w
    BY DEF TakeWindow, RemoteWindow, KeepFindings, TypeOK, Go
  <1>4. \A i \in 1..n : i # n => i \in 1..Len(pending'[t]) /\ pending'[t][i] = pending[t][i]
    BY <1>1, <1>2
  <1>5. w \in Windows(t)'
    BY <1>3 DEF Windows
  <1>6. \A v \in Windows(t) : v \in Windows(t)'
    <2>1. Windows(t) = scanned[t] \union {pending[t][i] : i \in 1..n}
      BY <1>2 DEF Windows
    <2>2. \A v \in scanned'[t] : v \in Windows(t)'
      BY DEF Windows
    <2>3. \A i \in 1..Len(pending'[t]) : pending'[t][i] \in Windows(t)'
      BY DEF Windows
    <2> HIDE DEF n
    <2>4. \A i \in 1..n : pending[t][i] \in Windows(t)'
      BY <1>4, <1>5, <2>3
    <2> QED
      BY <1>2, <2>1, <2>2, <2>4
  <1>7. \A s \in Nat : Covered(t, s) => Covered(t, s)'
    BY <1>6 DEF Covered
  <1> QED
    BY <1>2, <1>3, <1>7, CoverageKept DEF Scanning

\* Two elements appended to a sequence.
LEMMA ConcatTwo ==
    ASSUME NEW S, NEW p \in Seq(S), NEW q \in Seq(S), Len(q) = 2
    PROVE  /\ Len(p) + 1 \in 1..Len(p \o q) /\ (p \o q)[Len(p) + 1] = q[1]
           /\ Len(p) + 2 \in 1..Len(p \o q) /\ (p \o q)[Len(p) + 2] = q[2]
           /\ \A i \in 1..Len(p) : i \in 1..Len(p \o q) /\ (p \o q)[i] = p[i]
  <1>1. Len(p) \in Nat /\ Len(p \o q) = Len(p) + 2
    <2>1. Len(p \o q) = Len(p) + Len(q)
      BY ConcatProperties
    <2>2. Len(p) \in Nat
      BY LenProperties
    <2> QED
      BY <2>1, <2>2
  <1>2. \A i \in 1..Len(p) + 2 : (p \o q)[i] = IF i <= Len(p) THEN p[i] ELSE q[i - Len(p)]
    BY <1>1, ConcatProperties
  <1>3. (Len(p) + 1) - Len(p) = 1 /\ (Len(p) + 2) - Len(p) = 2
    BY <1>1
  <1>4. /\ Len(p) + 1 \in 1..Len(p) + 2 /\ ~(Len(p) + 1 <= Len(p))
        /\ Len(p) + 2 \in 1..Len(p) + 2 /\ ~(Len(p) + 2 <= Len(p))
    BY <1>1
  <1>5. (p \o q)[Len(p) + 1] = q[1] /\ (p \o q)[Len(p) + 2] = q[2]
    BY <1>2, <1>3, <1>4
  <1>6. \A i \in 1..Len(p) : i \in 1..Len(p) + 2 /\ i <= Len(p)
    BY <1>1
  <1> QED
    BY <1>1, <1>2, <1>4, <1>5, <1>6

LEMMA ReplyCovers ==
    ASSUME TypeOK, NEW t \in Threads, Coverage(t), NEW answer \in Answers, Reply(t, answer)
    PROVE  Coverage(t)'
  <1> DEFINE w == current[t]
             h == Halves(w)
             n == Len(pending[t])
  <1>1. w \in Window /\ pending[t] \in Seq(Window)
    BY DEF TypeOK
  <1>2. at[t] = "calling" /\ texts'[t] = texts[t]
    BY ReplyCases
  <1>3. \/ /\ scanned'[t] = scanned[t] \union {w} /\ at'[t] = "window"
           /\ pending'[t] = pending[t]
        \/ /\ Width(w) > Floor /\ pending'[t] = pending[t] \o h /\ at'[t] = "window"
           /\ scanned'[t] = scanned[t]
        \/ at'[t] = "failed"
    <2>1. \/ /\ scanned' = [scanned EXCEPT ![t] = scanned[t] \union {w}]
             /\ at' = [at EXCEPT ![t] = "window"] /\ pending' = pending
          \/ /\ Width(w) > Floor /\ pending' = [pending EXCEPT ![t] = pending[t] \o h]
             /\ at' = [at EXCEPT ![t] = "window"] /\ scanned' = scanned
          \/ at' = [at EXCEPT ![t] = "failed"]
      BY ReplyCases
    <2>2. t \in DOMAIN scanned /\ t \in DOMAIN at /\ t \in DOMAIN pending
      BY DEF TypeOK
    <2> HIDE DEF w, h
    <2> QED
      BY <2>1, <2>2
  <1>4. Windows(t) = scanned[t] \union {pending[t][i] : i \in 1..n} \union {w}
    BY <1>2 DEF Windows
  <1>5. /\ \A v \in scanned'[t] : v \in Windows(t)'
        /\ \A i \in 1..Len(pending'[t]) : pending'[t][i] \in Windows(t)'
    BY DEF Windows
  <1>6. CASE /\ scanned'[t] = scanned[t] \union {w} /\ at'[t] = "window"
             /\ pending'[t] = pending[t]
    <2>1. \A v \in Windows(t) : v \in Windows(t)'
      BY <1>4, <1>5, <1>6
    <2>2. \A s \in Nat : Covered(t, s) => Covered(t, s)'
      BY <2>1 DEF Covered
    <2> QED
      BY <1>2, <1>6, <2>2, CoverageKept DEF Scanning
  <1>7. CASE /\ Width(w) > Floor /\ pending'[t] = pending[t] \o h /\ at'[t] = "window"
             /\ scanned'[t] = scanned[t]
    <2>1. h \in Seq(Window) /\ Len(h) = 2
      BY <1>1, <1>7, HalvesType
    <2> HIDE DEF h, w
    <2>2. \A i \in 1..n : i \in 1..Len(pending'[t]) /\ pending'[t][i] = pending[t][i]
      BY <1>1, <1>7, <2>1, ConcatTwo
    <2>3. /\ n + 1 \in 1..Len(pending'[t]) /\ pending'[t][n + 1] = h[1]
          /\ n + 2 \in 1..Len(pending'[t]) /\ pending'[t][n + 2] = h[2]
      BY <1>1, <1>7, <2>1, ConcatTwo
    <2>4. h[1] \in Windows(t)' /\ h[2] \in Windows(t)'
      BY <1>5, <2>3
    <2>5. ASSUME NEW s \in Nat, Covered(t, s)
          PROVE  Covered(t, s)'
      <3>1. PICK v \in Windows(t) : Within(s, ShortSpan, v)
        BY <2>5 DEF Covered
      <3>2. CASE v = w
        <4>1. Within(s, ShortSpan, h[1]) \/ Within(s, ShortSpan, h[2])
          BY <1>1, <1>7, <3>1, <3>2, HalvesCover DEF h
        <4> QED
          BY <2>4, <4>1 DEF Covered
      <3>3. CASE v # w
        <4>1. v \in Windows(t)'
          BY <1>4, <1>5, <1>7, <2>2, <3>3
        <4> QED
          BY <3>1, <4>1 DEF Covered
      <3> QED
        BY <3>2, <3>3
    <2> QED
      BY <1>2, <1>7, <2>5, CoverageKept DEF Scanning
  <1>8. CASE at'[t] = "failed"
    BY <1>8, CoverageVacuous DEF Busy
  <1> QED
    BY <1>3, <1>6, <1>7, <1>8

LEMMA CoverageNext ==
    ASSUME TypeOK, TextOK, CoverageOK, [Next]_vars
    PROVE  CoverageOK'
  <1> SUFFICES ASSUME NEW u \in Threads
               PROVE  Coverage(u)'
    BY DEF CoverageOK
  <1>0. Coverage(u)
    BY DEF CoverageOK
  <1>1. ASSUME NEW t \in Threads, AnalysisBudget(t)
        PROVE  Coverage(u)'
    <2>1. CASE u = t
      BY <1>1, <2>1, CoverageVacuous DEF AnalysisBudget, Go, TypeOK, Busy
    <2>2. CASE u # t
      BY <1>0, <1>1, <2>2, CoverageFrame DEF AnalysisBudget, Go, TypeOK
    <2> QED
      BY <2>1, <2>2
  <1>2. ASSUME NEW t \in Threads, Analyze(t)
        PROVE  Coverage(u)'
    <2>1. CASE u = t
      <3>1. at'[t] \in {"done", "text", "cut"} /\ offset'[t] = 0
        BY <1>2 DEF Analyze, Go, TypeOK
      <3> QED
        BY <2>1, <3>1 DEF Coverage, Scanning
    <2>2. CASE u # t
      <3>1. /\ at'[u] = at[u] /\ texts'[u] = texts[u] /\ offset'[u] = offset[u]
            /\ pending'[u] = pending[u] /\ current'[u] = current[u] /\ scanned'[u] = scanned[u]
        BY <1>2, <2>2 DEF Analyze, Go, TypeOK
      <3> QED
        BY <1>0, <3>1, CoverageFrame
    <2> QED
      BY <2>1, <2>2
  <1>3. ASSUME NEW t \in Threads, CutWindow(t)
        PROVE  Coverage(u)'
    <2>1. CASE u = t
      BY <1>0, <1>3, <2>1, CutCovers
    <2>2. CASE u # t
      <3>1. /\ at'[u] = at[u] /\ texts'[u] = texts[u] /\ offset'[u] = offset[u]
            /\ pending'[u] = pending[u] /\ current'[u] = current[u] /\ scanned'[u] = scanned[u]
        BY <1>3, <2>2 DEF CutWindow, Go, TypeOK
      <3> QED
        BY <1>0, <3>1, CoverageFrame
    <2> QED
      BY <2>1, <2>2
  <1>4. ASSUME NEW t \in Threads, TakeWindow(t)
        PROVE  Coverage(u)'
    <2>1. CASE u = t
      BY <1>0, <1>4, <2>1, TakeCovers
    <2>2. CASE u # t
      <3>1. /\ at'[u] = at[u] /\ texts'[u] = texts[u] /\ offset'[u] = offset[u]
            /\ pending'[u] = pending[u] /\ current'[u] = current[u] /\ scanned'[u] = scanned[u]
        BY <1>4, <2>2 DEF TakeWindow, RemoteWindow, KeepFindings, Go, TypeOK
      <3> QED
        BY <1>0, <3>1, CoverageFrame
    <2> QED
      BY <2>1, <2>2
  <1>5. ASSUME NEW t \in Threads, TextScanned(t)
        PROVE  Coverage(u)'
    <2>1. CASE u = t
      BY <1>5, <2>1, CoverageVacuous DEF TextScanned, Go, TypeOK, Busy
    <2>2. CASE u # t
      BY <1>0, <1>5, <2>2, CoverageFrame DEF TextScanned, Go, TypeOK
    <2> QED
      BY <2>1, <2>2
  <1>6. ASSUME NEW t \in Threads, Request(t) \/ Acquire(t) \/ AcquireTimesOut(t)
        PROVE  Coverage(u)'
    <2>1. /\ at[t] \in {"request", "waiting"}
          /\ \E place \in {"failed", "calling", "waiting"} : at' = [at EXCEPT ![t] = place]
          /\ UNCHANGED <<texts, offset, pending, current, scanned>>
      BY <1>6 DEF Request, Acquire, AcquireTimesOut, Call, Go
    <2>2. CASE u = t /\ at'[t] = "failed"
      BY <2>2, CoverageVacuous DEF Busy
    <2>3. CASE u = t /\ at'[t] \in {"calling", "waiting"}
      <3>1. Windows(t)' = Windows(t)
        BY <2>1, <2>3 DEF Windows
      <3>2. \A s \in Nat : Covered(t, s) => Covered(t, s)'
        BY <3>1 DEF Covered
      <3>3. /\ at[t] \in Scanning /\ at'[t] \in Scanning /\ texts'[t] = texts[t]
        BY <2>1, <2>3 DEF Scanning
      <3> QED
        BY <1>0, <2>3, <3>2, <3>3, CoverageKept
    <2>4. CASE u # t
      <3>1. at'[u] = at[u]
        BY <2>1, <2>4 DEF TypeOK
      <3> QED
        BY <1>0, <2>1, <3>1, CoverageFrame
    <2>5. at'[t] \in {"failed", "calling", "waiting"}
      BY <2>1 DEF TypeOK
    <2> QED
      BY <2>2, <2>3, <2>4, <2>5
  <1>7. ASSUME NEW t \in Threads, NEW answer \in Answers, Reply(t, answer)
        PROVE  Coverage(u)'
    <2>1. CASE u = t
      BY <1>0, <1>7, <2>1, ReplyCovers
    <2>2. CASE u # t
      <3>1. /\ at'[u] = at[u] /\ texts'[u] = texts[u] /\ offset'[u] = offset[u]
            /\ pending'[u] = pending[u] /\ current'[u] = current[u] /\ scanned'[u] = scanned[u]
        <4>1. UNCHANGED <<texts, offset>> /\ current' = [current EXCEPT ![t] = Nowhere]
          BY <1>7, ReplyCases
        <4>2. at' = [at EXCEPT ![t] = "window"] \/ at' = [at EXCEPT ![t] = "failed"]
          BY <1>7, ReplyCases
        <4>3. pending' = pending
                \/ pending' = [pending EXCEPT ![t] = pending[t] \o Halves(current[t])]
          BY <1>7, ReplyCases
        <4>4. scanned' = scanned
                \/ scanned' = [scanned EXCEPT ![t] = scanned[t] \union {current[t]}]
          BY <1>7, ReplyCases
        <4>5. pending'[u] = pending[u]
          BY <2>2, <4>3 DEF TypeOK
        <4>6. scanned'[u] = scanned[u]
          BY <2>2, <4>4 DEF TypeOK
        <4> QED
          BY <2>2, <4>1, <4>2, <4>5, <4>6 DEF TypeOK
      <3> QED
        BY <1>0, <3>1, CoverageFrame
    <2> QED
      BY <2>1, <2>2
  <1>8. ASSUME NEW t \in Threads, DeadlinePasses(t)
        PROVE  Coverage(u)'
    BY <1>0, <1>8, CoverageFrame DEF DeadlinePasses
  <1>9. CASE UNCHANGED vars
    BY <1>0, <1>9, CoverageFrame DEF vars
  <1>10. ASSUME NEW t \in Threads, PreparePlans(t)
         PROVE  Coverage(u)'
    <2>1. CASE u = t
      BY <1>10, <2>1, CoverageVacuous DEF PreparePlans, Go, TypeOK, Busy
    <2>2. CASE u # t
      BY <1>0, <1>10, <2>2, CoverageFrame DEF PreparePlans, Go, TypeOK
    <2> QED
      BY <2>1, <2>2
  <1> QED
    BY <1>1, <1>2, <1>3, <1>4, <1>5, <1>6, <1>7, <1>8, <1>9, <1>10 DEF Next, Progress

-----------------------------------------------------------------------------
(* Results *)

LEMMA InductiveInit == Init => Inductive
  <1> SUFFICES ASSUME Init
               PROVE  Inductive
    OBVIOUS
  <1>1. TypeOK
    BY Constants DEF Init, TypeOK, Nowhere, Window
  <1>2. PermitsReturned
    <2>1. {t \in Threads : at[t] = "calling"} = {}
      BY DEF Init
    <2>2. Cardinality({t \in Threads : at[t] = "calling"}) = 0
      BY <2>1, FS_EmptySet
    <2>3. free = Capacity /\ Capacity \in Nat
      BY Constants DEF Init
    <2> QED
      BY <2>2, <2>3 DEF PermitsReturned
  <1>3. BudgetOK /\ TextOK /\ CoverageOK
    BY Constants DEF Init, BudgetOK, TextOK, CoverageOK, Coverage, Busy, Scanning
  <1> QED
    BY <1>1, <1>2, <1>3 DEF Inductive

LEMMA InductiveNext == Inductive /\ [Next]_vars => Inductive'
  BY TypeNext, PermitsNext, BudgetNext, CoverageNext DEF Inductive

LEMMA InductiveImplies == Inductive => ShortSpansWhole /\ PermitsReturned /\ CallsBounded
  <1> SUFFICES ASSUME Inductive
               PROVE  ShortSpansWhole /\ PermitsReturned /\ CallsBounded
    OBVIOUS
  <1>1. ShortSpansWhole
    <2> SUFFICES ASSUME NEW t \in Threads, at[t] \in Scanning,
                        NEW s \in 0..Head(texts[t]), s + ShortSpan <= Head(texts[t])
                 PROVE  Covered(t, s)
      BY DEF ShortSpansWhole, Scanning
    <2>1. Head(texts[t]) \in Nat
      BY DEF Inductive, TypeOK, TextOK, Busy, Scanning
    <2> QED
      BY <2>1 DEF Inductive, CoverageOK, Coverage
  <1>2. CallsBounded
    <2> SUFFICES ASSUME NEW t \in Threads
                 PROVE  calls[t] <= MaxCalls
      BY DEF CallsBounded
    <2>1. calls[t] \in Nat /\ remaining[t] \in Nat
      BY DEF Inductive, TypeOK
    <2>2. calls[t] + remaining[t] + (IF at[t] = "waiting" THEN 1 ELSE 0) <= MaxCalls
      BY DEF Inductive, BudgetOK
    <2> QED
      BY <2>1, <2>2, Constants
  <1> QED
    BY <1>1, <1>2 DEF Inductive

\* The three results share one invariant.
LEMMA RemoteSafe == Spec => [](ShortSpansWhole /\ PermitsReturned /\ CallsBounded)
  BY InductiveInit, InductiveNext, InductiveImplies, PTL DEF Spec

\* gliner_matches never parts a short span, whatever the length of the text and
\* however often the service refuses a window for its size.
THEOREM ShortSpansWholeAlways == Spec => []ShortSpansWhole
  BY RemoteSafe, PTL

\* RemoteTransport.request returns every permit it takes, and the process never
\* has more calls under way than its capacity.
THEOREM PermitsReturnedAlways == Spec => []PermitsReturned
  BY RemoteSafe, PTL

\* All texts of a request together cost at most MaxCalls calls.
THEOREM CallsBoundedAlways == Spec => []CallsBounded
  BY RemoteSafe, PTL

-----------------------------------------------------------------------------
(* Why an analysis ends *)

\* The places of a scan, in the order in which they follow each other until the
\* next call is paid for.
Rank(place) ==
    CASE place = "waiting" -> 4
      [] place = "calling" -> 3
      [] place = "window"  -> 2
      [] place = "request" -> 1

\* The thread comes closer to the end of its request: it is at the end, or fewer
\* texts are left, or it goes on to its texts, or from a text to its windows, or
\* there is less of the text to cut, or fewer calls are left in the budget, or
\* with as many it is further on its way to the next call.  No sequence of such
\* steps is infinite: it is a lexicographic order of natural numbers.
Closer(t) ==
    /\ at[t] \in Busy \union {"begun", "text"}
    /\ \/ at'[t] \in {"done", "failed"}
       \/ at'[t] = "text" /\ Len(texts'[t]) < Len(texts[t])
       \/ /\ texts'[t] = texts[t]
          /\ \/ at[t] = "begun" /\ at'[t] = "text"
             \/ at[t] = "text" /\ at'[t] = "cut"
             \/ /\ at[t] = "cut" /\ at'[t] = "cut"
                /\ offset[t] < offset'[t] /\ offset'[t] <= Head(texts[t])
             \/ at[t] = "cut" /\ at'[t] \in Scanning
             \/ /\ at[t] \in Scanning /\ at'[t] \in Scanning
                /\ \/ remaining'[t] < remaining[t]
                   \/ /\ remaining'[t] = remaining[t]
                      /\ \/ Rank(at'[t]) < Rank(at[t])
                         \/ /\ at'[t] = at[t]
                            /\ Len(pending'[t]) < Len(pending[t])

\* Others and the clock leave the thread where it is.
Rests(t) ==
    /\ at'[t] = at[t] /\ texts'[t] = texts[t] /\ offset'[t] = offset[t]
    /\ pending'[t] = pending[t] /\ remaining'[t] = remaining[t]

\* Whatever a thread does once it has a request brings it closer to its end, and
\* nothing else takes it further away from it, however often windows are refused
\* and cut again (gliner_matches, RemoteTransport.request).
AnalysesAdvance ==
    \A t \in Threads :
      /\ Progress(t) \/ Acquire(t) => Closer(t)
      /\ Closer(t) \/ Rests(t) \/ at[t] \in {"idle", "done", "failed"}

LEMMA ProgressCloser ==
    ASSUME TypeOK, TextOK, NEW t \in Threads, Progress(t) \/ Acquire(t)
    PROVE  Closer(t)
  <1> USE DEF TypeOK
  <1>0. CASE PreparePlans(t)
    <2>1. /\ at[t] = "begun" /\ texts' = texts
          /\ \E place \in {"text", "done", "failed"} : at' = [at EXCEPT ![t] = place]
      BY <1>0 DEF PreparePlans, Go
    <2> QED
      BY <2>1 DEF Closer
  <1>1. CASE Analyze(t)
    <2>1. /\ at[t] = "text"
          /\ \/ at' = [at EXCEPT ![t] = "done"]
             \/ /\ texts[t] # <<>> /\ texts' = [texts EXCEPT ![t] = Tail(texts[t])]
                /\ at' = [at EXCEPT ![t] = "text"]
             \/ at' = [at EXCEPT ![t] = "cut"] /\ texts' = texts
      BY <1>1 DEF Analyze, Go
    <2>2. texts[t] # <<>> => Len(Tail(texts[t])) < Len(texts[t])
      OBVIOUS
    <2> QED
      BY <2>1, <2>2 DEF Closer
  <1>2. CASE CutWindow(t)
    <2>1. at[t] = "cut" /\ texts' = texts
      BY <1>2 DEF CutWindow
    <2>2. texts[t] # <<>> /\ Head(texts[t]) \in Nat
      BY <2>1 DEF TextOK, Busy
    <2>3. CASE offset[t] + Size >= Head(texts[t]) /\ at' = [at EXCEPT ![t] = "window"]
      BY <2>1, <2>3 DEF Closer, Busy, Scanning
    <2>4. CASE /\ ~(offset[t] + Size >= Head(texts[t]))
               /\ offset' = [offset EXCEPT ![t] = offset[t] + (Size - Overlap)] /\ UNCHANGED at
      <3>1. offset'[t] = offset[t] + (Size - Overlap) /\ offset[t] \in Nat
        BY <2>4
      <3>2. offset[t] < offset'[t] /\ offset'[t] <= Head(texts[t])
        BY <2>2, <2>4, <3>1, Constants
      <3> QED
        BY <2>1, <2>4, <3>2 DEF Closer, Busy
    <2> QED
      BY <1>2, <2>3, <2>4 DEF CutWindow, Go
  <1>3. CASE TakeWindow(t)
    <2>1. /\ at[t] = "window" /\ pending[t] # <<>> /\ texts' = texts /\ remaining' = remaining
          /\ pending' = [pending EXCEPT ![t] = SubSeq(pending[t], 1, Len(pending[t]) - 1)]
          /\ at' = at \/ at' = [at EXCEPT ![t] = "request"]
      BY <1>3 DEF TakeWindow, RemoteWindow, Go
    <2>2. pending[t] \in Seq(Window) /\ Len(pending[t]) \in Nat \ {0}
      BY <2>1
    <2>3. Len(SubSeq(pending[t], 1, Len(pending[t]) - 1)) = Len(pending[t]) - 1
      <3> DEFINE p == pending[t]
                 n == Len(pending[t]) - 1
      <3>1. p \in Seq(Window) /\ n \in Nat /\ n <= Len(p) /\ 1 \in 1 .. Len(p) + 1
        BY <2>2
      <3> HIDE DEF p, n
      <3>2. Len(SubSeq(p, 1, n)) = n
        BY <3>1
      <3> QED
        BY <3>2 DEF p, n
    <2>4. Len(pending'[t]) < Len(pending[t])
      BY <2>1, <2>2, <2>3
    <2>5. Rank("request") < Rank("window")
      BY DEF Rank
    <2> QED
      BY <2>1, <2>4, <2>5 DEF Closer, Busy, Scanning
  <1>4. CASE TextScanned(t)
    <2>1. /\ at[t] = "window" /\ texts' = [texts EXCEPT ![t] = Tail(texts[t])]
          /\ at' = [at EXCEPT ![t] = "text"]
      BY <1>4 DEF TextScanned, Go
    <2>2. texts[t] # <<>>
      BY <2>1 DEF TextOK, Busy
    <2>3. Len(Tail(texts[t])) < Len(texts[t])
      BY <2>2
    <2> QED
      BY <2>1, <2>3 DEF Closer, Busy
  <1>5. CASE Request(t)
    <2>1. /\ at[t] = "request" /\ texts' = texts
          /\ \/ at' = [at EXCEPT ![t] = "failed"]
             \/ /\ remaining' = [remaining EXCEPT ![t] = remaining[t] - 1]
                /\ \E place \in {"failed", "calling", "waiting"} : at' = [at EXCEPT ![t] = place]
      BY <1>5 DEF Request, Call, Go
    <2>2. remaining[t] - 1 < remaining[t]
      OBVIOUS
    <2> QED
      BY <2>1, <2>2 DEF Closer, Busy, Scanning
  <1>6. CASE Acquire(t)
    <2>1. /\ at[t] = "waiting" /\ texts' = texts /\ remaining' = remaining
          /\ at' = [at EXCEPT ![t] = "calling"]
      BY <1>6 DEF Acquire, Call, Go
    <2>2. Rank("calling") < Rank("waiting")
      BY DEF Rank
    <2> QED
      BY <2>1, <2>2 DEF Closer, Busy, Scanning
  <1>7. CASE AcquireTimesOut(t)
    BY <1>7 DEF AcquireTimesOut, Go, Closer, Busy
  <1>8. ASSUME NEW answer \in Answers, Reply(t, answer)
        PROVE  Closer(t)
    <2>1. /\ at[t] = "calling" /\ texts' = texts /\ remaining' = remaining
          /\ \E place \in {"window", "failed"} : at' = [at EXCEPT ![t] = place]
      BY <1>8, ReplyCases
    <2>2. Rank("window") < Rank("calling")
      BY DEF Rank
    <2> QED
      BY <2>1, <2>2 DEF Closer, Busy, Scanning
  <1> QED
    BY <1>0, <1>1, <1>2, <1>3, <1>4, <1>5, <1>6, <1>7, <1>8 DEF Progress

\* The steps of one thread leave the others where they are.
LEMMA OthersRest ==
    ASSUME TypeOK, NEW t \in Threads, NEW u \in Threads, u # t,
           AnalysisBudget(u) \/ Progress(u) \/ Acquire(u)
    PROVE  Rests(t)
  <1> USE DEF TypeOK
  <1>1. CASE AnalysisBudget(u)
    BY <1>1 DEF AnalysisBudget, Go, Rests
  <1>2. CASE Analyze(u)
    BY <1>2 DEF Analyze, Go, Rests
  <1>3. CASE CutWindow(u)
    BY <1>3 DEF CutWindow, Go, Rests
  <1>4. CASE TakeWindow(u)
    BY <1>4 DEF TakeWindow, RemoteWindow, Go, Rests
  <1>5. CASE TextScanned(u)
    BY <1>5 DEF TextScanned, Go, Rests
  <1>6. CASE Request(u)
    BY <1>6 DEF Request, Call, Go, Rests
  <1>7. CASE Acquire(u) \/ AcquireTimesOut(u)
    BY <1>7 DEF Acquire, AcquireTimesOut, Call, Go, Rests
  <1>8. ASSUME NEW answer \in Answers, Reply(u, answer)
        PROVE  Rests(t)
    <2>1. /\ UNCHANGED <<texts, offset, remaining>>
          /\ \E place \in {"window", "failed"} : at' = [at EXCEPT ![u] = place]
          /\ \/ UNCHANGED pending
             \/ pending' = [pending EXCEPT ![u] = pending[u] \o Halves(current[u])]
      BY <1>8, ReplyCases
    <2> QED
      BY <2>1 DEF Rests
  <1>9. CASE PreparePlans(u)
    BY <1>9 DEF PreparePlans, Go, Rests
  <1> QED
    BY <1>1, <1>2, <1>3, <1>4, <1>5, <1>6, <1>7, <1>8, <1>9 DEF Progress

LEMMA StepsAdvance == Inductive /\ [Next]_vars => [AnalysesAdvance]_vars
  <1> SUFFICES ASSUME Inductive, Next, NEW t \in Threads
               PROVE  /\ Progress(t) \/ Acquire(t) => Closer(t)
                      /\ Closer(t) \/ Rests(t) \/ at[t] \in {"idle", "done", "failed"}
    BY DEF AnalysesAdvance
  <1>1. TypeOK /\ TextOK
    BY DEF Inductive
  <1>2. Progress(t) \/ Acquire(t) => Closer(t)
    BY <1>1, ProgressCloser
  <1>3. PICK u \in Threads : AnalysisBudget(u) \/ Progress(u) \/ Acquire(u) \/ DeadlinePasses(u)
    BY DEF Next
  <1>4. CASE DeadlinePasses(u)
    BY <1>2, <1>4 DEF DeadlinePasses, Rests
  <1>5. CASE u = t /\ ~DeadlinePasses(u)
    BY <1>2, <1>3, <1>5 DEF AnalysisBudget
  <1>6. CASE u # t /\ ~DeadlinePasses(u)
    BY <1>1, <1>2, <1>3, <1>6, OthersRest
  <1> QED
    BY <1>4, <1>5, <1>6

\* Every step of a thread with a request brings it closer to the end of the
\* request, for any texts, windows and answers: with a thread that runs, calls
\* that end and deadlines that pass, no analysis goes on for ever.
THEOREM AnalysesAlwaysAdvance == Spec => [][AnalysesAdvance]_vars
  <1>1. Spec => []Inductive
    BY InductiveInit, InductiveNext, PTL DEF Spec
  <1> QED
    BY <1>1, StepsAdvance, PTL DEF Spec

=============================================================================
