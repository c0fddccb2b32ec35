--------------------------- MODULE NerCacheProofs ---------------------------
(***************************************************************************)
(* Proofs about NerCache, for any threads, windows, sizes and limits: what *)
(* the cache answers is what inference finds, a closed cache is empty, and *)
(* an entry never becomes younger.                                         *)
(***************************************************************************)
EXTENDS NerCache, SequenceTheorems, TLAPS

-----------------------------------------------------------------------------
(***************************************************************************)
(* The digest is one to one: it begins with the length of the context.     *)
(***************************************************************************)

\* Two facts of arithmetic about lengths.
LEMMA Cancel == \A a, b, c \in Nat : 1 + a + b = 1 + a + c => b = c
OBVIOUS

LEMMA Grows == \A a, b \in Nat : 1 <= 1 + a /\ 1 \in 1 .. 1 + a + b
OBVIOUS

\* What the digested bytes of _key are, one by one.
LEMMA KeyBytes ==
    ASSUME NEW w \in Windows
    PROVE  /\ w.context \in Seq(Nat) /\ w.text \in Seq(Nat)
           /\ Key(w) \in Seq(Nat)
           /\ Len(Key(w)) = 1 + Len(w.context) + Len(w.text)
           /\ Key(w)[1] = Len(w.context)
           /\ \A i \in 1 .. Len(w.context) : Key(w)[1 + i] = w.context[i]
           /\ \A i \in 1 .. Len(w.text) :
                Key(w)[1 + Len(w.context) + i] = w.text[i]
<1>1. w.context \in Seq(Nat) /\ w.text \in Seq(Nat)
    BY WindowsAreSequences
<1>2. Len(w.context) \in Nat /\ Len(w.text) \in Nat
    BY <1>1
<1> DEFINE n == <<Len(w.context)>>
           head == n \o w.context
<1>3. n \in Seq(Nat) /\ Len(n) = 1 /\ n[1] = Len(w.context)
    BY <1>2
<1>4. /\ head \in Seq(Nat)
      /\ Len(head) = 1 + Len(w.context)
      /\ \A i \in 1 .. 1 + Len(w.context) :
           head[i] = IF i <= 1 THEN n[i] ELSE w.context[i - 1]
    BY <1>1, <1>3, ConcatProperties
<1> HIDE DEF n, head
<1>5. /\ head \o w.text \in Seq(Nat)
      /\ Len(head \o w.text) = Len(head) + Len(w.text)
      /\ \A i \in 1 .. Len(head) + Len(w.text) :
           (head \o w.text)[i] = IF i <= Len(head) THEN head[i]
                                 ELSE w.text[i - Len(head)]
    BY <1>1, <1>4, ConcatProperties
<1>6. Key(w) = head \o w.text
    BY DEF Key, head, n
<1>7. /\ Len(Key(w)) = 1 + Len(w.context) + Len(w.text)
      /\ Key(w)[1] = Len(w.context)
  <2>1. Len(Key(w)) = 1 + Len(w.context) + Len(w.text)
      BY <1>4, <1>5, <1>6
  <2>2. head[1] = Len(w.context)
      BY <1>2, <1>3, <1>4
  <2>3. 1 <= Len(head) /\ 1 \in 1 .. Len(head) + Len(w.text)
      BY <1>2, <1>4, Grows
  <2> QED
      BY <1>5, <1>6, <2>1, <2>2, <2>3
<1>8. ASSUME NEW i \in 1 .. Len(w.context)
      PROVE  Key(w)[1 + i] = w.context[i]
  <2>1. 1 + i \in 1 .. Len(head) /\ ~(1 + i <= 1) /\ (1 + i) - 1 = i
      BY <1>2, <1>4
  <2>2. head[1 + i] = w.context[i]
      BY <1>4, <2>1
  <2> QED
      BY <1>2, <1>4, <1>5, <1>6, <2>1, <2>2
<1>9. ASSUME NEW i \in 1 .. Len(w.text)
      PROVE  Key(w)[1 + Len(w.context) + i] = w.text[i]
  <2>1. /\ Len(head) + i \in 1 .. Len(head) + Len(w.text)
        /\ ~(Len(head) + i <= Len(head))
        /\ (Len(head) + i) - Len(head) = i
    <3>1. Len(head) \in Nat /\ Len(w.text) \in Nat
        BY <1>2, <1>4
    <3> QED
        BY <3>1
  <2> QED
      BY <1>2, <1>4, <1>5, <1>6, <2>1
<1> QED
    BY <1>1, <1>5, <1>6, <1>7, <1>8, <1>9

\* Windows with the same key have the same context and the same text.
LEMMA KeyIsInjective ==
    ASSUME NEW w \in Windows, NEW v \in Windows, Key(w) = Key(v)
    PROVE  w = v
<1>1. Len(w.context) \in Nat /\ Len(w.text) \in Nat
    BY WindowsAreSequences
<1>2. Len(v.context) \in Nat /\ Len(v.text) \in Nat
    BY WindowsAreSequences
<1>3. Len(w.context) = Len(v.context)
    BY KeyBytes
<1>4. Len(w.text) = Len(v.text)
  <2>1. Len(Key(w)) = 1 + Len(w.context) + Len(w.text)
      BY KeyBytes
  <2>2. Len(Key(v)) = 1 + Len(v.context) + Len(v.text)
      BY KeyBytes
  <2>3. 1 + Len(w.context) + Len(w.text) = 1 + Len(w.context) + Len(v.text)
      BY <1>3, <2>1, <2>2
  <2> QED
      BY <1>1, <1>2, <2>3, Cancel
<1>5. w.context = v.context
  <2>1. \A i \in 1 .. Len(w.context) : Key(w)[1 + i] = w.context[i]
      BY KeyBytes
  <2>2. \A i \in 1 .. Len(v.context) : Key(v)[1 + i] = v.context[i]
      BY KeyBytes
  <2>3. \A i \in 1 .. Len(w.context) : w.context[i] = v.context[i]
      BY <1>3, <2>1, <2>2
  <2>4. w.context \in Seq(Nat) /\ v.context \in Seq(Nat)
      BY KeyBytes
  <2> QED
      BY <1>3, <2>3, <2>4, SeqEqual
<1>6. w.text = v.text
  <2>1. \A i \in 1 .. Len(w.text) : Key(w)[1 + Len(w.context) + i] = w.text[i]
      BY KeyBytes
  <2>2. \A i \in 1 .. Len(v.text) : Key(v)[1 + Len(v.context) + i] = v.text[i]
      BY KeyBytes
  <2>3. \A i \in 1 .. Len(w.text) : w.text[i] = v.text[i]
      BY <1>3, <1>4, <2>1, <2>2
  <2>4. w.text \in Seq(Nat) /\ v.text \in Seq(Nat)
      BY KeyBytes
  <2> QED
      BY <1>4, <2>3, <2>4, SeqEqual
<1>7. /\ w = [context |-> w.context, text |-> w.text]
      /\ v = [context |-> v.context, text |-> v.text]
    BY WindowsAreSequences
<1> QED
    BY <1>5, <1>6, <1>7

-----------------------------------------------------------------------------
(***************************************************************************)
(* What the cache can hold.                                                *)
(***************************************************************************)

\* f is a cache whose entries are under their own keys.
Held(f) ==
    /\ f = [k \in DOMAIN f |-> f[k]]
    /\ \A k \in DOMAIN f : /\ f[k] \in Entries
                           /\ k = Key(f[k].findings.window)

\* An entry is a detection of a window and an age.
LEMMA EntryFacts ==
    ASSUME NEW e \in Entries
    PROVE  /\ e.findings.window \in Windows
           /\ e.findings = Detection(e.findings.window)
           /\ e.age \in 0 .. Ttl
BY DEF Entries, Detection

LEMMA InductiveHeld == Inductive => Held(cache)
BY DEF Inductive, TypeOK, EntriesOK, Held

\* The cache's share of the type invariant follows.
LEMMA HeldDomain ==
    ASSUME NEW f, Held(f)
    PROVE  DOMAIN f \subseteq {Key(w) : w \in Windows}
<1> SUFFICES ASSUME NEW k \in DOMAIN f PROVE \E w \in Windows : k = Key(w)
    OBVIOUS
<1>1. f[k] \in Entries /\ k = Key(f[k].findings.window)
    BY DEF Held
<1>2. f[k].findings.window \in Windows
    BY <1>1, EntryFacts
<1> QED
    BY <1>1, <1>2

\* Expiry only removes entries (_expire).
LEMMA UnexpiredHeld ==
    ASSUME Held(cache)
    PROVE  /\ Held(Unexpired)
           /\ DOMAIN Unexpired = {k \in DOMAIN cache : cache[k].age < Ttl}
           /\ \A k \in DOMAIN Unexpired : Unexpired[k] = cache[k]
BY DEF Held, Unexpired

\* Whatever is evicted for it, a stored finding is under its own key.
LEMMA InsertHeld ==
    ASSUME Held(cache), NEW w \in Windows, Insert(Key(w), Detection(w))
    PROVE  Held(cache')
<1>1. PICK kept \in SUBSET DOMAIN Unexpired :
        cache' = [j \in kept \union {Key(w)} |->
                    IF j = Key(w) THEN [findings |-> Detection(w), age |-> 0]
                                  ELSE cache[j]]
    BY DEF Insert
<1>2. [findings |-> Detection(w), age |-> 0] \in Entries
    BY BoundsAreNumbers DEF Entries
<1>3. Detection(w).window = w
    BY DEF Detection
<1>4. kept \subseteq DOMAIN cache
    BY UnexpiredHeld
<1>5. ASSUME NEW j \in DOMAIN cache'
      PROVE  cache'[j] \in Entries /\ j = Key(cache'[j].findings.window)
  <2>1. CASE j = Key(w)
    <3>1. cache'[j] = [findings |-> Detection(w), age |-> 0]
        BY <1>1, <2>1
    <3> QED
        BY <1>2, <1>3, <2>1, <3>1
  <2>2. CASE j # Key(w)
    <3>1. j \in DOMAIN cache /\ cache'[j] = cache[j]
        BY <1>1, <1>4, <2>2
    <3> QED
        BY <3>1 DEF Held
  <2> QED
      BY <2>1, <2>2
<1>6. cache' = [j \in DOMAIN cache' |-> cache'[j]]
    BY <1>1
<1> QED
    BY <1>5, <1>6 DEF Held

\* Time changes nothing but ages.
LEMMA TickHeld ==
    ASSUME Held(cache), Tick
    PROVE  Held(cache') /\ DOMAIN cache' = DOMAIN cache
<1>1. cache' = [k \in DOMAIN cache |->
                  [cache[k] EXCEPT !.age = IF @ < Ttl THEN @ + 1 ELSE @]]
    BY DEF Tick
<1>2. ASSUME NEW k \in DOMAIN cache
      PROVE  /\ cache'[k] \in Entries
             /\ k = Key(cache'[k].findings.window)
  <2>1. cache[k] \in Entries /\ k = Key(cache[k].findings.window)
      BY DEF Held
  <2>2. /\ cache'[k].findings = cache[k].findings
        /\ cache'[k] = [cache[k] EXCEPT !.age = IF @ < Ttl THEN @ + 1 ELSE @]
      BY <1>1, <2>1 DEF Entries
  <2>3. cache'[k] \in Entries
      BY <2>1, <2>2, BoundsAreNumbers DEF Entries
  <2> QED
      BY <2>1, <2>2, <2>3
<1> QED
    BY <1>1, <1>2 DEF Held

-----------------------------------------------------------------------------
(***************************************************************************)
(* The inductive invariant.                                                *)
(***************************************************************************)

LEMMA InitInductive == Init => Inductive
<1> SUFFICES ASSUME Init PROVE Inductive
    OBVIOUS
<1>1. (CHOOSE w \in Windows : TRUE) \in Windows
    BY WindowsAreSequences
<1>2. DOMAIN cache = {} /\ cache = [k \in DOMAIN cache |-> cache[k]]
    BY DEF Init
<1>3. TypeOK
    BY <1>1, <1>2 DEF Init, TypeOK, Pcs, Answers
<1> QED
    BY <1>2, <1>3
       DEF Init, Inductive, ClosingOK, ClosedStaysEmpty, EntriesOK, ThreadsOK,
           AnswersAreDetections

\* What the actions of a thread have in common: they move one thread, which has
\* what was found for its window whenever it is about to use it, and they leave
\* a stopped cache with no more than it held.
LEMMA ThreadMoves ==
    ASSUME Inductive, NEW t \in Threads,
           UNCHANGED <<life, stop, cleanup>>,
           Held(cache'), stop => DOMAIN cache' \subseteq DOMAIN cache,
           NEW p \in Pcs, NEW w \in Windows, NEW n \in Nat, NEW f \in Answers,
           pc' = [pc EXCEPT ![t] = p],
           window' = [window EXCEPT ![t] = w],
           offset' = [offset EXCEPT ![t] = n],
           findings' = [findings EXCEPT ![t] = f],
           p \in {"store", "convert"} => f = Detection(w),
           p = "done" => f \in {Failed, Shifted(w, n)}
    PROVE  Inductive'
<1>0. TypeOK /\ ClosingOK /\ EntriesOK /\ ThreadsOK /\ AnswersAreDetections
    BY DEF Inductive
<1>1. TypeOK'
  <2>1. /\ pc' \in [Threads -> Pcs]
        /\ window' \in [Threads -> Windows]
        /\ offset' \in [Threads -> Nat]
        /\ findings' \in [Threads -> Answers]
      BY <1>0 DEF TypeOK
  <2>2. /\ cache' = [k \in DOMAIN cache' |-> cache'[k]]
        /\ \A k \in DOMAIN cache' : cache'[k] \in Entries
      BY DEF Held
  <2>3. DOMAIN cache' \subseteq {Key(v) : v \in Windows}
      BY HeldDomain
  <2>4. {Key(v) : v \in Windows}' = {Key(v) : v \in Windows} /\ Entries' = Entries
      BY DEF Key, Entries, Detection
  <2> QED
      BY <1>0, <2>1, <2>2, <2>3, <2>4 DEF TypeOK
<1>2. ClosingOK'
    BY <1>0 DEF ClosingOK, ClosedStaysEmpty
<1>3. EntriesOK'
    BY DEF Held, EntriesOK
<1>4. ThreadsOK'
    BY <1>0 DEF ThreadsOK, TypeOK
<1>5. AnswersAreDetections'
    BY <1>0 DEF AnswersAreDetections, TypeOK
<1> QED
    BY <1>1, <1>2, <1>3, <1>4, <1>5 DEF Inductive

\* The types of what a thread has, for use with the lemma above.
LEMMA ThreadTypes ==
    ASSUME Inductive, NEW t \in Threads
    PROVE  /\ pc[t] \in Pcs /\ window[t] \in Windows
           /\ offset[t] \in Nat /\ findings[t] \in Answers
           /\ pc = [pc EXCEPT ![t] = pc[t]]
           /\ window = [window EXCEPT ![t] = window[t]]
           /\ offset = [offset EXCEPT ![t] = offset[t]]
           /\ findings = [findings EXCEPT ![t] = findings[t]]
BY DEF Inductive, TypeOK

LEMMA DetectionAnswers ==
    \A w \in Windows : /\ Detection(w) \in Answers
                       /\ \A n \in Nat : Shifted(w, n) \in Answers
BY DEF Detection, Shifted, Answers

\* The same for a thread that keeps its window and what it has of it.
LEMMA ThreadAdvances ==
    ASSUME Inductive, NEW t \in Threads,
           UNCHANGED <<life, stop, cleanup, window, offset, findings>>,
           Held(cache'), stop => DOMAIN cache' \subseteq DOMAIN cache,
           NEW p \in Pcs \ {"done"},
           pc' = [pc EXCEPT ![t] = p],
           p \in {"store", "convert"} => findings[t] = Detection(window[t])
    PROVE  Inductive'
<1> DEFINE w == window[t]
           n == offset[t]
           f == findings[t]
<1>1. /\ w \in Windows /\ n \in Nat /\ f \in Answers /\ p \in Pcs /\ p # "done"
      /\ window' = [window EXCEPT ![t] = w]
      /\ offset' = [offset EXCEPT ![t] = n]
      /\ findings' = [findings EXCEPT ![t] = f]
    BY ThreadTypes
<1>2. p \in {"store", "convert"} => f = Detection(w)
    OBVIOUS
<1> HIDE DEF w, n, f
<1>3. UNCHANGED <<life, stop, cleanup>>
    OBVIOUS
<1> QED
    BY <1>1, <1>2, <1>3, ThreadMoves

\* Every step of run() and of its caller keeps the invariant.
LEMMA ThreadInductive ==
    ASSUME Inductive, NEW t \in Threads, Thread(t)
    PROVE  Inductive'
<1>0. TypeOK /\ ThreadsOK /\ Held(cache) /\ Held(Unexpired)
      /\ DOMAIN Unexpired \subseteq DOMAIN cache
      /\ \A k \in DOMAIN Unexpired : Unexpired[k] = cache[k]
    BY InductiveHeld, UnexpiredHeld DEF Inductive
<1>t. /\ pc[t] \in Pcs /\ window[t] \in Windows
      /\ offset[t] \in Nat /\ findings[t] \in Answers
      /\ pc = [pc EXCEPT ![t] = pc[t]]
      /\ window = [window EXCEPT ![t] = window[t]]
      /\ offset = [offset EXCEPT ![t] = offset[t]]
      /\ findings = [findings EXCEPT ![t] = findings[t]]
    BY ThreadTypes
<1>1. ASSUME NEW w \in Windows, NEW n \in Offsets, Enter(t, w, n)
      PROVE  Inductive'
  <2> DEFINE p == IF stop THEN "bypass" ELSE "lookup"
  <2>1. p \in Pcs /\ n \in Nat /\ None \in Answers /\ p \notin {"store", "convert", "done"}
      BY BoundsAreNumbers DEF Pcs, Answers
  <2>2. /\ pc' = [pc EXCEPT ![t] = p]
        /\ window' = [window EXCEPT ![t] = w]
        /\ offset' = [offset EXCEPT ![t] = n]
        /\ findings' = [findings EXCEPT ![t] = None]
        /\ UNCHANGED <<life, stop, cleanup, cache>>
      BY <1>1 DEF Enter
  <2> HIDE DEF p
  <2>3. Held(cache')
      BY <1>0, <2>2 DEF Held
  <2> QED
      BY <2>1, <2>2, <2>3, ThreadMoves
<1>2. CASE Hit(t)
  <2> DEFINE k == Key(window[t])
             f == cache[k].findings
  <2>1. /\ pc' = [pc EXCEPT ![t] = "convert"]
        /\ findings' = [findings EXCEPT ![t] = f]
        /\ cache' = Unexpired
        /\ k \in DOMAIN cache
        /\ UNCHANGED <<life, stop, cleanup, window, offset>>
      BY <1>0, <1>2 DEF Hit
  <2>2. cache[k] \in Entries /\ k = Key(f.window)
      BY <1>0, <2>1 DEF Held
  <2>3. f.window \in Windows /\ f = Detection(f.window)
      BY <2>2, EntryFacts
  <2>4. f.window = window[t]
      BY <1>t, <2>2, <2>3, KeyIsInjective
  <2>5. f = Detection(window[t]) /\ f \in Answers
      BY <1>t, <2>3, <2>4, DetectionAnswers
  <2> HIDE DEF f, k
  <2>6. "convert" \in Pcs /\ "convert" # "done" /\ Held(cache')
      BY <1>0, <2>1 DEF Pcs
  <2>7. /\ UNCHANGED <<life, stop, cleanup>> /\ (stop => DOMAIN cache' \subseteq DOMAIN cache)
        /\ pc' = [pc EXCEPT ![t] = "convert"]
        /\ window' = [window EXCEPT ![t] = window[t]]
        /\ offset' = [offset EXCEPT ![t] = offset[t]]
        /\ findings' = [findings EXCEPT ![t] = f]
      BY <1>0, <1>t, <2>1
  <2> QED
      BY <1>t, <2>5, <2>6, <2>7, ThreadMoves
<1>3. CASE Miss(t)
  <2>1. /\ pc' = [pc EXCEPT ![t] = "detect"]
        /\ cache' = Unexpired
        /\ UNCHANGED <<life, stop, cleanup, window, offset, findings>>
      BY <1>3 DEF Miss
  <2>2. "detect" \in Pcs \ {"done"} /\ Held(cache')
      BY <1>0, <2>1 DEF Pcs
  <2> QED
      BY <1>0, <2>1, <2>2, ThreadAdvances
<1>4. CASE LookupError(t)
  <2>1. /\ pc' = [pc EXCEPT ![t] = "bypass"]
        /\ cache' = cache \/ cache' = Unexpired
        /\ UNCHANGED <<life, stop, cleanup, window, offset, findings>>
      BY <1>4 DEF LookupError
  <2>2. /\ "bypass" \in Pcs \ {"done"} /\ Held(cache')
        /\ DOMAIN cache' \subseteq DOMAIN cache
      BY <1>0, <2>1 DEF Pcs, Held
  <2> QED
      BY <2>1, <2>2, ThreadAdvances
<1>5. CASE Detect(t)
  <2> DEFINE p == IF pc[t] = "detect" THEN "store" ELSE "convert"
  <2>1. /\ pc' = [pc EXCEPT ![t] = p]
        /\ findings' = [findings EXCEPT ![t] = Detection(window[t])]
        /\ UNCHANGED <<life, stop, cleanup, cache, window, offset>>
      BY <1>5 DEF Detect
  <2>2. p \in Pcs /\ p # "done" /\ Held(cache')
      BY <1>0, <2>1 DEF Pcs, Held
  <2> HIDE DEF p
  <2>3. Detection(window[t]) \in Answers
      BY <1>t, DetectionAnswers
  <2> QED
      BY <1>t, <2>1, <2>2, <2>3, ThreadMoves
<1>6. CASE DetectFails(t)
  <2>1. /\ pc' = [pc EXCEPT ![t] = "done"]
        /\ findings' = [findings EXCEPT ![t] = Failed]
        /\ UNCHANGED <<life, stop, cleanup, cache, window, offset>>
      BY <1>6 DEF DetectFails
  <2>2. "done" \in Pcs /\ Failed \in Answers /\ Held(cache')
      BY <1>0, <2>1 DEF Pcs, Held, Answers
  <2> QED
      BY <1>t, <2>1, <2>2, ThreadMoves
<1>7. CASE Store(t) \/ StoreError(t)
  <2>1. /\ pc[t] = "store"
        /\ pc' = [pc EXCEPT ![t] = "convert"]
        /\ UNCHANGED <<life, stop, cleanup, window, offset, findings>>
      BY <1>7 DEF Store, StoreError
  <2>2. findings[t] = Detection(window[t])
      BY <1>0, <2>1 DEF ThreadsOK
  <2>3. \/ cache' = cache
        \/ cache' = Unexpired
        \/ ~stop /\ Insert(Key(window[t]), findings[t])
      BY <1>7 DEF Store, StoreError
  <2>4. CASE cache' = cache \/ cache' = Unexpired
    <3>1. /\ "convert" \in Pcs \ {"done"} /\ Held(cache')
          /\ DOMAIN cache' \subseteq DOMAIN cache
        BY <1>0, <2>4 DEF Pcs, Held
    <3> QED
        BY <2>1, <2>2, <3>1, ThreadAdvances
  <2>5. CASE ~stop /\ Insert(Key(window[t]), findings[t])
    <3>1. Insert(Key(window[t]), Detection(window[t]))
        BY <2>2, <2>5
    <3>2. "convert" \in Pcs \ {"done"} /\ Held(cache')
        BY <1>0, <1>t, <3>1, InsertHeld DEF Pcs
    <3> QED
        BY <2>1, <2>2, <2>5, <3>2, ThreadAdvances
  <2> QED
      BY <2>3, <2>4, <2>5
<1>8. CASE Convert(t)
  <2> DEFINE f == [findings[t] EXCEPT !.start = @ + offset[t]]
  <2>1. /\ pc[t] = "convert"
        /\ pc' = [pc EXCEPT ![t] = "done"]
        /\ findings' = [findings EXCEPT ![t] = f]
        /\ UNCHANGED <<life, stop, cleanup, cache, window, offset>>
      BY <1>8 DEF Convert
  <2>2. findings[t] = Detection(window[t])
      BY <1>0, <2>1 DEF ThreadsOK
  <2>3. f = Shifted(window[t], offset[t])
      BY <1>t, <2>2 DEF Detection, Shifted
  <2>4. f \in Answers
      BY <1>t, <2>3, DetectionAnswers
  <2> HIDE DEF f
  <2>5. "done" \in Pcs /\ Held(cache')
      BY <1>0, <2>1 DEF Pcs, Held
  <2> QED
      BY <1>t, <2>1, <2>3, <2>4, <2>5, ThreadMoves
<1> QED
    BY <1>1, <1>2, <1>3, <1>4, <1>5, <1>6, <1>7, <1>8 DEF Thread

\* What the other actions have in common: they leave the threads alone, and a
\* cache that is closed, or closed now, is empty.
LEMMA LifeMoves ==
    ASSUME Inductive, UNCHANGED <<pc, window, offset, findings>>,
           Held(cache'), stop' \in BOOLEAN,
           life' \in {"new", "running", "joining", "clearing", "closed"},
           cleanup' \in {"none", "waiting", "expiring", "ended"},
           life' \in {"joining", "clearing", "closed"} => stop',
           life' = "closed" => DOMAIN cache' = {}
    PROVE  Inductive'
<1>0. TypeOK /\ ThreadsOK /\ AnswersAreDetections
    BY DEF Inductive
<1>1. TypeOK'
  <2>1. DOMAIN cache' \subseteq {Key(v) : v \in Windows}
      BY HeldDomain
  <2>2. {Key(v) : v \in Windows}' = {Key(v) : v \in Windows} /\ Entries' = Entries
      BY DEF Key, Entries, Detection
  <2> QED
      BY <1>0, <2>1, <2>2 DEF TypeOK, Held
<1>2. ClosingOK' /\ EntriesOK'
    BY DEF ClosingOK, ClosedStaysEmpty, EntriesOK, Held
<1>3. ThreadsOK' /\ AnswersAreDetections'
    BY <1>0 DEF ThreadsOK, AnswersAreDetections
<1> QED
    BY <1>1, <1>2, <1>3 DEF Inductive

LEMMA LifeInductive ==
    ASSUME Inductive, Tick \/ Owner \/ Cleanup
    PROVE  Inductive'
<1>0. /\ TypeOK /\ ClosingOK /\ Held(cache) /\ Held(Unexpired)
      /\ DOMAIN Unexpired \subseteq DOMAIN cache
    BY InductiveHeld, UnexpiredHeld DEF Inductive
<1>t. /\ life \in {"new", "running", "joining", "clearing", "closed"}
      /\ stop \in BOOLEAN /\ cleanup \in {"none", "waiting", "expiring", "ended"}
      /\ life \in {"joining", "clearing", "closed"} => stop
      /\ life = "closed" => DOMAIN cache = {}
    BY <1>0 DEF TypeOK, ClosingOK, ClosedStaysEmpty
<1>h. cache' = cache => Held(cache')
    BY <1>0 DEF Held
<1>1. CASE Tick
  <2>1. Held(cache') /\ DOMAIN cache' = DOMAIN cache
      BY <1>0, <1>1, TickHeld
  <2>2. UNCHANGED <<life, stop, cleanup, pc, window, offset, findings>>
      BY <1>1 DEF Tick
  <2> QED
      BY <1>t, <2>1, <2>2, LifeMoves
<1>2. CASE CleanupWake \/ CleanupError \/ CleanupExit
  <2>1. /\ UNCHANGED <<life, stop, cache, pc, window, offset, findings>>
        /\ cleanup' \in {"waiting", "expiring", "ended"}
      BY <1>2 DEF CleanupWake, CleanupError, CleanupExit
  <2> QED
      BY <1>t, <1>h, <2>1, LifeMoves
<1>3. CASE CleanupExpire
  <2>1. /\ UNCHANGED <<life, stop, pc, window, offset, findings>>
        /\ cleanup' = "waiting" /\ cache' = Unexpired
      BY <1>3 DEF CleanupExpire
  <2>2. Held(cache') /\ DOMAIN cache' \subseteq DOMAIN cache
      BY <1>0, <2>1
  <2> QED
      BY <1>t, <2>1, <2>2, LifeMoves
<1>4. CASE Start \/ CloseSet \/ CloseJoin
  <2>1. UNCHANGED <<cache, pc, window, offset, findings>>
      BY <1>4 DEF Start, CloseSet, CloseJoin
  <2>2. /\ life' \in {"running", "joining", "clearing"} /\ stop' \in BOOLEAN
        /\ cleanup' \in {"none", "waiting", "expiring", "ended"}
        /\ life' \in {"joining", "clearing"} => stop'
      BY <1>4, <1>t DEF Start, CloseSet, CloseJoin
  <2> QED
      BY <1>h, <2>1, <2>2, LifeMoves
<1>5. CASE CloseClear
  <2>1. /\ UNCHANGED <<stop, cleanup, pc, window, offset, findings>>
        /\ life = "clearing" /\ life' = "closed" /\ cache' = <<>>
      BY <1>5 DEF CloseClear
  <2>2. Held(cache') /\ DOMAIN cache' = {}
      BY <2>1 DEF Held
  <2> QED
      BY <1>t, <2>1, <2>2, LifeMoves
<1> QED
    BY <1>1, <1>2, <1>3, <1>4, <1>5 DEF Owner, Cleanup

LEMMA NextInductive == Inductive /\ [Next]_vars => Inductive'
<1> SUFFICES ASSUME Inductive, [Next]_vars PROVE Inductive'
    OBVIOUS
<1>1. CASE UNCHANGED vars
    BY <1>1 DEF vars, Inductive, TypeOK, ClosingOK, ClosedStaysEmpty, EntriesOK,
                ThreadsOK, AnswersAreDetections, Entries, Detection, Key
<1>2. CASE Tick \/ Owner \/ Cleanup
    BY <1>2, LifeInductive
<1>3. CASE \E t \in Threads : Thread(t)
    BY <1>3, ThreadInductive
<1> QED
    BY <1>1, <1>2, <1>3 DEF Next

\* Life of the owner, cache, and threads agree for any number of threads and
\* windows (NerFindingsCache.run, start, close and expire).
THEOREM InductiveHolds == Spec => []Inductive
BY InitInductive, NextInductive, PTL DEF Spec

-----------------------------------------------------------------------------
(***************************************************************************)
(* The properties.                                                         *)
(***************************************************************************)

\* A closed cache is empty and stays so, with any number of threads inside
\* run() when it closes (NerFindingsCache.close).
THEOREM ClosedCacheStaysEmpty == Spec => []ClosedStaysEmpty
<1>1. Inductive => ClosedStaysEmpty
    BY DEF Inductive, ClosingOK
<1> QED
    BY <1>1, InductiveHolds, PTL

\* A window is answered with what inference finds for its own text in its own
\* context, at its own offset (NerFindingsCache.run and its callers).
THEOREM AnswersAreThoseOfInference == Spec => []AnswersAreDetections
<1>1. Inductive => AnswersAreDetections
    BY DEF Inductive
<1> QED
    BY <1>1, InductiveHolds, PTL

\* No step gives an entry that is alive a later end (NerFindingsCache.run).
LEMMA StepKeepsExpiry ==
    ASSUME Inductive, [Next]_vars,
           NEW k \in DOMAIN cache, k \in DOMAIN cache', cache[k].age < Ttl
    PROVE  cache'[k].age >= cache[k].age
<1>0. /\ Held(cache)
      /\ DOMAIN Unexpired = {j \in DOMAIN cache : cache[j].age < Ttl}
      /\ \A j \in DOMAIN Unexpired : Unexpired[j] = cache[j]
    BY InductiveHeld, UnexpiredHeld
<1>1. cache[k] \in Entries /\ cache[k].age \in Nat
  <2>1. cache[k] \in Entries
      BY <1>0 DEF Held
  <2> QED
      BY <2>1, EntryFacts, BoundsAreNumbers
<1>2. k \in DOMAIN Unexpired
    BY <1>0
<1>3. cache' = cache => cache'[k].age >= cache[k].age
    BY <1>1
<1>4. cache' = Unexpired => cache'[k].age >= cache[k].age
    BY <1>0, <1>1, <1>2
<1>5. CASE Tick
  <2>1. cache'[k] = [cache[k] EXCEPT !.age = IF @ < Ttl THEN @ + 1 ELSE @]
      BY <1>5 DEF Tick
  <2>2. cache'[k].age = cache[k].age + 1
      BY <1>1, <2>1 DEF Entries
  <2> QED
      BY <1>1, <2>2
<1>6. ASSUME NEW t \in Threads, Store(t)
      PROVE  cache'[k].age >= cache[k].age
  <2>1. \/ cache' = cache
        \/ cache' = Unexpired
        \/ /\ Key(window[t]) \notin DOMAIN Unexpired
           /\ Insert(Key(window[t]), findings[t])
      BY <1>6 DEF Store
  <2>2. CASE /\ Key(window[t]) \notin DOMAIN Unexpired
             /\ Insert(Key(window[t]), findings[t])
    <3>1. k # Key(window[t])
        BY <1>2, <2>2
    <3>2. PICK kept \in SUBSET DOMAIN Unexpired :
            cache' = [j \in kept \union {Key(window[t])} |->
                        IF j = Key(window[t])
                        THEN [findings |-> findings[t], age |-> 0]
                        ELSE cache[j]]
        BY <2>2 DEF Insert
    <3>3. cache'[k] = cache[k]
        BY <3>1, <3>2
    <3> QED
        BY <1>1, <3>3
  <2> QED
      BY <1>3, <1>4, <2>1, <2>2
<1>7. ASSUME NEW t \in Threads, Thread(t), ~Store(t)
      PROVE  cache' = cache \/ cache' = Unexpired
    BY <1>7 DEF Thread, Enter, Hit, Miss, LookupError, Detect, DetectFails,
                StoreError, Convert
<1>8. ASSUME Owner \/ Cleanup
      PROVE  cache' = cache \/ cache' = Unexpired \/ cache' = <<>>
    BY <1>8 DEF Owner, Cleanup, Start, CloseSet, CloseJoin, CloseClear,
                CleanupWake, CleanupExpire, CleanupError, CleanupExit
<1>9. cache' # <<>>
    OBVIOUS
<1>10. CASE UNCHANGED vars
    BY <1>3, <1>10 DEF vars
<1> QED
    BY <1>3, <1>4, <1>5, <1>6, <1>7, <1>8, <1>9, <1>10 DEF Next

\* The time to live counts from the creation of an entry
\* (NerFindingsCache.run stores nothing that is there already).
THEOREM ExpiryIsFixed == Spec => FixedExpiry
<1>1. Inductive /\ [Next]_vars =>
        [\A k \in DOMAIN cache \intersect DOMAIN cache' :
           cache[k].age < Ttl => cache'[k].age >= cache[k].age]_vars
    BY StepKeepsExpiry
<1> QED
    BY <1>1, InductiveHolds, PTL DEF Spec, FixedExpiry

=============================================================================
