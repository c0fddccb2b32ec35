--------------------------- MODULE AdmissionProofs ---------------------------
(***************************************************************************)
(* Admission is correct for every number of requests and every limit: no   *)
(* permit is lost or made up, the counters are exact, worker threads stay  *)
(* within the limits.                                                      *)
(***************************************************************************)
EXTENDS Admission, FiniteSetTheorems, SequenceTheorems, TLAPS

\* Sets of requests are finite, with a natural number of members.
LEMMA RequestSetsFinite ==
    ASSUME NEW S \in SUBSET Requests
    PROVE  IsFiniteSet(S) /\ Cardinality(S) \in Nat
  BY FS_Subset, FS_CardinalityType, AdmissionAssumption

-----------------------------------------------------------------------------
(* The semaphore *)

\* The k first waiters are k different tasks.
LEMMA FrontCardinality ==
    ASSUME NEW q \in Seq(Requests), NEW k \in 0..Len(q),
           \A i, j \in 1..Len(q) : q[i] = q[j] => i = j
    PROVE  Cardinality({q[i] : i \in 1..k}) = k
<1> DEFINE T == {q[i] : i \in 1..k}
           f == [i \in 1..k |-> q[i]]
<1>1. f \in Bijection(1..k, T)
  BY DEF Bijection, Injection, Surjection, IsInjective
<1>2. ExistsBijection(1..k, T)
  BY <1>1 DEF ExistsBijection
<1>3. QED
  BY <1>2, FS_CountingElements

\* The loop in acquire's "finally" keeps the permits balanced, and leaves no
\* permit beside a waiter.
LEMMA WakeUpSound ==
    ASSUME NEW s, NEW H \in SUBSET Requests, NEW max \in Nat, Balanced(s, H, max)
    PROVE  /\ Sound(WakeUp(s), H, max)
           /\ Waiters(WakeUp(s)) \subseteq Waiters(s)
           /\ WakeUp(s).woken \subseteq s.woken \union Waiters(s)
<1> DEFINE k == Wakeable(s)
           front == {s.queue[i] : i \in 1..k}
           w == WakeUp(s)
<1>1. s \in [value : Nat, queue : Seq(Requests), woken : SUBSET Requests]
  BY DEF Balanced, SemaphoreOK
<1>2. k \in 0..Len(s.queue) /\ k <= s.value /\ (k = s.value \/ k = Len(s.queue))
  BY <1>1 DEF Wakeable
<1>3. /\ w.value = s.value - k
      /\ w.queue = SubSeq(s.queue, k + 1, Len(s.queue))
      /\ w.woken = s.woken \union front
      /\ w = [value |-> s.value - k, queue |-> SubSeq(s.queue, k + 1, Len(s.queue)), woken |-> s.woken \union front]
  BY DEF WakeUp
<1>4. /\ w.queue \in Seq(Requests)
      /\ Len(w.queue) = Len(s.queue) - k
      /\ \A i \in 1..Len(w.queue) : w.queue[i] = s.queue[i + k]
  <2> DEFINE q == s.queue
             n == Len(s.queue)
  <2>1. q \in Seq(Requests) /\ n \in Nat /\ n = Len(q) /\ k \in 0..n
    BY <1>1, <1>2
  <2>2. w.queue = SubSeq(q, k + 1, n)
    BY <1>3
  <2> HIDE DEF q, n, k, w
  <2>3. SubSeq(q, k + 1, n) \in Seq(Requests) /\ Len(SubSeq(q, k + 1, n)) = n - k
    BY <2>1
  <2>4. \A i \in 1..(n - k) : SubSeq(q, k + 1, n)[i] = q[i + k]
    BY <2>1
  <2>. QED
    BY <2>2, <2>3, <2>4 DEF q, n
<1>41. \A i \in 1..Len(w.queue) : i + k \in 1..Len(s.queue)
  BY <1>1, <1>2, <1>4
<1>5. front \subseteq Requests /\ s.woken \subseteq Requests
  BY <1>1, <1>2
<1>6. w \in [value : Nat, queue : Seq(Requests), woken : SUBSET Requests]
  <2>1. s.value - k \in Nat
    BY <1>1, <1>2
  <2>. QED
    BY <2>1, <1>3, <1>4, <1>5
<1>7. Cardinality(front) = k
  BY <1>1, <1>2, FrontCardinality DEF Balanced
<1>8. front \intersect s.woken = {} /\ front \intersect H = {}
  BY <1>1, <1>2 DEF Balanced, SemaphoreOK
<1>9. Cardinality(w.woken) = Cardinality(s.woken) + k
  <2>1. IsFiniteSet(front) /\ IsFiniteSet(s.woken)
        /\ Cardinality(s.woken) \in Nat
    BY <1>5, RequestSetsFinite
  <2>2. Cardinality(s.woken \union front) = Cardinality(s.woken) + Cardinality(front) - Cardinality(s.woken \intersect front)
    BY <2>1, FS_Union
  <2>3. Cardinality(s.woken \intersect front) = 0
    BY <1>8, FS_EmptySet
  <2>. QED
    BY <2>1, <2>2, <2>3, <1>7, <1>3, <1>2
<1>10. w.value + Cardinality(w.woken) + Cardinality(H) = max
  <2>1. Cardinality(s.woken) \in Nat /\ Cardinality(H) \in Nat
    BY <1>5, RequestSetsFinite
  <2>2. s.value + Cardinality(s.woken) + Cardinality(H) = max
    BY DEF Balanced, SemaphoreOK
  <2>. QED
    BY <2>1, <2>2, <1>9, <1>3, <1>2, <1>1
<1>11. \A i, j \in 1..Len(w.queue) : w.queue[i] = w.queue[j] => i = j
  <2> SUFFICES ASSUME NEW i \in 1..Len(w.queue), NEW j \in 1..Len(w.queue), w.queue[i] = w.queue[j]
               PROVE  i = j
    OBVIOUS
  <2>1. i + k \in 1..Len(s.queue) /\ j + k \in 1..Len(s.queue)
    BY <1>41
  <2>2. s.queue[i + k] = s.queue[j + k]
    BY <1>4
  <2>. QED
    BY <2>1, <2>2, <1>2 DEF Balanced, SemaphoreOK
<1>12. \A i \in 1..Len(w.queue) : w.queue[i] \notin w.woken \union H
  <2> SUFFICES ASSUME NEW i \in 1..Len(w.queue)
               PROVE  w.queue[i] \notin w.woken \union H
    OBVIOUS
  <2>1. i + k \in 1..Len(s.queue) /\ w.queue[i] = s.queue[i + k]
    BY <1>4, <1>41
  <2>2. s.queue[i + k] \notin front
    BY <2>1, <1>1, <1>2 DEF Balanced, SemaphoreOK
  <2>. QED
    BY <2>1, <2>2, <1>3 DEF Balanced, SemaphoreOK
<1>13. w.woken \intersect H = {}
  BY <1>3, <1>8 DEF Balanced, SemaphoreOK
<1>14. Passing(w)
  BY <1>1, <1>2, <1>3, <1>4 DEF Passing
<1>15. \A i \in 1..Len(w.queue) : \E j \in 1..Len(s.queue) : w.queue[i] = s.queue[j]
  <2> SUFFICES ASSUME NEW i \in 1..Len(w.queue)
               PROVE  \E j \in 1..Len(s.queue) : w.queue[i] = s.queue[j]
    OBVIOUS
  <2>1. i + k \in 1..Len(s.queue) /\ w.queue[i] = s.queue[i + k]
    BY <1>4, <1>41
  <2>. QED
    BY <2>1
<1>16. \A t \in w.woken : t \in s.woken \/ \E j \in 1..Len(s.queue) : t = s.queue[j]
  BY <1>3, <1>1, <1>2
<1>17. QED
  BY <1>6, <1>10, <1>11, <1>12, <1>13, <1>14, <1>15, <1>16 DEF Sound, Balanced, SemaphoreOK, Waiters


\* acquire() on a semaphore that is not locked.
LEMMA TakeSound ==
    ASSUME NEW s, NEW H \in SUBSET Requests, NEW max \in Nat, Sound(s, H, max),
           ~locked(s), NEW r \in Requests, r \notin H
    PROVE  /\ Sound(Take(s), H \union {r}, max)
           /\ Waiters(Take(s)) = Waiters(s)
           /\ Take(s).woken = s.woken
<1>1. s \in [value : Nat, queue : Seq(Requests), woken : SUBSET Requests]
  BY DEF Sound, Balanced, SemaphoreOK
<1>2. s.queue = <<>> /\ s.woken = {} /\ s.value # 0
  BY DEF locked
<1>3. /\ Take(s) \in [value : Nat, queue : Seq(Requests), woken : SUBSET Requests]
      /\ Take(s).value = s.value - 1
      /\ Take(s).queue = s.queue
      /\ Take(s).woken = s.woken
  BY <1>1, <1>2 DEF Take
<1>4. /\ Cardinality(H \union {r}) = Cardinality(H) + 1
      /\ Cardinality(H) \in Nat
  BY RequestSetsFinite, FS_AddElement
<1>5. Cardinality(s.woken) \in Nat
  BY <1>1, RequestSetsFinite
<1>6. s.value + Cardinality(s.woken) + Cardinality(H) = max
  BY DEF Sound, Balanced, SemaphoreOK
<1>7. Take(s).value + Cardinality(Take(s).woken) + Cardinality(H \union {r}) = max
  BY <1>1, <1>3, <1>4, <1>5, <1>6
<1>8. Len(s.queue) = 0
  BY <1>2
<1>. QED
  BY <1>2, <1>3, <1>7, <1>8 DEF Sound, Balanced, SemaphoreOK, Passing, Waiters

\* acquire() on a locked semaphore, by a task that is nowhere in it.
LEMMA JoinSound ==
    ASSUME NEW s, NEW H \in SUBSET Requests, NEW max \in Nat, Sound(s, H, max),
           locked(s), NEW r \in Requests, r \notin H, r \notin s.woken,
           r \notin Waiters(s)
    PROVE  /\ Sound(Join(s, r), H, max)
           /\ Join(s, r).woken = s.woken
           /\ Waiters(Join(s, r)) \subseteq Waiters(s) \union {r}
<1> DEFINE q == Append(s.queue, r)
<1>1. s \in [value : Nat, queue : Seq(Requests), woken : SUBSET Requests]
  BY DEF Sound, Balanced, SemaphoreOK
<1>2. /\ Join(s, r) \in [value : Nat, queue : Seq(Requests), woken : SUBSET Requests]
      /\ Join(s, r).value = s.value
      /\ Join(s, r).queue = q
      /\ Join(s, r).woken = s.woken
  <2>1. q \in Seq(Requests)
    BY <1>1
  <2>2. Join(s, r) = [value |-> s.value, queue |-> q, woken |-> s.woken]
    <3>1. Join(s, r) = [s EXCEPT !.queue = q]
      BY DEF Join
    <3> HIDE DEF q
    <3>. QED
      BY <1>1, <3>1
  <2>. QED
    BY <1>1, <2>1, <2>2
<1>3. /\ Len(q) = Len(s.queue) + 1
      /\ q[Len(q)] = r
      /\ \A i \in 1..Len(s.queue) : q[i] = s.queue[i]
  BY <1>1
<1>4. \A i \in 1..Len(q) : i \in 1..Len(s.queue) \/ i = Len(q)
  BY <1>1, <1>3
<1>5. \A i, j \in 1..Len(q) : q[i] = q[j] => i = j
  BY <1>3, <1>4 DEF Sound, Balanced, SemaphoreOK, Waiters
<1>6. \A i \in 1..Len(q) : q[i] \notin s.woken \union H
  BY <1>3, <1>4 DEF Sound, Balanced, SemaphoreOK
<1>7. s.value > 0 => s.woken # {}
  BY <1>1 DEF locked, Sound, Passing
<1>8. \A i \in 1..Len(q) : q[i] = r \/ \E j \in 1..Len(s.queue) : q[i] = s.queue[j]
  BY <1>3, <1>4
<1>. QED
  BY <1>2, <1>5, <1>6, <1>7, <1>8 DEF Sound, Balanced, SemaphoreOK, Passing, Waiters

\* release() by an owner: its permit becomes free or goes to the first waiter.
LEMMA ReleaseSound ==
    ASSUME NEW s, NEW H \in SUBSET Requests, NEW max \in Nat, Sound(s, H, max),
           NEW r \in H
    PROVE  /\ Sound(Release(s), H \ {r}, max)
           /\ Waiters(Release(s)) \subseteq Waiters(s)
           /\ Release(s).woken \subseteq s.woken \union Waiters(s)
<1>1. s \in [value : Nat, queue : Seq(Requests), woken : SUBSET Requests]
  BY DEF Sound, Balanced, SemaphoreOK
<1>2. /\ Cardinality(H \ {r}) = Cardinality(H) - 1
      /\ Cardinality(H) \in Nat
  BY RequestSetsFinite, FS_RemoveElement
<1>3. Cardinality(s.woken) \in Nat /\ IsFiniteSet(s.woken)
  BY <1>1, RequestSetsFinite
<1>4. s.value + Cardinality(s.woken) + Cardinality(H) = max
  BY DEF Sound, Balanced, SemaphoreOK
<1>5. CASE s.queue = <<>>
  <2>1. /\ Release(s) \in [value : Nat, queue : Seq(Requests), woken : SUBSET Requests]
        /\ Release(s).value = s.value + 1
        /\ Release(s).queue = s.queue
        /\ Release(s).woken = s.woken
    BY <1>1, <1>5 DEF Release
  <2>2. Release(s).value + Cardinality(Release(s).woken) + Cardinality(H \ {r}) = max
    BY <1>1, <1>2, <1>3, <1>4, <2>1
  <2>. QED
    BY <2>1, <2>2, <1>5 DEF Sound, Balanced, SemaphoreOK, Passing, Waiters
<1>6. CASE s.queue # <<>>
  <2> DEFINE h == Head(s.queue)
             q == Tail(s.queue)
  <2>1. /\ Release(s).value = s.value
        /\ Release(s).queue = q
        /\ Release(s).woken = s.woken \union {h}
        /\ Release(s) = [value |-> s.value, queue |-> q, woken |-> s.woken \union {h}]
    BY <1>1, <1>6 DEF Release
  <2>2. /\ Len(s.queue) >= 1
        /\ h = s.queue[1]
        /\ h \in Requests
        /\ q \in Seq(Requests)
        /\ Len(q) = Len(s.queue) - 1
        /\ \A i \in 1..Len(q) : q[i] = s.queue[i + 1] /\ i + 1 \in 1..Len(s.queue)
    BY <1>1, <1>6
  <2>3. 1 \in 1..Len(s.queue)
    BY <1>1, <2>2
  <2>4. h \notin s.woken /\ h \notin H
    BY <2>2, <2>3 DEF Sound, Balanced, SemaphoreOK
  <2>5. Cardinality(s.woken \union {h}) = Cardinality(s.woken) + 1
    BY <1>3, <2>4, FS_AddElement
  <2>6. Release(s).value + Cardinality(Release(s).woken) + Cardinality(H \ {r}) = max
    BY <1>1, <1>2, <1>3, <1>4, <2>1, <2>5
  <2>7. \A i, j \in 1..Len(q) : q[i] = q[j] => i = j
    <3> SUFFICES ASSUME NEW i \in 1..Len(q), NEW j \in 1..Len(q), q[i] = q[j]
                 PROVE  i = j
      OBVIOUS
    <3>1. i + 1 = j + 1
      BY <2>2 DEF Sound, Balanced, SemaphoreOK
    <3>. QED
      BY <3>1
  <2>8. \A i \in 1..Len(q) : q[i] \notin s.woken \union H /\ q[i] # h
    <3> SUFFICES ASSUME NEW i \in 1..Len(q)
                 PROVE  q[i] \notin s.woken \union H /\ q[i] # h
      OBVIOUS
    <3>1. i + 1 \in 1..Len(s.queue) /\ q[i] = s.queue[i + 1]
      BY <2>2
    <3>2. i + 1 # 1
      OBVIOUS
    <3>. QED
      BY <3>1, <3>2, <2>2, <2>3 DEF Sound, Balanced, SemaphoreOK
  <2>9. Release(s) \in [value : Nat, queue : Seq(Requests), woken : SUBSET Requests]
    BY <2>1, <2>2, <1>1
  <2>10. Passing(Release(s))
    BY <2>1 DEF Passing
  <2>11. s.woken \intersect H = {}
    BY DEF Sound, Balanced, SemaphoreOK
  <2>12. /\ \A i \in 1..Len(q) : \E j \in 1..Len(s.queue) : q[i] = s.queue[j]
         /\ \A t \in s.woken \union {h} : t \in s.woken \/ \E j \in 1..Len(s.queue) : t = s.queue[j]
    BY <2>2, <2>3
  <2>. QED
    BY <2>1, <2>4, <2>6, <2>7, <2>8, <2>9, <2>10, <2>11, <2>12 DEF Sound, Balanced, SemaphoreOK, Waiters
<1>. QED
  BY <1>5, <1>6

\* The woken task leaves acquire() and owns its permit.
LEMMA ResumeSound ==
    ASSUME NEW s, NEW H \in SUBSET Requests, NEW max \in Nat, Sound(s, H, max),
           NEW r \in s.woken
    PROVE  /\ Sound(Resume(s, r), H \union {r}, max)
           /\ Waiters(Resume(s, r)) \subseteq Waiters(s)
           /\ Resume(s, r).woken \subseteq (s.woken \ {r}) \union Waiters(s)
<1> DEFINE u == [s EXCEPT !.woken = @ \ {r}]
<1>1. s \in [value : Nat, queue : Seq(Requests), woken : SUBSET Requests]
  BY DEF Sound, Balanced, SemaphoreOK
<1>2. /\ u \in [value : Nat, queue : Seq(Requests), woken : SUBSET Requests]
      /\ u.value = s.value
      /\ u.queue = s.queue
      /\ u.woken = s.woken \ {r}
  BY <1>1
<1>3. r \in Requests /\ r \notin H
  BY <1>1 DEF Sound, Balanced, SemaphoreOK
<1>4. /\ Cardinality(H \union {r}) = Cardinality(H) + 1
      /\ Cardinality(H) \in Nat
  BY <1>3, RequestSetsFinite, FS_AddElement
<1>5. /\ Cardinality(s.woken \ {r}) = Cardinality(s.woken) - 1
      /\ Cardinality(s.woken) \in Nat
  BY <1>1, RequestSetsFinite, FS_RemoveElement
<1>6. s.value + Cardinality(s.woken) + Cardinality(H) = max
  BY DEF Sound, Balanced, SemaphoreOK
<1>7. u.value + Cardinality(u.woken) + Cardinality(H \union {r}) = max
  BY <1>1, <1>2, <1>4, <1>5, <1>6
<1>8. Balanced(u, H \union {r}, max)
  <2> HIDE DEF u
  <2>. QED
    BY <1>2, <1>7 DEF Sound, Balanced, SemaphoreOK
<1>9. Resume(s, r) = WakeUp(u)
  BY DEF Resume
<1>10. H \union {r} \in SUBSET Requests
  BY <1>3
<1> HIDE DEF u
<1>11. /\ Sound(WakeUp(u), H \union {r}, max)
       /\ Waiters(WakeUp(u)) \subseteq Waiters(u)
       /\ WakeUp(u).woken \subseteq u.woken \union Waiters(u)
  BY <1>8, <1>10, WakeUpSound
<1>. QED
  BY <1>2, <1>9, <1>11 DEF Waiters

\* The task leaves acquire() with an exception.  It is not in the queue any
\* more; if it had been woken it gives its permit back.
LEMMA AbortSound ==
    ASSUME NEW s, NEW H \in SUBSET Requests, NEW max \in Nat, Sound(s, H, max),
           NEW r \in Requests
    PROVE  /\ Sound(Abort(s, r), H, max)
           /\ Waiters(Abort(s, r)) \subseteq Waiters(s)
           /\ Abort(s, r).woken \subseteq (s.woken \ {r}) \union Waiters(s)
<1>1. s \in [value : Nat, queue : Seq(Requests), woken : SUBSET Requests]
  BY DEF Sound, Balanced, SemaphoreOK
<1>2. CASE r \in s.woken
  <2> DEFINE u == [value |-> s.value + 1, queue |-> s.queue, woken |-> s.woken \ {r}]
  <2>1. /\ u \in [value : Nat, queue : Seq(Requests), woken : SUBSET Requests]
        /\ u.value = s.value + 1
        /\ u.queue = s.queue
        /\ u.woken = s.woken \ {r}
    BY <1>1
  <2>2. /\ Cardinality(s.woken \ {r}) = Cardinality(s.woken) - 1
        /\ Cardinality(s.woken) \in Nat
    BY <1>1, <1>2, RequestSetsFinite, FS_RemoveElement
  <2>3. s.value + Cardinality(s.woken) + Cardinality(H) = max /\ Cardinality(H) \in Nat
    BY RequestSetsFinite DEF Sound, Balanced, SemaphoreOK
  <2>4. u.value + Cardinality(u.woken) + Cardinality(H) = max
    BY <1>1, <2>1, <2>2, <2>3
  <2>5. Abort(s, r) = WakeUp(u)
    BY <1>2 DEF Abort
  <2> HIDE DEF u
  <2>6. Balanced(u, H, max)
    BY <2>1, <2>4 DEF Sound, Balanced, SemaphoreOK
  <2>7. /\ Sound(WakeUp(u), H, max)
        /\ Waiters(WakeUp(u)) \subseteq Waiters(u)
        /\ WakeUp(u).woken \subseteq u.woken \union Waiters(u)
    BY <2>6, WakeUpSound
  <2>. QED
    BY <2>1, <2>5, <2>7 DEF Waiters
<1>3. CASE r \notin s.woken
  <2>1. Abort(s, r) = WakeUp(s)
    BY <1>3 DEF Abort
  <2>2. Balanced(s, H, max)
    BY DEF Sound
  <2>3. /\ Sound(WakeUp(s), H, max)
        /\ Waiters(WakeUp(s)) \subseteq Waiters(s)
        /\ WakeUp(s).woken \subseteq s.woken \union Waiters(s)
    BY <2>2, WakeUpSound
  <2>. QED
    BY <1>3, <2>1, <2>3 DEF Waiters
<1>. QED
  BY <1>2, <1>3

\* task.cancel() on a task inside acquire().
LEMMA WithdrawSound ==
    ASSUME NEW s, NEW H \in SUBSET Requests, NEW max \in Nat, Sound(s, H, max),
           NEW r \in Requests
    PROVE  /\ Sound(Withdraw(s, r), H, max)
           /\ Withdraw(s, r).woken = s.woken
           /\ Waiters(Withdraw(s, r)) \subseteq Waiters(s) \ {r}
<1> DEFINE q == Without(s.queue, r)
<1>1. s \in [value : Nat, queue : Seq(Requests), woken : SUBSET Requests]
  BY DEF Sound, Balanced, SemaphoreOK
<1>2. Withdraw(s, r) = [s EXCEPT !.queue = q]
  BY DEF Withdraw
<1>3. /\ q \in Seq(Requests)
      /\ \A i \in 1..Len(q) : q[i] # r /\ \E j \in 1..Len(s.queue) : q[i] = s.queue[j]
      /\ \A i, j \in 1..Len(q) : q[i] = q[j] => i = j
      /\ q # <<>> => s.queue # <<>>
  <2>1. CASE \E i \in 1..Len(s.queue) : s.queue[i] = r
    <3> DEFINE m == CHOOSE i \in 1..Len(s.queue) : s.queue[i] = r
    <3>1. m \in 1..Len(s.queue) /\ s.queue[m] = r
      BY <2>1
    <3>2. q = [j \in 1..(Len(s.queue) - 1) |-> IF j < m THEN s.queue[j] ELSE s.queue[j + 1]]
      BY <2>1 DEF Without
    <3> HIDE DEF m, q
    <3>3. Len(s.queue) \in Nat /\ Len(s.queue) >= 1 /\ Len(s.queue) - 1 \in Nat
      BY <1>1, <3>1
    <3>4. \A j \in 1..(Len(s.queue) - 1) : j \in 1..Len(s.queue) /\ j + 1 \in 1..Len(s.queue)
      BY <3>3
    <3>5. \A j \in 1..(Len(s.queue) - 1) : q[j] = (IF j < m THEN s.queue[j] ELSE s.queue[j + 1])
      BY <3>2
    <3>6. q \in [1..(Len(s.queue) - 1) -> Requests]
      BY <1>1, <3>2, <3>4
    <3>7. q \in Seq(Requests) /\ Len(q) = Len(s.queue) - 1
      BY <3>3, <3>6
    <3> DEFINE at(j) == IF j < m THEN j ELSE j + 1
    <3>8. \A j \in 1..Len(q) : at(j) \in 1..Len(s.queue) /\ q[j] = s.queue[at(j)] /\ at(j) # m
      BY <3>1, <3>4, <3>5, <3>7
    <3>9. \A i, j \in 1..Len(q) : at(i) = at(j) => i = j
      BY <3>1, <3>3, <3>7
    <3>10. \A i, j \in 1..Len(s.queue) : s.queue[i] = s.queue[j] => i = j
      BY DEF Sound, Balanced, SemaphoreOK
    <3> HIDE DEF at
    <3>11. \A j \in 1..Len(q) : q[j] # r
      BY <3>1, <3>8, <3>10
    <3>12. \A i, j \in 1..Len(q) : q[i] = q[j] => i = j
      BY <3>8, <3>9, <3>10
    <3>13. s.queue # <<>>
      BY <1>1, <3>3
    <3>. QED
      BY <3>7, <3>8, <3>11, <3>12, <3>13
  <2>2. CASE ~ \E i \in 1..Len(s.queue) : s.queue[i] = r
    <3>1. q = s.queue
      BY <2>2 DEF Without
    <3>. QED
      BY <3>1, <2>2, <1>1 DEF Sound, Balanced, SemaphoreOK
  <2>. QED
    BY <2>1, <2>2
<1> HIDE DEF q
<1>4. /\ Withdraw(s, r) \in [value : Nat, queue : Seq(Requests), woken : SUBSET Requests]
      /\ Withdraw(s, r).value = s.value
      /\ Withdraw(s, r).queue = q
      /\ Withdraw(s, r).woken = s.woken
  BY <1>1, <1>2, <1>3
<1>5. SemaphoreOK(Withdraw(s, r))
  BY <1>4 DEF SemaphoreOK
<1>6. Balanced(Withdraw(s, r), H, max)
  BY <1>3, <1>4, <1>5 DEF Sound, Balanced
<1>7. Passing(Withdraw(s, r))
  BY <1>3, <1>4 DEF Sound, Passing
<1>8. Waiters(Withdraw(s, r)) \subseteq Waiters(s) \ {r}
  BY <1>3, <1>4 DEF Waiters
<1>. QED
  BY <1>4, <1>6, <1>7, <1>8 DEF Sound

-----------------------------------------------------------------------------
(* One step of one request *)

\* The sets of holders and waiters after the task of r has moved: out of the
\* limiter, into its queue, into its body.
LEMMA MovedOut ==
    ASSUME ControlOK, NEW r \in Requests, NEW v, task' = [task EXCEPT ![r] = v],
           v \notin {"slotWait", "running"}
    PROVE  /\ SlotHolders' = SlotHolders \ {r}
           /\ SlotWaiters' = SlotWaiters \ {r}
           /\ StudioHolders' = StudioHolders \ {r}
  BY AdmissionAssumption DEF ControlOK, SlotHolders, SlotWaiters, StudioHolders

LEMMA MovedIntoQueue ==
    ASSUME ControlOK, NEW r \in Requests, task' = [task EXCEPT ![r] = "slotWait"]
    PROVE  /\ SlotHolders' = SlotHolders \ {r}
           /\ SlotWaiters' = SlotWaiters \union {r}
           /\ StudioHolders' = IF r \in Studio THEN StudioHolders \union {r} ELSE StudioHolders
  BY AdmissionAssumption DEF ControlOK, SlotHolders, SlotWaiters, StudioHolders

LEMMA MovedIntoBody ==
    ASSUME ControlOK, NEW r \in Requests, task' = [task EXCEPT ![r] = "running"]
    PROVE  /\ SlotHolders' = SlotHolders \union {r}
           /\ SlotWaiters' = SlotWaiters \ {r}
           /\ StudioHolders' = IF r \in Studio THEN StudioHolders \union {r} ELSE StudioHolders
  BY AdmissionAssumption DEF ControlOK, SlotHolders, SlotWaiters, StudioHolders

\* Adding to and taking from a set of requests changes its size by one.
LEMMA CountOne ==
    ASSUME NEW S \in SUBSET Requests, NEW r \in Requests
    PROVE  /\ Cardinality(S) \in Nat
           /\ r \notin S => Cardinality(S \union {r}) = Cardinality(S) + 1
           /\ r \in S => Cardinality(S \ {r}) = Cardinality(S) - 1
           /\ r \notin S => S \ {r} = S
  BY RequestSetsFinite, FS_AddElement, FS_RemoveElement

\* The sets are sets of requests.
LEMMA SetTypes ==
    /\ SlotHolders \in SUBSET Requests
    /\ SlotWaiters \in SUBSET Requests
    /\ StudioHolders \in SUBSET Requests
    /\ MaxConcurrent \in Nat
    /\ StudioMax \in Nat
    /\ MaxQueued \in Nat
  BY AdmissionAssumption DEF SlotHolders, SlotWaiters, StudioHolders

\* A step that moves no task and no semaphore keeps the invariant when it
\* keeps every live task referenced and spares the marks of awaited tasks.
LEMMA QuietStep ==
    ASSUME Inductive, ControlOK', UNCHANGED <<task, limiterVars, studio>>,
           UNCHANGED mark, NoOrphanedTask',
           \A r \in Requests : worker'[r] = "busy" => task[r] = "running"
    PROVE  Inductive'
<1>1. UNCHANGED <<SlotHolders, SlotWaiters, StudioHolders>>
  BY DEF SlotHolders, SlotWaiters, StudioHolders
<1>2. TasksMatch'
  BY DEF Inductive, TasksMatch, limiterVars
<1>. QED
  BY <1>1, <1>2 DEF Inductive, limiterVars

\* limiter.slot() entered by a task that is not in the limiter, with the Studio
\* semaphore s in order once r counts as a holder of it.
LEMMA EnterSlotInductive ==
    ASSUME Inductive, NEW r \in Requests, NEW s,
           task[r] \in {"created", "studioWait"}, mark[r] = "none",
           EnterSlot(r, s), UNCHANGED <<req, mark, backgroundVars>>,
           r \in Studio => Sound(s, StudioHolders \union {r}, StudioMax),
           r \notin Studio => Sound(s, StudioHolders, StudioMax),
           Waiters(s) \subseteq Waiters(studio),
           s.woken \subseteq (studio.woken \ {r}) \union Waiters(studio),
           r \notin Waiters(studio)
    PROVE  Inductive'
<1>1. /\ ControlOK /\ TasksMatch /\ NoOrphanedTask
      /\ Sound(slots, SlotHolders, MaxConcurrent)
      /\ queued = Cardinality(SlotWaiters) /\ queued <= MaxQueued
      /\ inFlight = Cardinality(SlotHolders)
  BY DEF Inductive
<1>2. /\ r \notin SlotHolders /\ r \notin SlotWaiters /\ r \notin StudioHolders
      /\ r \notin Waiters(slots) /\ r \notin slots.woken
  BY <1>1 DEF SlotHolders, SlotWaiters, StudioHolders, TasksMatch
<1>3. req[r] \in Waiting \/ r \in Background
  BY <1>1 DEF NoOrphanedTask, Ended
<1>4. CASE /\ MustQueue
           /\ QueueFull
           /\ task' = [task EXCEPT ![r] = "full"]
           /\ studio' = StudioReleased(r, s)
           /\ UNCHANGED <<limiterVars, worker>>
  <2>1. /\ SlotHolders' = SlotHolders
        /\ SlotWaiters' = SlotWaiters
        /\ StudioHolders' = StudioHolders
    <3>1. /\ SlotHolders' = SlotHolders \ {r}
          /\ SlotWaiters' = SlotWaiters \ {r}
          /\ StudioHolders' = StudioHolders \ {r}
      <4>1. task' = [task EXCEPT ![r] = "full"] /\ "full" \notin {"slotWait", "running"}
        BY <1>4
      <4>. QED
        BY <1>1, <4>1, MovedOut
    <3>. QED
      BY <1>2, <3>1
  <2>2. /\ Sound(studio', StudioHolders, StudioMax)
        /\ Waiters(studio') \subseteq Waiters(s)
        /\ studio'.woken \subseteq s.woken \union Waiters(s)
    <3>1. CASE r \in Studio
      <4>1. (StudioHolders \union {r}) \ {r} = StudioHolders
        BY <1>2
      <4>2. studio' = Release(s)
        BY <1>4, <3>1 DEF StudioReleased
      <4>3. StudioHolders \union {r} \in SUBSET Requests /\ StudioMax \in Nat
        BY SetTypes
      <4>4. Sound(s, StudioHolders \union {r}, StudioMax) /\ r \in StudioHolders \union {r}
        BY <3>1
      <4>5. /\ Sound(Release(s), (StudioHolders \union {r}) \ {r}, StudioMax)
            /\ Waiters(Release(s)) \subseteq Waiters(s)
            /\ Release(s).woken \subseteq s.woken \union Waiters(s)
        BY <4>3, <4>4, ReleaseSound
      <4>. QED
        BY <4>1, <4>2, <4>5
    <3>2. CASE r \notin Studio
      BY <1>4, <3>2 DEF StudioReleased
    <3>. QED
      BY <3>1, <3>2
  <2>3. ControlOK'
    BY <1>1, <1>4 DEF ControlOK, backgroundVars, TaskStates, Ended
  <2>4. TasksMatch'
    BY <1>1, <1>2, <1>4, <2>2 DEF TasksMatch, limiterVars, ControlOK
  <2>5. NoOrphanedTask'
    BY <1>1, <1>4 DEF NoOrphanedTask, backgroundVars, Background, ControlOK, Ended
  <2>. QED
    BY <1>1, <1>4, <2>1, <2>2, <2>3, <2>4, <2>5 DEF Inductive, limiterVars
<1>5. CASE /\ MustQueue
           /\ ~QueueFull
           /\ task' = [task EXCEPT ![r] = "slotWait"]
           /\ slots' = Join(slots, r)
           /\ queued' = queued + 1
           /\ studio' = s
           /\ UNCHANGED <<inFlight, worker>>
  <2>1. /\ SlotHolders' = SlotHolders
        /\ SlotWaiters' = SlotWaiters \union {r}
        /\ StudioHolders' = IF r \in Studio THEN StudioHolders \union {r} ELSE StudioHolders
    <3>1. /\ SlotHolders' = SlotHolders \ {r}
          /\ SlotWaiters' = SlotWaiters \union {r}
          /\ StudioHolders' = IF r \in Studio THEN StudioHolders \union {r} ELSE StudioHolders
      BY <1>1, <1>5, MovedIntoQueue
    <3>. QED
      BY <1>2, <3>1
  <2>2. /\ Sound(slots', SlotHolders, MaxConcurrent)
        /\ slots'.woken = slots.woken
        /\ Waiters(slots') \subseteq Waiters(slots) \union {r}
    BY <1>1, <1>2, <1>5, SetTypes, JoinSound DEF MustQueue
  <2>3. ControlOK'
    BY <1>1, <1>5 DEF ControlOK, backgroundVars, TaskStates
  <2>4. TasksMatch'
    BY <1>1, <1>2, <1>5, <2>2 DEF TasksMatch, ControlOK
  <2>5. NoOrphanedTask'
    BY <1>1, <1>3, <1>5 DEF NoOrphanedTask, backgroundVars, Background, ControlOK
  <2>6. queued' = Cardinality(SlotWaiters') /\ queued' <= MaxQueued
    <3>1. Cardinality(SlotWaiters) \in Nat /\ Cardinality(SlotWaiters \union {r}) = Cardinality(SlotWaiters) + 1
      BY <1>2, SetTypes, CountOne
    <3>. QED
      BY <1>1, <1>5, <2>1, <3>1, SetTypes DEF QueueFull
  <2>. QED
    BY <1>1, <1>5, <2>1, <2>2, <2>3, <2>4, <2>5, <2>6 DEF Inductive
<1>6. CASE /\ ~MustQueue
           /\ task' = [task EXCEPT ![r] = "running"]
           /\ worker' = [worker EXCEPT ![r] = "busy"]
           /\ slots' = Take(slots)
           /\ inFlight' = inFlight + 1
           /\ studio' = s
           /\ UNCHANGED queued
  <2>1. /\ SlotHolders' = SlotHolders \union {r}
        /\ SlotWaiters' = SlotWaiters
        /\ StudioHolders' = IF r \in Studio THEN StudioHolders \union {r} ELSE StudioHolders
    <3>1. /\ SlotHolders' = SlotHolders \union {r}
          /\ SlotWaiters' = SlotWaiters \ {r}
          /\ StudioHolders' = IF r \in Studio THEN StudioHolders \union {r} ELSE StudioHolders
      BY <1>1, <1>6, MovedIntoBody
    <3>. QED
      BY <1>2, <3>1
  <2>2. /\ Sound(slots', SlotHolders \union {r}, MaxConcurrent)
        /\ slots'.woken = slots.woken
        /\ Waiters(slots') = Waiters(slots)
    BY <1>1, <1>2, <1>6, SetTypes, TakeSound DEF MustQueue
  <2>3. ControlOK'
    BY <1>1, <1>6 DEF ControlOK, backgroundVars, TaskStates
  <2>4. TasksMatch'
    BY <1>1, <1>2, <1>6, <2>2 DEF TasksMatch, ControlOK
  <2>5. NoOrphanedTask'
    BY <1>1, <1>3, <1>6 DEF NoOrphanedTask, backgroundVars, Background, ControlOK
  <2>6. inFlight' = Cardinality(SlotHolders')
    BY <1>1, <1>2, <1>6, <2>1, SetTypes, CountOne
  <2>. QED
    BY <1>1, <1>6, <2>1, <2>2, <2>3, <2>4, <2>5, <2>6 DEF Inductive
<1>. QED
  BY <1>4, <1>5, <1>6 DEF EnterSlot

\* A task that ends: it has left both semaphores, which are in order without
\* it, and the counter of the place it was in has gone down.
LEMMA EndInductive ==
    ASSUME Inductive, NEW r \in Requests, NEW e \in Ended,
           task' = [task EXCEPT ![r] = e], worker[r] # "busy",
           UNCHANGED <<req, worker, mark, backgroundVars>>,
           Sound(slots', SlotHolders \ {r}, MaxConcurrent),
           Sound(studio', StudioHolders \ {r}, StudioMax),
           Waiters(slots') \subseteq Waiters(slots) \ {r},
           slots'.woken \subseteq (slots.woken \union Waiters(slots)) \ {r},
           Waiters(studio') \subseteq Waiters(studio) \ {r},
           studio'.woken \subseteq (studio.woken \union Waiters(studio)) \ {r},
           queued' = IF task[r] = "slotWait" THEN queued - 1 ELSE queued,
           inFlight' = IF task[r] = "running" THEN inFlight - 1 ELSE inFlight
    PROVE  Inductive'
<1>1. /\ ControlOK /\ TasksMatch /\ NoOrphanedTask
      /\ queued = Cardinality(SlotWaiters) /\ queued <= MaxQueued
      /\ inFlight = Cardinality(SlotHolders)
  BY DEF Inductive
<1>2. e \notin {"slotWait", "running"}
  BY DEF Ended
<1>3. /\ SlotHolders' = SlotHolders \ {r}
      /\ SlotWaiters' = SlotWaiters \ {r}
      /\ StudioHolders' = StudioHolders \ {r}
  BY <1>1, <1>2, MovedOut
<1>4. ControlOK'
  BY <1>1 DEF ControlOK, backgroundVars, TaskStates
<1>5. TasksMatch'
  BY <1>1, <1>2 DEF TasksMatch, ControlOK
<1>6. NoOrphanedTask'
  BY <1>1 DEF NoOrphanedTask, backgroundVars, Background, ControlOK
<1>7. /\ r \in SlotWaiters <=> task[r] = "slotWait"
      /\ r \in SlotHolders <=> task[r] = "running"
  BY DEF SlotWaiters, SlotHolders
<1>8. queued' = Cardinality(SlotWaiters') /\ queued' <= MaxQueued
  <2>1. /\ Cardinality(SlotWaiters) \in Nat
        /\ r \in SlotWaiters => Cardinality(SlotWaiters \ {r}) = Cardinality(SlotWaiters) - 1
        /\ r \notin SlotWaiters => SlotWaiters \ {r} = SlotWaiters
    BY SetTypes, CountOne
  <2>. QED
    BY <1>1, <1>3, <1>7, <2>1, SetTypes
<1>9. inFlight' = Cardinality(SlotHolders')
  <2>1. /\ Cardinality(SlotHolders) \in Nat
        /\ r \in SlotHolders => Cardinality(SlotHolders \ {r}) = Cardinality(SlotHolders) - 1
        /\ r \notin SlotHolders => SlotHolders \ {r} = SlotHolders
    BY SetTypes, CountOne
  <2>. QED
    BY <1>1, <1>3, <1>7, <2>1
<1>. QED
  BY <1>3, <1>4, <1>5, <1>6, <1>8, <1>9 DEF Inductive

\* A waiting or ended task is told to stop: it is withdrawn from the queue it
\* is in.
LEMMA MarkInductive ==
    ASSUME Inductive, NEW r \in Requests, ControlOK', NoOrphanedTask',
           task[r] # "running",
           \A x \in Requests \ {r} : mark'[x] = mark[x],
           slots' = IF task[r] = "slotWait" THEN Withdraw(slots, r) ELSE slots,
           studio' = IF task[r] = "studioWait" THEN Withdraw(studio, r) ELSE studio,
           UNCHANGED <<task, worker, queued, inFlight>>
    PROVE  Inductive'
<1>1. /\ ControlOK /\ TasksMatch
      /\ Sound(slots, SlotHolders, MaxConcurrent)
      /\ Sound(studio, StudioHolders, StudioMax)
      /\ queued = Cardinality(SlotWaiters) /\ queued <= MaxQueued
      /\ inFlight = Cardinality(SlotHolders)
  BY DEF Inductive
<1>2. UNCHANGED <<SlotHolders, SlotWaiters, StudioHolders>>
  BY DEF SlotHolders, SlotWaiters, StudioHolders
<1>3. /\ Sound(slots', SlotHolders, MaxConcurrent)
      /\ slots'.woken = slots.woken
      /\ Waiters(slots') \subseteq Waiters(slots) \ {r}
  <2>1. CASE task[r] = "slotWait"
    <3>1. /\ Sound(Withdraw(slots, r), SlotHolders, MaxConcurrent)
          /\ Withdraw(slots, r).woken = slots.woken
          /\ Waiters(Withdraw(slots, r)) \subseteq Waiters(slots) \ {r}
      BY <1>1, SetTypes, WithdrawSound
    <3>. QED
      BY <2>1, <3>1
  <2>2. CASE task[r] # "slotWait"
    BY <1>1, <2>2 DEF TasksMatch
  <2>. QED
    BY <2>1, <2>2
<1>4. /\ Sound(studio', StudioHolders, StudioMax)
      /\ studio'.woken = studio.woken
      /\ Waiters(studio') \subseteq Waiters(studio) \ {r}
  <2>1. CASE task[r] = "studioWait"
    <3>1. /\ Sound(Withdraw(studio, r), StudioHolders, StudioMax)
          /\ Withdraw(studio, r).woken = studio.woken
          /\ Waiters(Withdraw(studio, r)) \subseteq Waiters(studio) \ {r}
      BY <1>1, SetTypes, WithdrawSound
    <3>. QED
      BY <2>1, <3>1
  <2>2. CASE task[r] # "studioWait"
    BY <1>1, <2>2 DEF TasksMatch
  <2>. QED
    BY <2>1, <2>2
<1>5. TasksMatch'
  <2>1. /\ \A x \in Waiters(slots) : x \in Requests
        /\ \A x \in Waiters(studio) : x \in Requests
    BY <1>1 DEF Sound, Balanced, SemaphoreOK, Waiters
  <2>. QED
    BY <1>1, <1>3, <1>4, <2>1 DEF TasksMatch
<1>. QED
  BY <1>1, <1>2, <1>3, <1>4, <1>5 DEF Inductive

-----------------------------------------------------------------------------
(* Every action keeps the invariant *)

\* The parts of the invariant, in the form the action lemmas use.
LEMMA InductiveParts ==
    ASSUME Inductive
    PROVE  /\ ControlOK /\ TasksMatch /\ NoOrphanedTask
           /\ Sound(slots, SlotHolders, MaxConcurrent)
           /\ Sound(studio, StudioHolders, StudioMax)
           /\ queued = Cardinality(SlotWaiters) /\ queued <= MaxQueued
           /\ inFlight = Cardinality(SlotHolders)
           /\ queued \in Nat /\ inFlight \in Nat
           /\ Waiters(slots) \subseteq Requests /\ Waiters(studio) \subseteq Requests
           /\ slots.woken \subseteq Requests /\ studio.woken \subseteq Requests
           /\ Waiters(slots) \intersect slots.woken = {}
           /\ Waiters(studio) \intersect studio.woken = {}
<1>1. Cardinality(SlotWaiters) \in Nat /\ Cardinality(SlotHolders) \in Nat
  BY SetTypes, RequestSetsFinite
<1>. QED
  BY <1>1 DEF Inductive, Sound, Balanced, SemaphoreOK, Waiters

LEMMA SubmitInductive ==
    ASSUME Inductive, NEW r \in Requests, Submit(r)
    PROVE  Inductive'
<1>1. /\ ControlOK /\ TasksMatch /\ NoOrphanedTask
      /\ Sound(slots, SlotHolders, MaxConcurrent)
      /\ Sound(studio, StudioHolders, StudioMax)
      /\ queued = Cardinality(SlotWaiters) /\ queued <= MaxQueued
      /\ inFlight = Cardinality(SlotHolders)
  BY InductiveParts
<1>2. task[r] \notin {"slotWait", "running", "studioWait"} /\ task' = [task EXCEPT ![r] = "created"]
  BY DEF Submit, Ended
<1>3. /\ SlotHolders' = SlotHolders \ {r}
      /\ SlotWaiters' = SlotWaiters \ {r}
      /\ StudioHolders' = StudioHolders \ {r}
  <2>1. "created" \notin {"slotWait", "running"}
    OBVIOUS
  <2>. QED
    BY <1>1, <1>2, <2>1, MovedOut
<1>4. SlotHolders' = SlotHolders /\ SlotWaiters' = SlotWaiters /\ StudioHolders' = StudioHolders
  BY <1>2, <1>3 DEF SlotHolders, SlotWaiters, StudioHolders
<1>5. ControlOK'
  BY <1>1 DEF Submit, ControlOK, TaskStates, Waiting, backgroundVars
<1>6. TasksMatch'
  BY <1>1, <1>2 DEF Submit, TasksMatch, ControlOK, limiterVars
<1>7. NoOrphanedTask'
  BY <1>1 DEF Submit, NoOrphanedTask, ControlOK, Waiting, Background, backgroundVars
<1>. QED
  BY <1>1, <1>4, <1>5, <1>6, <1>7 DEF Inductive, Submit, limiterVars

LEMMA BeginAnalysisInductive ==
    ASSUME Inductive, NEW r \in Requests, BeginAnalysis(r)
    PROVE  Inductive'
<1>1. TasksMatch /\ Sound(studio, StudioHolders, StudioMax)
  BY InductiveParts
<1>2. /\ task[r] \in {"created", "studioWait"} /\ mark[r] = "none" /\ r \notin Studio
      /\ EnterSlot(r, studio) /\ UNCHANGED <<req, mark, backgroundVars>>
  BY DEF BeginAnalysis
<1>3. r \notin Waiters(studio) /\ r \notin studio.woken
  BY <1>1, <1>2 DEF TasksMatch
<1>4. /\ r \in Studio => Sound(studio, StudioHolders \union {r}, StudioMax)
      /\ r \notin Studio => Sound(studio, StudioHolders, StudioMax)
      /\ Waiters(studio) \subseteq Waiters(studio)
      /\ studio.woken \subseteq (studio.woken \ {r}) \union Waiters(studio)
  BY <1>1, <1>2, <1>3
<1>. QED
  BY <1>2, <1>3, <1>4, EnterSlotInductive

LEMMA BeginStudioInductive ==
    ASSUME Inductive, NEW r \in Requests, BeginStudio(r)
    PROVE  Inductive'
<1>1. /\ ControlOK /\ TasksMatch /\ NoOrphanedTask
      /\ Sound(slots, SlotHolders, MaxConcurrent)
      /\ Sound(studio, StudioHolders, StudioMax)
      /\ queued = Cardinality(SlotWaiters) /\ queued <= MaxQueued
      /\ inFlight = Cardinality(SlotHolders)
  BY InductiveParts
<1>2. /\ task[r] = "created" /\ mark[r] = "none" /\ r \in Studio
      /\ UNCHANGED <<req, mark, backgroundVars>>
  BY DEF BeginStudio
<1>3. /\ r \notin Waiters(studio) /\ r \notin studio.woken
      /\ r \notin StudioHolders /\ r \notin SlotHolders /\ r \notin SlotWaiters
      /\ r \notin Waiters(slots) /\ r \notin slots.woken
  BY <1>1, <1>2 DEF TasksMatch, StudioHolders, SlotHolders, SlotWaiters
<1>4. CASE ~locked(studio) /\ EnterSlot(r, Take(studio))
  <2>1. /\ Sound(Take(studio), StudioHolders \union {r}, StudioMax)
        /\ Waiters(Take(studio)) = Waiters(studio)
        /\ Take(studio).woken = studio.woken
    BY <1>1, <1>3, <1>4, SetTypes, TakeSound
  <2>2. /\ r \in Studio => Sound(Take(studio), StudioHolders \union {r}, StudioMax)
        /\ r \notin Studio => Sound(Take(studio), StudioHolders, StudioMax)
        /\ Waiters(Take(studio)) \subseteq Waiters(studio)
        /\ Take(studio).woken \subseteq (studio.woken \ {r}) \union Waiters(studio)
        /\ task[r] \in {"created", "studioWait"}
    BY <1>2, <1>3, <2>1
  <2>. QED
    BY <1>2, <1>3, <1>4, <2>2, EnterSlotInductive
<1>5. CASE /\ locked(studio)
           /\ task' = [task EXCEPT ![r] = "studioWait"]
           /\ studio' = Join(studio, r)
           /\ UNCHANGED <<limiterVars, worker>>
  <2>1. /\ Sound(Join(studio, r), StudioHolders, StudioMax)
        /\ Join(studio, r).woken = studio.woken
        /\ Waiters(Join(studio, r)) \subseteq Waiters(studio) \union {r}
    BY <1>1, <1>3, <1>5, SetTypes, JoinSound
  <2>2. /\ SlotHolders' = SlotHolders \ {r}
        /\ SlotWaiters' = SlotWaiters \ {r}
        /\ StudioHolders' = StudioHolders \ {r}
    <3>1. "studioWait" \notin {"slotWait", "running"}
      OBVIOUS
    <3>. QED
      BY <1>1, <1>5, <3>1, MovedOut
  <2>3. SlotHolders' = SlotHolders /\ SlotWaiters' = SlotWaiters /\ StudioHolders' = StudioHolders
    BY <1>3, <2>2
  <2>4. ControlOK'
    BY <1>1, <1>2, <1>5 DEF ControlOK, TaskStates, backgroundVars
  <2>5. TasksMatch'
    BY <1>1, <1>2, <1>3, <1>5, <2>1 DEF TasksMatch, ControlOK, limiterVars
  <2>6. NoOrphanedTask'
    BY <1>1, <1>2, <1>5 DEF NoOrphanedTask, ControlOK, Background, backgroundVars, Ended
  <2>. QED
    BY <1>1, <1>5, <2>1, <2>3, <2>4, <2>5, <2>6 DEF Inductive, limiterVars
<1>. QED
  BY <1>4, <1>5 DEF BeginStudio

LEMMA StudioGrantedInductive ==
    ASSUME Inductive, NEW r \in Requests, StudioGranted(r)
    PROVE  Inductive'
<1>1. /\ TasksMatch /\ Sound(studio, StudioHolders, StudioMax)
      /\ Waiters(studio) \intersect studio.woken = {}
  BY InductiveParts
<1>2. /\ task[r] \in {"created", "studioWait"} /\ mark[r] = "none" /\ r \in studio.woken
      /\ EnterSlot(r, Resume(studio, r)) /\ UNCHANGED <<req, mark, backgroundVars>>
  BY DEF StudioGranted
<1>3. r \in Studio /\ r \notin Waiters(studio)
  BY <1>1, <1>2 DEF TasksMatch
<1>4. /\ Sound(Resume(studio, r), StudioHolders \union {r}, StudioMax)
      /\ Waiters(Resume(studio, r)) \subseteq Waiters(studio)
      /\ Resume(studio, r).woken \subseteq (studio.woken \ {r}) \union Waiters(studio)
  BY <1>1, <1>2, SetTypes, ResumeSound
<1>5. /\ r \in Studio => Sound(Resume(studio, r), StudioHolders \union {r}, StudioMax)
      /\ r \notin Studio => Sound(Resume(studio, r), StudioHolders, StudioMax)
  BY <1>3, <1>4
<1>. QED
  BY <1>2, <1>3, <1>4, <1>5, EnterSlotInductive

LEMMA SlotGrantedInductive ==
    ASSUME Inductive, NEW r \in Requests, SlotGranted(r)
    PROVE  Inductive'
<1>1. /\ ControlOK /\ TasksMatch /\ NoOrphanedTask
      /\ Sound(slots, SlotHolders, MaxConcurrent)
      /\ Sound(studio, StudioHolders, StudioMax)
      /\ queued = Cardinality(SlotWaiters) /\ queued <= MaxQueued
      /\ inFlight = Cardinality(SlotHolders)
      /\ Waiters(slots) \intersect slots.woken = {}
  BY InductiveParts
<1>2. /\ task[r] = "slotWait" /\ mark[r] = "none" /\ r \in slots.woken
      /\ task' = [task EXCEPT ![r] = "running"]
      /\ worker' = [worker EXCEPT ![r] = "busy"]
      /\ slots' = Resume(slots, r)
      /\ queued' = queued - 1
      /\ inFlight' = inFlight + 1
      /\ UNCHANGED <<req, mark, studio, backgroundVars>>
  BY DEF SlotGranted
<1>3. /\ Sound(Resume(slots, r), SlotHolders \union {r}, MaxConcurrent)
      /\ Waiters(Resume(slots, r)) \subseteq Waiters(slots)
      /\ Resume(slots, r).woken \subseteq (slots.woken \ {r}) \union Waiters(slots)
  BY <1>1, <1>2, SetTypes, ResumeSound
<1>4. /\ SlotHolders' = SlotHolders \union {r}
      /\ SlotWaiters' = SlotWaiters \ {r}
      /\ StudioHolders' = IF r \in Studio THEN StudioHolders \union {r} ELSE StudioHolders
  BY <1>1, <1>2, MovedIntoBody
<1>5. StudioHolders' = StudioHolders
  BY <1>2, <1>4 DEF StudioHolders
<1>6. r \in SlotWaiters /\ r \notin SlotHolders
  BY <1>2 DEF SlotWaiters, SlotHolders
<1>7. queued' = Cardinality(SlotWaiters') /\ queued' <= MaxQueued
  <2>1. /\ Cardinality(SlotWaiters) \in Nat
        /\ Cardinality(SlotWaiters \ {r}) = Cardinality(SlotWaiters) - 1
    BY <1>6, SetTypes, CountOne
  <2>. QED
    BY <1>1, <1>2, <1>4, <2>1, SetTypes
<1>8. inFlight' = Cardinality(SlotHolders')
  <2>1. /\ Cardinality(SlotHolders) \in Nat
        /\ Cardinality(SlotHolders \union {r}) = Cardinality(SlotHolders) + 1
    BY <1>6, SetTypes, CountOne
  <2>. QED
    BY <1>1, <1>2, <1>4, <2>1
<1>9. ControlOK'
  BY <1>1, <1>2 DEF ControlOK, TaskStates, backgroundVars
<1>10. TasksMatch'
  BY <1>1, <1>2, <1>3 DEF TasksMatch, ControlOK
<1>11. NoOrphanedTask'
  BY <1>1, <1>2 DEF NoOrphanedTask, ControlOK, Background, backgroundVars, Ended
<1>. QED
  BY <1>1, <1>2, <1>3, <1>4, <1>5, <1>7, <1>8, <1>9, <1>10, <1>11 DEF Inductive

LEMMA BeginCancelledInductive ==
    ASSUME Inductive, NEW r \in Requests, BeginCancelled(r)
    PROVE  Inductive'
<1>1. /\ ControlOK /\ TasksMatch /\ queued \in Nat
      /\ Sound(slots, SlotHolders, MaxConcurrent)
      /\ Sound(studio, StudioHolders, StudioMax)
  BY InductiveParts
<1>2. /\ task[r] = "created" /\ task' = [task EXCEPT ![r] = "cancelled"]
      /\ UNCHANGED <<req, worker, mark, backgroundVars>>
      /\ slots' = slots /\ studio' = studio /\ queued' = queued /\ inFlight' = inFlight
  BY DEF BeginCancelled, limiterVars
<1>3. /\ r \notin SlotHolders /\ r \notin StudioHolders
      /\ r \notin Waiters(slots) /\ r \notin slots.woken
      /\ r \notin Waiters(studio) /\ r \notin studio.woken
      /\ worker[r] # "busy"
  BY <1>1, <1>2 DEF SlotHolders, StudioHolders, TasksMatch
<1>4. /\ SlotHolders \ {r} = SlotHolders /\ StudioHolders \ {r} = StudioHolders
      /\ Waiters(slots') \subseteq Waiters(slots) \ {r}
      /\ slots'.woken \subseteq (slots.woken \union Waiters(slots)) \ {r}
      /\ Waiters(studio') \subseteq Waiters(studio) \ {r}
      /\ studio'.woken \subseteq (studio.woken \union Waiters(studio)) \ {r}
      /\ queued' = IF task[r] = "slotWait" THEN queued - 1 ELSE queued
      /\ inFlight' = IF task[r] = "running" THEN inFlight - 1 ELSE inFlight
  BY <1>2, <1>3
<1>5. /\ Sound(slots', SlotHolders \ {r}, MaxConcurrent)
      /\ Sound(studio', StudioHolders \ {r}, StudioMax)
      /\ "cancelled" \in Ended
  BY <1>1, <1>2, <1>4 DEF Ended
<1>. QED
  BY <1>2, <1>3, <1>4, <1>5, EndInductive

LEMMA StudioAbortedInductive ==
    ASSUME Inductive, NEW r \in Requests, StudioAborted(r)
    PROVE  Inductive'
<1>1. /\ ControlOK /\ TasksMatch
      /\ Sound(slots, SlotHolders, MaxConcurrent)
      /\ Sound(studio, StudioHolders, StudioMax)
  BY InductiveParts
<1>2. /\ task[r] = "studioWait" /\ mark[r] # "none"
      /\ task' = [task EXCEPT ![r] = Aborted(r)] /\ Aborted(r) \in Ended
      /\ studio' = Abort(studio, r)
      /\ UNCHANGED <<req, worker, mark, backgroundVars>>
      /\ slots' = slots /\ queued' = queued /\ inFlight' = inFlight
  BY DEF StudioAborted, limiterVars, Aborted, Ended
<1>3. /\ Sound(Abort(studio, r), StudioHolders, StudioMax)
      /\ Waiters(Abort(studio, r)) \subseteq Waiters(studio)
      /\ Abort(studio, r).woken \subseteq (studio.woken \ {r}) \union Waiters(studio)
  BY <1>1, SetTypes, AbortSound
<1>4. /\ r \notin SlotHolders /\ r \notin StudioHolders
      /\ r \notin Waiters(slots) /\ r \notin slots.woken
      /\ r \notin Waiters(studio)
      /\ worker[r] # "busy"
  BY <1>1, <1>2 DEF SlotHolders, StudioHolders, TasksMatch
<1>5. /\ SlotHolders \ {r} = SlotHolders /\ StudioHolders \ {r} = StudioHolders
      /\ Waiters(slots') \subseteq Waiters(slots) \ {r}
      /\ slots'.woken \subseteq (slots.woken \union Waiters(slots)) \ {r}
      /\ Waiters(studio') \subseteq Waiters(studio) \ {r}
      /\ studio'.woken \subseteq (studio.woken \union Waiters(studio)) \ {r}
      /\ queued' = IF task[r] = "slotWait" THEN queued - 1 ELSE queued
      /\ inFlight' = IF task[r] = "running" THEN inFlight - 1 ELSE inFlight
  BY <1>2, <1>3, <1>4
<1>6. /\ Sound(slots', SlotHolders \ {r}, MaxConcurrent)
      /\ Sound(studio', StudioHolders \ {r}, StudioMax)
  BY <1>1, <1>2, <1>3, <1>5
<1>7. task' = [task EXCEPT ![r] = Aborted(r)] /\ Aborted(r) \in Ended
  BY <1>2
<1> HIDE DEF Aborted
<1>. QED
  BY <1>2, <1>4, <1>5, <1>6, <1>7, EndInductive

\* The Studio permit of a task that ends while it waits for or has a slot.
LEMMA StudioReleasedSound ==
    ASSUME Inductive, NEW r \in Requests, task[r] \in {"slotWait", "running"}
    PROVE  /\ Sound(StudioReleased(r, studio), StudioHolders \ {r}, StudioMax)
           /\ Waiters(StudioReleased(r, studio)) \subseteq Waiters(studio) \ {r}
           /\ StudioReleased(r, studio).woken \subseteq (studio.woken \union Waiters(studio)) \ {r}
<1>1. TasksMatch /\ Sound(studio, StudioHolders, StudioMax)
  BY InductiveParts
<1>2. r \notin Waiters(studio) /\ r \notin studio.woken
  BY <1>1 DEF TasksMatch
<1>3. CASE r \in Studio
  <2>1. r \in StudioHolders
    BY <1>3 DEF StudioHolders
  <2>2. /\ Sound(Release(studio), StudioHolders \ {r}, StudioMax)
        /\ Waiters(Release(studio)) \subseteq Waiters(studio)
        /\ Release(studio).woken \subseteq studio.woken \union Waiters(studio)
    BY <1>1, <2>1, SetTypes, ReleaseSound
  <2>. QED
    BY <1>2, <1>3, <2>2 DEF StudioReleased
<1>4. CASE r \notin Studio
  <2>1. StudioHolders \ {r} = StudioHolders
    BY <1>4 DEF StudioHolders
  <2>. QED
    BY <1>1, <1>2, <1>4, <2>1 DEF StudioReleased
<1>. QED
  BY <1>3, <1>4

LEMMA SlotAbortedInductive ==
    ASSUME Inductive, NEW r \in Requests, SlotAborted(r)
    PROVE  Inductive'
<1>1. /\ TasksMatch
      /\ Sound(slots, SlotHolders, MaxConcurrent)
  BY InductiveParts
<1>2. /\ task[r] = "slotWait" /\ mark[r] # "none"
      /\ task' = [task EXCEPT ![r] = Aborted(r)] /\ Aborted(r) \in Ended
      /\ slots' = Abort(slots, r)
      /\ studio' = StudioReleased(r, studio)
      /\ UNCHANGED <<req, worker, mark, backgroundVars>>
      /\ queued' = queued - 1 /\ inFlight' = inFlight
  BY DEF SlotAborted, Aborted, Ended
<1>3. /\ Sound(Abort(slots, r), SlotHolders, MaxConcurrent)
      /\ Waiters(Abort(slots, r)) \subseteq Waiters(slots)
      /\ Abort(slots, r).woken \subseteq (slots.woken \ {r}) \union Waiters(slots)
  BY <1>1, SetTypes, AbortSound
<1>4. /\ Sound(StudioReleased(r, studio), StudioHolders \ {r}, StudioMax)
      /\ Waiters(StudioReleased(r, studio)) \subseteq Waiters(studio) \ {r}
      /\ StudioReleased(r, studio).woken \subseteq (studio.woken \union Waiters(studio)) \ {r}
  BY <1>2, StudioReleasedSound
<1>5. r \notin SlotHolders /\ r \notin Waiters(slots) /\ worker[r] # "busy"
  BY <1>1, <1>2 DEF SlotHolders, TasksMatch
<1>6. /\ SlotHolders \ {r} = SlotHolders
      /\ Waiters(slots') \subseteq Waiters(slots) \ {r}
      /\ slots'.woken \subseteq (slots.woken \union Waiters(slots)) \ {r}
      /\ queued' = IF task[r] = "slotWait" THEN queued - 1 ELSE queued
      /\ inFlight' = IF task[r] = "running" THEN inFlight - 1 ELSE inFlight
  BY <1>2, <1>3, <1>5
<1>7. /\ Sound(slots', SlotHolders \ {r}, MaxConcurrent)
      /\ Sound(studio', StudioHolders \ {r}, StudioMax)
      /\ Waiters(studio') \subseteq Waiters(studio) \ {r}
      /\ studio'.woken \subseteq (studio.woken \union Waiters(studio)) \ {r}
  BY <1>2, <1>3, <1>4, <1>6
<1>. QED
  BY <1>2, <1>5, <1>6, <1>7, EndInductive

LEMMA FinishTaskInductive ==
    ASSUME Inductive, NEW r \in Requests, FinishTask(r)
    PROVE  Inductive'
<1> DEFINE e == CASE mark[r] = "cancel"  -> "cancelled"
                  [] worker[r] = "error" -> "raised"
                  [] OTHER               -> "returned"
<1>1. /\ TasksMatch
      /\ Sound(slots, SlotHolders, MaxConcurrent)
  BY InductiveParts
<1>2. /\ task[r] = "running"
      /\ worker[r] = "busy" => mark[r] = "cancel"
      /\ task' = [task EXCEPT ![r] = e]
      /\ slots' = Release(slots)
      /\ studio' = StudioReleased(r, studio)
      /\ UNCHANGED <<req, worker, mark, backgroundVars>>
      /\ queued' = queued /\ inFlight' = inFlight - 1
  BY DEF FinishTask
<1>3. e \in Ended
  BY DEF Ended
<1> HIDE DEF e
<1>4. r \in SlotHolders /\ r \notin Waiters(slots) /\ r \notin slots.woken /\ worker[r] # "busy"
  BY <1>1, <1>2 DEF SlotHolders, TasksMatch
<1>5. /\ Sound(Release(slots), SlotHolders \ {r}, MaxConcurrent)
      /\ Waiters(Release(slots)) \subseteq Waiters(slots)
      /\ Release(slots).woken \subseteq slots.woken \union Waiters(slots)
  BY <1>1, <1>4, SetTypes, ReleaseSound
<1>6. /\ Sound(StudioReleased(r, studio), StudioHolders \ {r}, StudioMax)
      /\ Waiters(StudioReleased(r, studio)) \subseteq Waiters(studio) \ {r}
      /\ StudioReleased(r, studio).woken \subseteq (studio.woken \union Waiters(studio)) \ {r}
  BY <1>2, StudioReleasedSound
<1>7. /\ Waiters(slots') \subseteq Waiters(slots) \ {r}
      /\ slots'.woken \subseteq (slots.woken \union Waiters(slots)) \ {r}
      /\ queued' = IF task[r] = "slotWait" THEN queued - 1 ELSE queued
      /\ inFlight' = IF task[r] = "running" THEN inFlight - 1 ELSE inFlight
  BY <1>2, <1>4, <1>5
<1>8. /\ Sound(slots', SlotHolders \ {r}, MaxConcurrent)
      /\ Sound(studio', StudioHolders \ {r}, StudioMax)
      /\ Waiters(studio') \subseteq Waiters(studio) \ {r}
      /\ studio'.woken \subseteq (studio.woken \union Waiters(studio)) \ {r}
  BY <1>2, <1>5, <1>6
<1>. QED
  BY <1>2, <1>3, <1>4, <1>7, <1>8, EndInductive

LEMMA QueueTimerInductive ==
    ASSUME Inductive, NEW r \in Requests, QueueTimer(r)
    PROVE  Inductive'
<1>1. ControlOK /\ NoOrphanedTask
  BY InductiveParts
<1>2. ControlOK'
  BY <1>1 DEF QueueTimer, ControlOK, backgroundVars
<1>3. NoOrphanedTask'
  BY <1>1 DEF QueueTimer, NoOrphanedTask, ControlOK, Background, backgroundVars
<1>4. /\ task[r] # "running"
      /\ \A x \in Requests \ {r} : mark'[x] = mark[x]
      /\ slots' = IF task[r] = "slotWait" THEN Withdraw(slots, r) ELSE slots
      /\ studio' = IF task[r] = "studioWait" THEN Withdraw(studio, r) ELSE studio
      /\ UNCHANGED <<task, worker, queued, inFlight>>
  BY <1>1 DEF QueueTimer, ControlOK
<1>. QED
  BY <1>2, <1>3, <1>4, MarkInductive

LEMMA CancelRequestInductive ==
    ASSUME Inductive, NEW r \in Requests, CancelRequest(r)
    PROVE  Inductive'
<1>1. ControlOK /\ NoOrphanedTask /\ TasksMatch
  BY InductiveParts
<1>2. /\ analyses' = IF r \in Evaluations THEN analyses ELSE analyses \union {r}
      /\ evaluations' = IF r \in Evaluations THEN evaluations \union {r} ELSE evaluations
      /\ req' = [req EXCEPT ![r] = "cancelled"]
      /\ UNCHANGED <<task, worker, queued, inFlight>>
  BY DEF CancelRequest, RetainBackground
<1>3. Background \subseteq Background' /\ r \in Background'
  BY <1>2 DEF Background
<1>4. req' \in [Requests -> Waiting \union Answers \union {"idle"}] /\ analyses' \subseteq Requests /\ evaluations' \subseteq Requests
  BY <1>1, <1>2 DEF ControlOK, Answers
<1>5. CASE Started(r) /\ UNCHANGED <<mark, slots, studio>>
  <2>1. ControlOK'
    BY <1>1, <1>2, <1>4, <1>5 DEF ControlOK
  <2>2. NoOrphanedTask'
    BY <1>1, <1>2, <1>3, <1>5 DEF NoOrphanedTask, ControlOK, Waiting
  <2>. QED
    BY <1>1, <1>2, <1>5, <2>1, <2>2, QuietStep DEF limiterVars, TasksMatch
<1>6. CASE ~Started(r) /\ CancelTask(r)
  <2>1. mark' \in [Requests -> {"none", "timeout", "cancel"}] /\ \A x \in Requests \ {r} : mark'[x] = mark[x]
    BY <1>1, <1>6 DEF CancelTask, ControlOK
  <2>2. ControlOK'
    BY <1>1, <1>2, <1>4, <2>1 DEF ControlOK
  <2>3. NoOrphanedTask'
    BY <1>1, <1>2, <1>3, <2>1 DEF NoOrphanedTask, ControlOK, Waiting
  <2>4. /\ task[r] # "running"
        /\ slots' = IF task[r] = "slotWait" THEN Withdraw(slots, r) ELSE slots
        /\ studio' = IF task[r] = "studioWait" THEN Withdraw(studio, r) ELSE studio
    BY <1>6 DEF CancelTask, Started
  <2>. QED
    BY <1>2, <2>1, <2>2, <2>3, <2>4, MarkInductive
<1>. QED
  BY <1>5, <1>6 DEF CancelRequest

\* The steps that touch neither a task nor a semaphore.
LEMMA RequestSideInductive ==
    ASSUME Inductive, NEW r \in Requests,
           \/ WorkerExits(r) \/ ObserveStart(r) \/ TakeResult(r)
           \/ DeadlineFires(r) \/ BackgroundDone(r)
    PROVE  Inductive'
<1>1. ControlOK /\ NoOrphanedTask /\ TasksMatch
  BY InductiveParts
<1>2. \A x \in Requests : worker[x] = "busy" => task[x] = "running"
  BY <1>1 DEF TasksMatch
<1>3. CASE WorkerExits(r)
  <2>1. PICK end \in {"ok", "error"} : worker' = [worker EXCEPT ![r] = end]
    BY <1>3 DEF WorkerExits
  <2>2. UNCHANGED <<req, task, mark, limiterVars, studio, backgroundVars>>
    BY <1>3 DEF WorkerExits
  <2>3. ControlOK'
    BY <1>1, <2>1, <2>2 DEF ControlOK, backgroundVars
  <2>4. NoOrphanedTask'
    BY <1>1, <2>2 DEF NoOrphanedTask, Background, backgroundVars
  <2>5. \A x \in Requests : worker'[x] = "busy" => task[x] = "running"
    BY <1>1, <1>2, <2>1 DEF ControlOK
  <2>. QED
    BY <2>2, <2>3, <2>4, <2>5, QuietStep
<1>4. CASE ObserveStart(r)
  <2>1. /\ req' = [req EXCEPT ![r] = "guarded"] /\ req[r] = "awaiting"
        /\ UNCHANGED <<task, worker, mark, limiterVars, studio, backgroundVars>>
    BY <1>4 DEF ObserveStart
  <2>2. ControlOK'
    BY <1>1, <2>1 DEF ControlOK, Waiting, backgroundVars
  <2>3. NoOrphanedTask'
    BY <1>1, <2>1 DEF ControlOK, NoOrphanedTask, Waiting, Background, backgroundVars
  <2>. QED
    BY <1>2, <2>1, <2>2, <2>3, QuietStep
<1>5. CASE TakeResult(r)
  <2> DEFINE a == CASE task[r] = "returned" -> "served"
                    [] task[r] = "raised"   -> "failed"
                    [] OTHER                -> "rejected"
  <2>1. /\ req' = [req EXCEPT ![r] = a] /\ task[r] \in Ended
        /\ UNCHANGED <<task, worker, mark, limiterVars, studio, backgroundVars>>
    BY <1>5 DEF TakeResult
  <2>2. a \in Answers
    BY DEF Answers
  <2> HIDE DEF a
  <2>3. ControlOK'
    BY <1>1, <2>1, <2>2 DEF ControlOK, backgroundVars
  <2>4. a \notin Waiting
    BY <2>2 DEF Answers, Waiting
  <2>5. NoOrphanedTask'
    BY <1>1, <2>1, <2>4 DEF ControlOK, NoOrphanedTask, Background, backgroundVars
  <2>. QED
    BY <1>2, <2>1, <2>3, <2>5, QuietStep
<1>6. CASE DeadlineFires(r)
  <2>1. /\ req' = [req EXCEPT ![r] = "timeout"]
        /\ analyses' = IF r \in Evaluations THEN analyses ELSE analyses \union {r}
        /\ evaluations' = IF r \in Evaluations THEN evaluations \union {r} ELSE evaluations
        /\ UNCHANGED <<task, worker, mark, limiterVars, studio>>
    BY <1>6 DEF DeadlineFires, RetainBackground
  <2>2. Background \subseteq Background' /\ r \in Background'
    BY <2>1 DEF Background
  <2>3. ControlOK'
    BY <1>1, <2>1 DEF ControlOK, Answers
  <2>4. NoOrphanedTask'
    BY <1>1, <2>1, <2>2 DEF ControlOK, NoOrphanedTask, Waiting
  <2>. QED
    BY <1>2, <2>1, <2>3, <2>4, QuietStep
<1>7. CASE BackgroundDone(r)
  <2>1. /\ task[r] \in Ended
        /\ analyses' = analyses \ {r} /\ evaluations' = evaluations \ {r}
        /\ UNCHANGED <<req, task, worker, mark, limiterVars, studio>>
    BY <1>7 DEF BackgroundDone
  <2>2. Background \subseteq Background' \union {r}
    BY <2>1 DEF Background
  <2>3. ControlOK'
    BY <1>1, <2>1 DEF ControlOK
  <2>4. NoOrphanedTask'
    BY <1>1, <2>1, <2>2 DEF NoOrphanedTask
  <2>. QED
    BY <1>2, <2>1, <2>3, <2>4, QuietStep
<1>. QED
  BY <1>3, <1>4, <1>5, <1>6, <1>7

-----------------------------------------------------------------------------
(* The theorems *)

LEMMA InitInductive == Init => Inductive
<1> SUFFICES ASSUME Init PROVE Inductive
  OBVIOUS
<1>1. ControlOK
  BY DEF Init, ControlOK, TaskStates
<1>2. SlotHolders = {} /\ SlotWaiters = {} /\ StudioHolders = {}
  BY AdmissionAssumption DEF Init, SlotHolders, SlotWaiters, StudioHolders
<1>3. Cardinality({}) = 0
  BY FS_EmptySet
<1>4. /\ slots = [value |-> MaxConcurrent, queue |-> <<>>, woken |-> {}]
      /\ studio = [value |-> StudioMax, queue |-> <<>>, woken |-> {}]
  BY DEF Init, Semaphore
<1>5. /\ Sound(slots, {}, MaxConcurrent)
      /\ Sound(studio, {}, StudioMax)
      /\ Waiters(slots) = {} /\ Waiters(studio) = {}
      /\ slots.woken = {} /\ studio.woken = {}
  BY <1>3, <1>4, AdmissionAssumption DEF Sound, Balanced, SemaphoreOK, Passing, Waiters
<1>6. TasksMatch
  BY <1>5 DEF Init, TasksMatch
<1>7. NoOrphanedTask
  BY DEF Init, NoOrphanedTask, Waiting
<1>. QED
  BY <1>1, <1>2, <1>3, <1>5, <1>6, <1>7, AdmissionAssumption DEF Init, Inductive

LEMMA NextInductive == Inductive /\ [Next]_vars => Inductive'
<1> SUFFICES ASSUME Inductive, [Next]_vars PROVE Inductive'
  OBVIOUS
<1>1. CASE UNCHANGED vars
  <2>1. ControlOK' /\ NoOrphanedTask'
    BY <1>1 DEF vars, Inductive, ControlOK, NoOrphanedTask, Background
  <2>2. \A r \in Requests : worker'[r] = "busy" => task[r] = "running"
    BY <1>1 DEF vars, Inductive, TasksMatch
  <2>. QED
    BY <1>1, <2>1, <2>2, QuietStep DEF vars, limiterVars
<1>2. CASE Next
  <2>1. PICK r \in Requests :
            \/ AnalyzeSegments(r)
            \/ EvaluateSegmentsPolicy(r)
            \/ TaskStep(r)
            \/ QueueTimer(r)
            \/ WorkerExits(r)
            \/ RequestStep(r)
            \/ DeadlineFires(r)
            \/ CancelRequest(r)
            \/ BackgroundDone(r)
    BY <1>2 DEF Next
  <2>2. CASE AnalyzeSegments(r) \/ EvaluateSegmentsPolicy(r)
    BY <2>2, SubmitInductive DEF AnalyzeSegments, EvaluateSegmentsPolicy
  <2>3. CASE TaskStep(r)
    BY <2>3, BeginAnalysisInductive, BeginStudioInductive, BeginCancelledInductive,
       StudioGrantedInductive, StudioAbortedInductive, SlotGrantedInductive,
       SlotAbortedInductive, FinishTaskInductive DEF TaskStep
  <2>4. CASE QueueTimer(r)
    BY <2>4, QueueTimerInductive
  <2>5. CASE CancelRequest(r)
    BY <2>5, CancelRequestInductive
  <2>6. CASE WorkerExits(r) \/ RequestStep(r) \/ DeadlineFires(r) \/ BackgroundDone(r)
    BY <2>6, RequestSideInductive DEF RequestStep
  <2>. QED
    BY <2>1, <2>2, <2>3, <2>4, <2>5, <2>6
<1>. QED
  BY <1>1, <1>2

\* The inductive invariant holds in every behaviour of the runtime.
THEOREM InductiveHolds == Spec => []Inductive
  BY InitInductive, NextInductive, PTL DEF Spec

\* Type correctness: no counter of the limiter or of a semaphore falls below
\* zero and no task is in two places of a semaphore, for any limits.
THEOREM TypeCorrect == Spec => []TypeOK
<1>1. Inductive => TypeOK
  <2> SUFFICES ASSUME Inductive PROVE TypeOK
    OBVIOUS
  <2>1. queued \in Nat /\ inFlight \in Nat
    BY InductiveParts
  <2>. QED
    BY <2>1 DEF Inductive, TypeOK, Sound, Balanced
<1>. QED
  BY <1>1, InductiveHolds, PTL

\* No permit of either semaphore is lost or made up, for any number of
\* requests and any limits.
THEOREM PermitsAreConserved == Spec => []PermitsConserved
<1>1. Inductive => PermitsConserved
  BY DEF Inductive, Sound, Balanced, PermitsConserved
<1>. QED
  BY <1>1, InductiveHolds, PTL

\* The counters on which slot() decides are exact and within their limits.
THEOREM CountersAreExact == Spec => []CountersExact
<1>1. Inductive => CountersExact
  <2> SUFFICES ASSUME Inductive PROVE CountersExact
    OBVIOUS
  <2>1. /\ slots.value \in Nat /\ slots.woken \in SUBSET Requests
        /\ slots.value + Cardinality(slots.woken) + Cardinality(SlotHolders) = MaxConcurrent
    BY DEF Inductive, Sound, Balanced, SemaphoreOK
  <2>2. Cardinality(slots.woken) \in Nat /\ Cardinality(SlotHolders) \in Nat
    BY <2>1, SetTypes, RequestSetsFinite
  <2>3. Cardinality(SlotHolders) <= MaxConcurrent
    BY <2>1, <2>2, SetTypes
  <2>. QED
    BY <2>3 DEF Inductive, CountersExact
<1>. QED
  BY <1>1, InductiveHolds, PTL

\* A free permit beside a waiter is always on its way: no lost wake-up.
THEOREM PermitsAreNeverStranded == Spec => []NoStrandedPermit
<1>1. Inductive => NoStrandedPermit
  BY DEF Inductive, Sound, NoStrandedPermit
<1>. QED
  BY <1>1, InductiveHolds, PTL

\* A task that can still run is referenced by its request or retained.
THEOREM TasksAreNeverOrphaned == Spec => []NoOrphanedTask
<1>1. Inductive => NoOrphanedTask
  BY DEF Inductive
<1>. QED
  BY <1>1, InductiveHolds, PTL

\* Worker threads, abandoned ones included, stay within both limits.
THEOREM WorkersAreBounded == Spec => []WorkersBounded
<1>1. Inductive => WorkersBounded
  <2> SUFFICES ASSUME Inductive PROVE WorkersBounded
    OBVIOUS
  <2> DEFINE B == {r \in Requests : worker[r] = "busy"}
             S == {r \in Studio : worker[r] = "busy"}
  <2>1. B \subseteq SlotHolders /\ S \subseteq StudioHolders
    BY AdmissionAssumption DEF Inductive, TasksMatch, SlotHolders, StudioHolders
  <2>2. /\ slots.value \in Nat /\ slots.woken \in SUBSET Requests
        /\ slots.value + Cardinality(slots.woken) + Cardinality(SlotHolders) = MaxConcurrent
        /\ studio.value \in Nat /\ studio.woken \in SUBSET Requests
        /\ studio.value + Cardinality(studio.woken) + Cardinality(StudioHolders) = StudioMax
    BY DEF Inductive, Sound, Balanced, SemaphoreOK
  <2>3. /\ Cardinality(slots.woken) \in Nat /\ Cardinality(studio.woken) \in Nat
        /\ IsFiniteSet(SlotHolders) /\ Cardinality(SlotHolders) \in Nat
        /\ IsFiniteSet(StudioHolders) /\ Cardinality(StudioHolders) \in Nat
    BY <2>2, SetTypes, RequestSetsFinite
  <2>4. /\ Cardinality(B) <= Cardinality(SlotHolders) /\ Cardinality(B) \in Nat
        /\ Cardinality(S) <= Cardinality(StudioHolders) /\ Cardinality(S) \in Nat
    BY <2>1, <2>3, FS_Subset, FS_CardinalityType
  <2> HIDE DEF B, S
  <2>5. Cardinality(B) <= MaxConcurrent /\ Cardinality(S) <= StudioMax
    BY <2>2, <2>3, <2>4, SetTypes
  <2>. QED
    BY <2>5 DEF WorkersBounded, B, S
<1>. QED
  BY <1>1, InductiveHolds, PTL

-----------------------------------------------------------------------------
(* Both semaphores implement a first-come-first-served capacity *)

\* The steps of Capacity, as relations between the holders and the line before
\* (h, q) and after (g, p).
EnterStep(C, max, h, q, g, p) ==
    \E c \in C :
        /\ c \notin h
        /\ q = <<>>
        /\ Cardinality(h) < max
        /\ g = h \union {c}
        /\ p = q

JoinStep(C, maxLine, h, q, g, p) ==
    \E c \in C :
        /\ c \notin h \union {q[i] : i \in 1..Len(q)}
        /\ Len(q) < maxLine
        /\ p = Append(q, c)
        /\ g = h

AbandonStep(C, h, q, g, p) ==
    \E c \in C : \E i \in 1..Len(q) :
        /\ q[i] = c
        /\ p = SubSeq(q, 1, i - 1) \o SubSeq(q, i + 1, Len(q))
        /\ g = h

LeaveStep(max, h, q, g, p) ==
    \E leaving \in SUBSET h : \E k \in 0..Len(q) :
        /\ Cardinality(leaving) <= 1
        /\ g = (h \ leaving) \union {q[i] : i \in 1..k}
        /\ Cardinality(g) <= max
        /\ p = SubSeq(q, k + 1, Len(q))

CapacityStep(C, max, maxLine, h, q, g, p) ==
    \/ EnterStep(C, max, h, q, g, p)
    \/ JoinStep(C, maxLine, h, q, g, p)
    \/ AbandonStep(C, h, q, g, p)
    \/ LeaveStep(max, h, q, g, p)
    \/ g = h /\ p = q

\* Cardinality means the same in the capacities as here.
LEMMA SameCardinality ==
    ASSUME NEW S
    PROVE  /\ SharedSlots!Cardinality(S) = Cardinality(S)
           /\ StudioPermits!Cardinality(S) = Cardinality(S)
  BY DEF Cardinality, SharedSlots!Cardinality, StudioPermits!Cardinality

\* Such a step of what the limiter's semaphore and the tasks own is a step of
\* the capacity it implements.
LEMMA SharedSlotsStep ==
    ASSUME CapacityStep(Requests, MaxConcurrent, MaxQueued,
                        SlotHolders \union slots.woken, slots.queue,
                        SlotHolders' \union slots'.woken, slots'.queue)
    PROVE  [SharedSlots!Next]_(SharedSlots!capacityVars)
<1> DEFINE h == SlotHolders \union slots.woken
           g == SlotHolders' \union slots'.woken
<1>1. CASE EnterStep(Requests, MaxConcurrent, h, slots.queue, g, slots'.queue)
  <2>1. PICK c \in Requests : SharedSlots!Enter(c)
    BY <1>1, SameCardinality DEF EnterStep, SharedSlots!Enter
  <2>. QED
    BY <2>1 DEF SharedSlots!Next
<1>2. CASE JoinStep(Requests, MaxQueued, h, slots.queue, g, slots'.queue)
  <2>1. PICK c \in Requests : SharedSlots!Join(c)
    BY <1>2 DEF JoinStep, SharedSlots!Join, SharedSlots!InLine
  <2>. QED
    BY <2>1 DEF SharedSlots!Next
<1>3. CASE AbandonStep(Requests, h, slots.queue, g, slots'.queue)
  <2>1. PICK c \in Requests : SharedSlots!Abandon(c)
    BY <1>3 DEF AbandonStep, SharedSlots!Abandon
  <2>. QED
    BY <2>1 DEF SharedSlots!Next
<1>4. CASE LeaveStep(MaxConcurrent, h, slots.queue, g, slots'.queue)
  <2>1. SharedSlots!Leave
    BY <1>4, SameCardinality DEF LeaveStep, SharedSlots!Leave, SharedSlots!Advance, SharedSlots!Front
  <2>. QED
    BY <2>1 DEF SharedSlots!Next
<1>5. CASE g = h /\ slots'.queue = slots.queue
  BY <1>5 DEF SharedSlots!capacityVars
<1>. QED
  BY <1>1, <1>2, <1>3, <1>4, <1>5 DEF CapacityStep

LEMMA StudioPermitsStep ==
    ASSUME CapacityStep(Studio, StudioMax, Cardinality(Studio),
                        StudioHolders \union studio.woken, studio.queue,
                        StudioHolders' \union studio'.woken, studio'.queue)
    PROVE  [StudioPermits!Next]_(StudioPermits!capacityVars)
<1> DEFINE h == StudioHolders \union studio.woken
           g == StudioHolders' \union studio'.woken
<1>1. CASE EnterStep(Studio, StudioMax, h, studio.queue, g, studio'.queue)
  <2>1. PICK c \in Studio : StudioPermits!Enter(c)
    BY <1>1, SameCardinality DEF EnterStep, StudioPermits!Enter
  <2>. QED
    BY <2>1 DEF StudioPermits!Next
<1>2. CASE JoinStep(Studio, Cardinality(Studio), h, studio.queue, g, studio'.queue)
  <2>1. PICK c \in Studio : StudioPermits!Join(c)
    BY <1>2 DEF JoinStep, StudioPermits!Join, StudioPermits!InLine
  <2>. QED
    BY <2>1 DEF StudioPermits!Next
<1>3. CASE AbandonStep(Studio, h, studio.queue, g, studio'.queue)
  <2>1. PICK c \in Studio : StudioPermits!Abandon(c)
    BY <1>3 DEF AbandonStep, StudioPermits!Abandon
  <2>. QED
    BY <2>1 DEF StudioPermits!Next
<1>4. CASE LeaveStep(StudioMax, h, studio.queue, g, studio'.queue)
  <2>1. StudioPermits!Leave
    BY <1>4, SameCardinality DEF LeaveStep, StudioPermits!Leave, StudioPermits!Advance, StudioPermits!Front
  <2>. QED
    BY <2>1 DEF StudioPermits!Next
<1>5. CASE g = h /\ studio'.queue = studio.queue
  BY <1>5 DEF StudioPermits!capacityVars
<1>. QED
  BY <1>1, <1>2, <1>3, <1>4, <1>5 DEF CapacityStep

\* The owners of a sound semaphore, those that were only just woken included,
\* are as many as it has given permits.
LEMMA HoldersCount ==
    ASSUME NEW s, NEW H \in SUBSET Requests, NEW max \in Nat, Sound(s, H, max)
    PROVE  /\ s.value \in Nat
           /\ Cardinality(H \union s.woken) = max - s.value
           /\ Cardinality(H \union s.woken) <= max
<1>1. /\ s.value \in Nat /\ s.woken \in SUBSET Requests
      /\ H \intersect s.woken = {}
      /\ s.value + Cardinality(s.woken) + Cardinality(H) = max
  BY DEF Sound, Balanced, SemaphoreOK
<1>2. /\ IsFiniteSet(H) /\ Cardinality(H) \in Nat
      /\ IsFiniteSet(s.woken) /\ Cardinality(s.woken) \in Nat
  BY <1>1, RequestSetsFinite
<1>3. Cardinality(H \union s.woken) = Cardinality(H) + Cardinality(s.woken) - Cardinality(H \intersect s.woken)
  BY <1>2, FS_Union
<1>4. Cardinality(H \intersect s.woken) = 0
  BY <1>1, FS_EmptySet
<1>. QED
  BY <1>1, <1>2, <1>3, <1>4

\* acquire() on a semaphore that is not locked enters the capacity.
LEMMA TakeEnters ==
    ASSUME NEW s, NEW H \in SUBSET Requests, NEW max \in Nat, Sound(s, H, max),
           ~locked(s), NEW C, NEW r \in C, r \notin H
    PROVE  EnterStep(C, max, H \union s.woken, s.queue,
                     (H \union {r}) \union Take(s).woken, Take(s).queue)
<1>1. s \in [value : Nat, queue : Seq(Requests), woken : SUBSET Requests]
  BY DEF Sound, Balanced, SemaphoreOK
<1>2. s.queue = <<>> /\ s.woken = {} /\ s.value # 0
  BY DEF locked
<1>3. Take(s).queue = s.queue /\ Take(s).woken = s.woken
  BY <1>1 DEF Take
<1>4. Cardinality(H \union s.woken) < max
  <2>1. s.value \in Nat /\ Cardinality(H \union s.woken) = max - s.value
    BY HoldersCount
  <2>. QED
    BY <1>2, <2>1
<1>5. r \notin H \union s.woken
  BY <1>2
<1>6. (H \union {r}) \union Take(s).woken = (H \union s.woken) \union {r}
  BY <1>3
<1>. QED
  BY <1>2, <1>3, <1>4, <1>5, <1>6 DEF EnterStep

\* acquire() on a locked semaphore joins the line.
LEMMA JoinJoins ==
    ASSUME NEW s, NEW H \in SUBSET Requests, SemaphoreOK(s), NEW C, NEW r \in C, NEW maxLine,
           r \notin H, r \notin s.woken, r \notin Waiters(s), Len(s.queue) < maxLine
    PROVE  JoinStep(C, maxLine, H \union s.woken, s.queue,
                    H \union Join(s, r).woken, Join(s, r).queue)
<1>1. Join(s, r).queue = Append(s.queue, r) /\ Join(s, r).woken = s.woken
  BY DEF Join, SemaphoreOK
<1>2. r \notin (H \union s.woken) \union {s.queue[i] : i \in 1..Len(s.queue)}
  BY DEF Waiters
<1>. QED
  BY <1>1, <1>2 DEF JoinStep

\* task.cancel() inside acquire() gives the place in the line up, or finds it
\* given up already: the others keep their order.
LEMMA WithdrawAbandons ==
    ASSUME NEW s, NEW H \in SUBSET Requests, SemaphoreOK(s), NEW C, NEW r \in C
    PROVE  \/ AbandonStep(C, H \union s.woken, s.queue,
                          H \union Withdraw(s, r).woken, Withdraw(s, r).queue)
           \/ /\ H \union Withdraw(s, r).woken = H \union s.woken
              /\ Withdraw(s, r).queue = s.queue
<1> DEFINE q == s.queue
           w == Without(q, r)
<1>1. s \in [value : Nat, queue : Seq(Requests), woken : SUBSET Requests]
  BY DEF SemaphoreOK
<1>2. Withdraw(s, r).queue = w /\ Withdraw(s, r).woken = s.woken
  BY <1>1 DEF Withdraw
<1>3. CASE \E i \in 1..Len(q) : q[i] = r
  <2> DEFINE m == CHOOSE i \in 1..Len(q) : q[i] = r
             a == SubSeq(q, 1, m - 1)
             b == SubSeq(q, m + 1, Len(q))
             p == a \o b
  <2>1. m \in 1..Len(q) /\ q[m] = r
    BY <1>3
  <2>2. w = [j \in 1..(Len(q) - 1) |-> IF j < m THEN q[j] ELSE q[j + 1]]
    BY <1>3 DEF Without
  <2>3. q \in Seq(Requests) /\ Len(q) \in Nat
    BY <1>1
  <2> HIDE DEF q, w, m
  <2>4. /\ a \in Seq(Requests) /\ Len(a) = m - 1
        /\ \A j \in 1..(m - 1) : a[j] = q[j]
    BY <2>1, <2>3
  <2>5. /\ b \in Seq(Requests) /\ Len(b) = Len(q) - m
        /\ \A j \in 1..(Len(q) - m) : b[j] = q[m + j]
    BY <2>1, <2>3
  <2> HIDE DEF a, b
  <2>6. /\ p \in Seq(Requests) /\ Len(p) = Len(a) + Len(b)
        /\ \A j \in 1..(Len(a) + Len(b)) : p[j] = IF j <= Len(a) THEN a[j] ELSE b[j - Len(a)]
    BY <2>4, <2>5, ConcatProperties
  <2> HIDE DEF p
  <2>7. Len(p) = Len(q) - 1 /\ \A j \in 1..(Len(q) - 1) : p[j] = (IF j < m THEN q[j] ELSE q[j + 1])
    <3>1. m \in Nat /\ Len(a) + Len(b) = Len(q) - 1
      BY <2>1, <2>3, <2>4, <2>5
    <3> SUFFICES ASSUME NEW j \in 1..(Len(q) - 1)
                 PROVE  p[j] = (IF j < m THEN q[j] ELSE q[j + 1])
      BY <2>6, <3>1
    <3>2. p[j] = IF j <= m - 1 THEN a[j] ELSE b[j - (m - 1)]
      BY <2>4, <2>6, <3>1
    <3>3. CASE j < m
      BY <3>1, <3>2, <3>3, <2>4
    <3>4. CASE ~ (j < m)
      <4>1. j - (m - 1) \in 1..(Len(q) - m) /\ m + (j - (m - 1)) = j + 1
        BY <3>4, <2>1, <2>3
      <4>. QED
        BY <4>1, <3>1, <3>2, <3>4, <2>5
    <3>. QED
      BY <3>3, <3>4
  <2>8. w \in Seq(Requests) /\ Len(w) = Len(q) - 1
    <3>1. \A j \in 1..(Len(q) - 1) : (IF j < m THEN q[j] ELSE q[j + 1]) \in Requests
      BY <2>1, <2>3
    <3>2. w \in [1..(Len(q) - 1) -> Requests] /\ Len(q) - 1 \in Nat
      BY <3>1, <2>1, <2>2, <2>3
    <3>. QED
      BY <3>2
  <2>9. \A j \in 1..(Len(q) - 1) : w[j] = p[j]
    BY <2>2, <2>7
  <2>10. w = p
    BY <2>6, <2>7, <2>8, <2>9, SeqEqual
  <2>. QED
    BY <1>2, <2>1, <2>10 DEF AbandonStep, q, p, a, b
<1>4. CASE ~ \E i \in 1..Len(q) : q[i] = r
  BY <1>2, <1>4 DEF Without
<1>. QED
  BY <1>3, <1>4

\* At most one task leaves.
LEMMA OneLeaves == (\A r : Cardinality({r}) <= 1) /\ Cardinality({}) <= 1
<1>1. ASSUME NEW r PROVE Cardinality({r}) <= 1
  <2>1. Cardinality({r}) = 1
    BY FS_Singleton
  <2>. QED
    BY <2>1
<1>2. Cardinality({}) <= 1
  BY FS_EmptySet
<1>. QED
  BY <1>1, <1>2, Zenon

\* What the loop of acquire's "finally" does to the queue and the woken tasks.
LEMMA WakeUpMovesUp ==
    ASSUME NEW s
    PROVE  /\ WakeUp(s).queue = SubSeq(s.queue, Wakeable(s) + 1, Len(s.queue))
           /\ WakeUp(s).woken = s.woken \union {s.queue[i] : i \in 1..Wakeable(s)}
  BY DEF WakeUp

LEMMA WakeableInQueue ==
    ASSUME NEW s, SemaphoreOK(s)
    PROVE  Wakeable(s) \in 0..Len(s.queue)
  BY DEF SemaphoreOK, Wakeable

\* release() by an owner: it leaves, and the first of the line moves up.
LEMMA ReleaseLeaves ==
    ASSUME NEW s, NEW H \in SUBSET Requests, NEW max \in Nat, Sound(s, H, max),
           NEW r \in H
    PROVE  LeaveStep(max, H \union s.woken, s.queue,
                     (H \ {r}) \union Release(s).woken, Release(s).queue)
<1> DEFINE h == H \union s.woken
           g == (H \ {r}) \union Release(s).woken
           q == s.queue
<1>1. s \in [value : Nat, queue : Seq(Requests), woken : SUBSET Requests] /\ r \notin s.woken
  BY DEF Sound, Balanced, SemaphoreOK
<1>2. Cardinality(g) <= max
  <2>1. Sound(Release(s), H \ {r}, max) /\ H \ {r} \in SUBSET Requests
    BY ReleaseSound
  <2>. QED
    BY <2>1, HoldersCount
<1>3. {r} \in SUBSET h /\ Cardinality({r}) <= 1
  BY OneLeaves
<1>4. CASE q = <<>>
  <2>1. Release(s).queue = q /\ Release(s).woken = s.woken
    BY <1>1, <1>4 DEF Release
  <2>2. g = (h \ {r}) \union {q[i] : i \in 1..0}
    BY <1>1, <2>1
  <2>3. 0 \in 0..Len(q) /\ Release(s).queue = SubSeq(q, 0 + 1, Len(q))
    BY <1>4, <2>1
  <2> HIDE DEF g, h, q
  <2>4. LeaveStep(max, h, q, g, Release(s).queue)
    BY <1>2, <1>3, <2>2, <2>3 DEF LeaveStep
  <2>. QED
    BY <2>4 DEF g, h, q
<1>5. CASE q # <<>>
  <2>1. Release(s).queue = Tail(q) /\ Release(s).woken = s.woken \union {Head(q)}
    BY <1>1, <1>5 DEF Release
  <2>2. /\ Len(q) \in Nat /\ Len(q) >= 1 /\ Head(q) = q[1] /\ Tail(q) = SubSeq(q, 1 + 1, Len(q))
    BY <1>1, <1>5
  <2>3. q[1] # r
    BY <2>2 DEF Sound, Balanced, SemaphoreOK
  <2>4. {q[i] : i \in 1..1} = {q[1]}
    OBVIOUS
  <2>5. g = (h \ {r}) \union {q[i] : i \in 1..1}
    BY <1>1, <2>1, <2>2, <2>3, <2>4
  <2>6. 1 \in 0..Len(q) /\ Release(s).queue = SubSeq(q, 1 + 1, Len(q))
    BY <2>1, <2>2
  <2> HIDE DEF g, h, q
  <2>7. LeaveStep(max, h, q, g, Release(s).queue)
    BY <1>2, <1>3, <2>5, <2>6 DEF LeaveStep
  <2>. QED
    BY <2>7 DEF g, h, q
<1>. QED
  BY <1>4, <1>5

\* The woken task owns what it was given, and those for whom there is room
\* beside it move up.
LEMMA ResumeLeaves ==
    ASSUME NEW s, NEW H \in SUBSET Requests, NEW max \in Nat, Sound(s, H, max),
           NEW r \in s.woken
    PROVE  LeaveStep(max, H \union s.woken, s.queue,
                     (H \union {r}) \union Resume(s, r).woken, Resume(s, r).queue)
<1> DEFINE u == [s EXCEPT !.woken = @ \ {r}]
           h == H \union s.woken
           g == (H \union {r}) \union Resume(s, r).woken
           k == Wakeable(u)
<1>1. s \in [value : Nat, queue : Seq(Requests), woken : SUBSET Requests] /\ r \in Requests
  BY DEF Sound, Balanced, SemaphoreOK
<1>2. u.queue = s.queue /\ u.woken = s.woken \ {r} /\ SemaphoreOK(u)
  BY <1>1 DEF SemaphoreOK
<1>3. Resume(s, r) = WakeUp(u)
  BY DEF Resume
<1>4. Cardinality(g) <= max
  <2>1. Sound(Resume(s, r), H \union {r}, max) /\ H \union {r} \in SUBSET Requests
    BY <1>1, ResumeSound
  <2>. QED
    BY <2>1, HoldersCount
<1> HIDE DEF u
<1>5. /\ k \in 0..Len(s.queue)
      /\ Resume(s, r).queue = SubSeq(s.queue, k + 1, Len(s.queue))
      /\ Resume(s, r).woken = (s.woken \ {r}) \union {s.queue[i] : i \in 1..k}
  <2>1. /\ WakeUp(u).queue = SubSeq(u.queue, k + 1, Len(u.queue))
        /\ WakeUp(u).woken = u.woken \union {u.queue[i] : i \in 1..k}
    BY WakeUpMovesUp
  <2>2. k \in 0..Len(u.queue)
    BY <1>2, WakeableInQueue
  <2> HIDE DEF k
  <2>. QED
    BY <1>2, <1>3, <2>1, <2>2
<1>6. g = (h \ {}) \union {s.queue[i] : i \in 1..k}
  BY <1>5
<1>7. {} \in SUBSET h /\ Cardinality({}) <= 1
  BY OneLeaves
<1> HIDE DEF g, h, k
<1>8. LeaveStep(max, h, s.queue, g, Resume(s, r).queue)
  BY <1>4, <1>5, <1>6, <1>7 DEF LeaveStep
<1>. QED
  BY <1>8 DEF g, h

\* A task that leaves acquire() with an exception gives up what it may have
\* been given, and those for whom there is room move up.
LEMMA AbortLeaves ==
    ASSUME NEW s, NEW H \in SUBSET Requests, NEW max \in Nat, Sound(s, H, max),
           NEW r \in Requests
    PROVE  LeaveStep(max, H \union s.woken, s.queue,
                     H \union Abort(s, r).woken, Abort(s, r).queue)
<1> DEFINE u == IF r \in s.woken
                  THEN [value |-> s.value + 1, queue |-> s.queue, woken |-> s.woken \ {r}]
                  ELSE s
           h == H \union s.woken
           g == H \union Abort(s, r).woken
           k == Wakeable(u)
           L == {r} \intersect s.woken
<1>1. s \in [value : Nat, queue : Seq(Requests), woken : SUBSET Requests]
  BY DEF Sound, Balanced, SemaphoreOK
<1>2. u.queue = s.queue /\ u.woken = s.woken \ L /\ SemaphoreOK(u)
  BY <1>1 DEF SemaphoreOK
<1>3. Abort(s, r) = WakeUp(u)
  BY DEF Abort
<1>4. Cardinality(g) <= max
  <2>1. Sound(Abort(s, r), H, max)
    BY AbortSound
  <2>. QED
    BY <2>1, HoldersCount
<1> HIDE DEF u
<1>5. /\ k \in 0..Len(s.queue)
      /\ Abort(s, r).queue = SubSeq(s.queue, k + 1, Len(s.queue))
      /\ Abort(s, r).woken = (s.woken \ L) \union {s.queue[i] : i \in 1..k}
  <2>1. /\ WakeUp(u).queue = SubSeq(u.queue, k + 1, Len(u.queue))
        /\ WakeUp(u).woken = u.woken \union {u.queue[i] : i \in 1..k}
    BY WakeUpMovesUp
  <2>2. k \in 0..Len(u.queue)
    BY <1>2, WakeableInQueue
  <2> HIDE DEF k
  <2>. QED
    BY <1>2, <1>3, <2>1, <2>2
<1>6. s.woken \intersect H = {}
  BY DEF Sound, Balanced
<1>7. g = (h \ L) \union {s.queue[i] : i \in 1..k}
  BY <1>5, <1>6
<1>8. L \in SUBSET h /\ Cardinality(L) <= 1
  <2>1. L = {} \/ L = {r}
    OBVIOUS
  <2>. QED
    BY <2>1, OneLeaves
<1> HIDE DEF g, h, k, L
<1>9. LeaveStep(max, h, s.queue, g, Abort(s, r).queue)
  BY <1>4, <1>5, <1>7, <1>8 DEF LeaveStep
<1>. QED
  BY <1>9 DEF g, h

\* The woken task finds the next queue full and gives its permit back at once.
LEMMA ResumeReleaseLeaves ==
    ASSUME NEW s, NEW H \in SUBSET Requests, NEW max \in Nat, Sound(s, H, max),
           NEW r \in s.woken
    PROVE  LeaveStep(max, H \union s.woken, s.queue,
                     H \union Release(Resume(s, r)).woken, Release(Resume(s, r)).queue)
<1> DEFINE u == [s EXCEPT !.woken = @ \ {r}]
           t == Resume(s, r)
           h == H \union s.woken
           g == H \union Release(t).woken
           k == Wakeable(u)
           q == s.queue
<1>1. s \in [value : Nat, queue : Seq(Requests), woken : SUBSET Requests] /\ r \in Requests
  BY DEF Sound, Balanced, SemaphoreOK
<1>2. u.queue = q /\ u.woken = s.woken \ {r} /\ SemaphoreOK(u)
  BY <1>1 DEF SemaphoreOK
<1>3. t = WakeUp(u)
  BY DEF Resume
<1> HIDE DEF u
<1>4. /\ k \in 0..Len(q) /\ q \in Seq(Requests) /\ Len(q) \in Nat
      /\ t.queue = SubSeq(q, k + 1, Len(q))
      /\ t.woken = (s.woken \ {r}) \union {q[i] : i \in 1..k}
  <2>1. /\ WakeUp(u).queue = SubSeq(u.queue, k + 1, Len(u.queue))
        /\ WakeUp(u).woken = u.woken \union {u.queue[i] : i \in 1..k}
    BY WakeUpMovesUp
  <2>2. k \in 0..Len(u.queue)
    BY <1>2, WakeableInQueue
  <2> HIDE DEF k
  <2>. QED
    BY <1>1, <1>2, <1>3, <2>1, <2>2
<1>5. Sound(t, H \union {r}, max) /\ H \union {r} \in SUBSET Requests /\ r \notin H
  <2>1. r \notin H
    BY DEF Sound, Balanced
  <2>. QED
    BY <1>1, <2>1, ResumeSound
<1>6. t \in [value : Nat, queue : Seq(Requests), woken : SUBSET Requests]
  BY <1>5 DEF Sound, Balanced, SemaphoreOK
<1> HIDE DEF t
<1>7. Cardinality(g) <= max
  <2>1. (H \union {r}) \ {r} = H
    BY <1>5
  <2>2. Sound(Release(t), (H \union {r}) \ {r}, max)
    BY <1>5, ReleaseSound
  <2>. QED
    BY <2>1, <2>2, HoldersCount
<1>8. {r} \in SUBSET h /\ Cardinality({r}) <= 1
  BY OneLeaves
<1>9. \A i \in 1..Len(q) : q[i] # r
  BY DEF Sound, Balanced
<1>10. CASE t.queue = <<>>
  <2>1. Release(t).queue = t.queue /\ Release(t).woken = t.woken
    BY <1>6, <1>10 DEF Release
  <2>2. g = (h \ {r}) \union {q[i] : i \in 1..k}
    BY <1>4, <1>5, <1>9, <2>1
  <2>3. Release(t).queue = SubSeq(q, k + 1, Len(q))
    BY <1>4, <2>1
  <2> HIDE DEF g, h, q, k
  <2>4. LeaveStep(max, h, q, g, Release(t).queue)
    BY <1>4, <1>7, <1>8, <2>2, <2>3 DEF LeaveStep
  <2>. QED
    BY <2>4 DEF g, h, q, t
<1>11. CASE t.queue # <<>>
  <2>1. Release(t).queue = Tail(t.queue) /\ Release(t).woken = t.woken \union {Head(t.queue)}
    BY <1>6, <1>11 DEF Release
  <2> HIDE DEF q, k
  <2>2. k + 1 \in 0..Len(q) /\ k + 1 \in 1..Len(q)
    <3>1. k # Len(q)
      BY <1>4, <1>11
    <3>. QED
      BY <1>4, <3>1
  <2>3. Head(SubSeq(q, k + 1, Len(q))) = q[k + 1]
    BY <1>4, <2>2
  <2>4. Tail(SubSeq(q, k + 1, Len(q))) = SubSeq(q, (k + 1) + 1, Len(q))
    <3> DEFINE a == Tail(SubSeq(q, k + 1, Len(q)))
               b == SubSeq(q, (k + 1) + 1, Len(q))
               c == SubSeq(q, k + 1, Len(q))
    <3>1. /\ c \in Seq(Requests) /\ Len(c) = Len(q) - k
          /\ \A i \in 1..(Len(q) - k) : c[i] = q[k + i]
      BY <1>4, <2>2
    <3>2. /\ b \in Seq(Requests) /\ Len(b) = Len(q) - k - 1
          /\ \A i \in 1..(Len(q) - k - 1) : b[i] = q[k + 1 + i]
      BY <1>4, <2>2
    <3> HIDE DEF b, c
    <3>3. /\ Tail(c) \in Seq(Requests) /\ Len(Tail(c)) = Len(q) - k - 1
          /\ \A i \in 1..(Len(q) - k - 1) : Tail(c)[i] = c[i + 1]
      BY <1>4, <2>2, <3>1
    <3>4. \A i \in 1..(Len(q) - k - 1) : Tail(c)[i] = b[i]
      BY <1>4, <2>2, <3>1, <3>2, <3>3
    <3>5. Tail(c) = b
      BY <3>2, <3>3, <3>4, SeqEqual
    <3>. QED
      BY <3>5 DEF b, c
  <2>5. {q[i] : i \in 1..(k + 1)} = {q[i] : i \in 1..k} \union {q[k + 1]}
    BY <1>4
  <2>6. q[k + 1] # r
    BY <1>9, <2>2
  <2>7. g = (h \ {r}) \union {q[i] : i \in 1..(k + 1)}
    BY <1>4, <1>5, <1>9, <2>1, <2>3, <2>5, <2>6
  <2>8. Release(t).queue = SubSeq(q, (k + 1) + 1, Len(q))
    BY <1>4, <2>1, <2>4
  <2> HIDE DEF g, h
  <2>9. LeaveStep(max, h, q, g, Release(t).queue)
    BY <1>7, <1>8, <2>2, <2>7, <2>8 DEF LeaveStep
  <2>. QED
    BY <2>9 DEF g, h, q, t
<1>. QED
  BY <1>10, <1>11

\* A step of the capacity that the shared slots, and the Studio permits, are.
SlotsStep ==
    CapacityStep(Requests, MaxConcurrent, MaxQueued,
                 SlotHolders \union slots.woken, slots.queue,
                 SlotHolders' \union slots'.woken, slots'.queue)

StudioStep ==
    CapacityStep(Studio, StudioMax, Cardinality(Studio),
                 StudioHolders \union studio.woken, studio.queue,
                 StudioHolders' \union studio'.woken, studio'.queue)

\* A queue without repetitions is no longer than a set that holds its members.
LEMMA QueueLength ==
    ASSUME NEW s, NEW H, NEW max, Balanced(s, H, max), NEW W \in SUBSET Requests,
           Waiters(s) \subseteq W
    PROVE  Len(s.queue) <= Cardinality(W)
<1>1. s.queue \in Seq(Requests) /\ Len(s.queue) \in Nat
  BY DEF Balanced, SemaphoreOK
<1>2. Cardinality({s.queue[i] : i \in 1..Len(s.queue)}) = Len(s.queue)
  BY <1>1, FrontCardinality DEF Balanced
<1>3. Cardinality(Waiters(s)) <= Cardinality(W)
  BY RequestSetsFinite, FS_Subset
<1>. QED
  BY <1>2, <1>3 DEF Waiters

\* limiter.slot() is one step of the shared slots: the task is turned away, or
\* joins the line, or enters.
LEMMA EnterSlotSteps ==
    ASSUME Inductive, NEW r \in Requests, NEW s,
           task[r] \in {"created", "studioWait"}, EnterSlot(r, s)
    PROVE  SlotsStep
<1>1. /\ ControlOK /\ TasksMatch
      /\ Sound(slots, SlotHolders, MaxConcurrent)
      /\ queued = Cardinality(SlotWaiters) /\ queued \in Nat
  BY InductiveParts
<1>2. /\ r \notin SlotHolders /\ r \notin Waiters(slots) /\ r \notin slots.woken
  BY <1>1 DEF SlotHolders, TasksMatch
<1>3. CASE task' = [task EXCEPT ![r] = "full"] /\ UNCHANGED limiterVars
  <2>1. SlotHolders' = SlotHolders \ {r}
    <3>1. "full" \notin {"slotWait", "running"}
      OBVIOUS
    <3>. QED
      BY <1>1, <1>3, <3>1, MovedOut
  <2>2. SlotHolders' = SlotHolders /\ slots' = slots
    BY <1>2, <1>3, <2>1 DEF limiterVars
  <2>. QED
    BY <2>2 DEF SlotsStep, CapacityStep
<1>4. CASE ~QueueFull /\ task' = [task EXCEPT ![r] = "slotWait"] /\ slots' = Join(slots, r)
  <2>1. SlotHolders' = SlotHolders
    <3>1. SlotHolders' = SlotHolders \ {r}
      BY <1>1, <1>4, MovedIntoQueue
    <3>. QED
      BY <1>2, <3>1
  <2>2. SemaphoreOK(slots) /\ Balanced(slots, SlotHolders, MaxConcurrent)
    BY <1>1 DEF Sound, Balanced
  <2>3. Len(slots.queue) < MaxQueued
    <3>1. Waiters(slots) \subseteq SlotWaiters
      BY <1>1 DEF TasksMatch, SlotWaiters, Sound, Balanced, SemaphoreOK, Waiters
    <3>2. Len(slots.queue) <= queued /\ Len(slots.queue) \in Nat
      BY <1>1, <2>2, <3>1, QueueLength, SetTypes DEF SemaphoreOK
    <3>. QED
      BY <1>1, <1>4, <3>2, SetTypes DEF QueueFull
  <2>4. JoinStep(Requests, MaxQueued, SlotHolders \union slots.woken, slots.queue,
                 SlotHolders \union Join(slots, r).woken, Join(slots, r).queue)
    BY <1>2, <2>2, <2>3, SetTypes, JoinJoins
  <2>. QED
    BY <1>4, <2>1, <2>4 DEF SlotsStep, CapacityStep
<1>5. CASE ~MustQueue /\ task' = [task EXCEPT ![r] = "running"] /\ slots' = Take(slots)
  <2>1. SlotHolders' = SlotHolders \union {r}
    BY <1>1, <1>5, MovedIntoBody
  <2>2. EnterStep(Requests, MaxConcurrent, SlotHolders \union slots.woken, slots.queue,
                  (SlotHolders \union {r}) \union Take(slots).woken, Take(slots).queue)
    BY <1>1, <1>2, <1>5, SetTypes, TakeEnters DEF MustQueue
  <2>. QED
    BY <1>5, <2>1, <2>2 DEF SlotsStep, CapacityStep
<1>. QED
  BY <1>3, <1>4, <1>5 DEF EnterSlot

\* A task that moves neither into the limiter nor out of it and leaves both
\* semaphores alone changes neither capacity.
LEMMA QuietSteps ==
    ASSUME UNCHANGED <<slots, studio>>, SlotHolders' = SlotHolders, StudioHolders' = StudioHolders
    PROVE  SlotsStep /\ StudioStep
  BY DEF SlotsStep, StudioStep, CapacityStep

\* A timer or a cancellation: the place in the line the task waits in is given up.
LEMMA WithdrawSteps ==
    ASSUME Inductive, NEW r \in Requests, UNCHANGED task,
           slots' = IF task[r] = "slotWait" THEN Withdraw(slots, r) ELSE slots,
           studio' = IF task[r] = "studioWait" THEN Withdraw(studio, r) ELSE studio
    PROVE  SlotsStep /\ StudioStep
<1>1. /\ TasksMatch
      /\ Sound(slots, SlotHolders, MaxConcurrent) /\ Sound(studio, StudioHolders, StudioMax)
  BY InductiveParts
<1>2. SemaphoreOK(slots) /\ SemaphoreOK(studio)
  BY <1>1 DEF Sound, Balanced
<1>3. SlotHolders' = SlotHolders /\ StudioHolders' = StudioHolders
  BY DEF SlotHolders, StudioHolders
<1>4. SlotsStep
  <2>1. CASE task[r] = "slotWait"
    <3>1. \/ AbandonStep(Requests, SlotHolders \union slots.woken, slots.queue,
                         SlotHolders \union Withdraw(slots, r).woken, Withdraw(slots, r).queue)
          \/ /\ SlotHolders \union Withdraw(slots, r).woken = SlotHolders \union slots.woken
             /\ Withdraw(slots, r).queue = slots.queue
      <4>1. SemaphoreOK(slots) /\ SlotHolders \in SUBSET Requests
        BY <1>2, SetTypes
      <4>. QED
        BY <4>1, WithdrawAbandons
    <3>2. slots' = Withdraw(slots, r)
      BY <2>1
    <3>3. CASE AbandonStep(Requests, SlotHolders \union slots.woken, slots.queue,
                           SlotHolders \union Withdraw(slots, r).woken, Withdraw(slots, r).queue)
      BY <1>3, <3>2, <3>3 DEF SlotsStep, CapacityStep
    <3>4. CASE /\ SlotHolders \union Withdraw(slots, r).woken = SlotHolders \union slots.woken
               /\ Withdraw(slots, r).queue = slots.queue
      BY <1>3, <3>2, <3>4 DEF SlotsStep, CapacityStep
    <3>. QED
      BY <3>1, <3>3, <3>4
  <2>2. CASE task[r] # "slotWait"
    BY <1>3, <2>2 DEF SlotsStep, CapacityStep
  <2>. QED
    BY <2>1, <2>2
<1>5. StudioStep
  <2>1. CASE studio' = studio
    BY <1>3, <2>1 DEF StudioStep, CapacityStep
  <2>2. CASE r \in Studio /\ studio' = Withdraw(studio, r)
    <3>1. \/ AbandonStep(Studio, StudioHolders \union studio.woken, studio.queue,
                         StudioHolders \union Withdraw(studio, r).woken, Withdraw(studio, r).queue)
          \/ /\ StudioHolders \union Withdraw(studio, r).woken = StudioHolders \union studio.woken
             /\ Withdraw(studio, r).queue = studio.queue
      BY <1>2, <2>2, SetTypes, WithdrawAbandons
    <3>. QED
      BY <1>3, <2>2, <3>1 DEF StudioStep, CapacityStep
  <2>3. CASE r \notin Studio /\ studio' = Withdraw(studio, r)
    <3>1. r \notin Waiters(studio)
      BY <1>1, <2>3 DEF TasksMatch
    <3>2. Withdraw(studio, r).queue = studio.queue /\ Withdraw(studio, r).woken = studio.woken
      BY <1>2, <3>1 DEF Withdraw, Without, Waiters, SemaphoreOK
    <3>. QED
      BY <1>3, <2>3, <3>2 DEF StudioStep, CapacityStep
  <2>. QED
    BY <2>1, <2>2, <2>3
<1>. QED
  BY <1>4, <1>5

\* The task leaves the limiter or one of its queues: its Studio permit, if it
\* has one, goes to the next Studio request.
LEMMA StudioReleasedSteps ==
    ASSUME Inductive, NEW r \in Requests, NEW e \in Ended,
           task[r] \in {"slotWait", "running"}, task' = [task EXCEPT ![r] = e],
           studio' = StudioReleased(r, studio)
    PROVE  StudioStep
<1>1. ControlOK /\ Sound(studio, StudioHolders, StudioMax)
  BY InductiveParts
<1>2. StudioHolders' = StudioHolders \ {r}
  <2>1. e \notin {"slotWait", "running"}
    BY DEF Ended
  <2>. QED
    BY <1>1, <2>1, MovedOut
<1>3. CASE r \in Studio
  <2>1. r \in StudioHolders /\ studio' = Release(studio)
    BY <1>3 DEF StudioHolders, StudioReleased
  <2>2. LeaveStep(StudioMax, StudioHolders \union studio.woken, studio.queue,
                  (StudioHolders \ {r}) \union Release(studio).woken, Release(studio).queue)
    BY <1>1, <2>1, SetTypes, ReleaseLeaves
  <2>. QED
    BY <1>2, <2>1, <2>2 DEF StudioStep, CapacityStep
<1>4. CASE r \notin Studio
  <2>1. StudioHolders' = StudioHolders /\ studio' = studio
    BY <1>2, <1>4 DEF StudioHolders, StudioReleased
  <2>. QED
    BY <2>1 DEF StudioStep, CapacityStep
<1>. QED
  BY <1>3, <1>4

LEMMA BeginAnalysisSteps ==
    ASSUME Inductive, NEW r \in Requests, BeginAnalysis(r)
    PROVE  SlotsStep /\ StudioStep
<1>1. /\ task[r] = "created" /\ r \notin Studio /\ EnterSlot(r, studio)
  BY DEF BeginAnalysis
<1>2. SlotsStep
  BY <1>1, EnterSlotSteps
<1>3. studio' = studio
  BY <1>1 DEF EnterSlot, StudioReleased
<1>4. StudioHolders' = StudioHolders
  <2>1. ControlOK
    BY InductiveParts
  <2>2. PICK v : task' = [task EXCEPT ![r] = v]
    BY <1>1 DEF EnterSlot
  <2>3. \A x \in Studio : task'[x] = task[x]
    BY <1>1, <2>1, <2>2, AdmissionAssumption DEF ControlOK
  <2>. QED
    BY <2>3 DEF StudioHolders
<1>. QED
  BY <1>2, <1>3, <1>4 DEF StudioStep, CapacityStep

LEMMA BeginStudioSteps ==
    ASSUME Inductive, NEW r \in Requests, BeginStudio(r)
    PROVE  SlotsStep /\ StudioStep
<1>1. /\ ControlOK /\ TasksMatch /\ Sound(studio, StudioHolders, StudioMax)
  BY InductiveParts
<1>2. task[r] = "created" /\ r \in Studio
  BY DEF BeginStudio
<1>3. /\ r \notin StudioHolders /\ r \notin Waiters(studio) /\ r \notin studio.woken
      /\ r \notin SlotHolders
  BY <1>1, <1>2 DEF StudioHolders, SlotHolders, TasksMatch
<1>4. SemaphoreOK(studio) /\ Balanced(studio, StudioHolders, StudioMax)
  BY <1>1 DEF Sound, Balanced
<1>5. CASE ~locked(studio) /\ EnterSlot(r, Take(studio))
  <2>1. SlotsStep
    BY <1>2, <1>5, EnterSlotSteps
  <2>2. CASE task' = [task EXCEPT ![r] = "full"] /\ studio' = StudioReleased(r, Take(studio))
    <3>1. StudioHolders' = StudioHolders
      <4>1. "full" \notin {"slotWait", "running"}
        OBVIOUS
      <4>2. StudioHolders' = StudioHolders \ {r}
        BY <1>1, <2>2, <4>1, MovedOut
      <4>. QED
        BY <1>3, <4>2
    <3>2. studio.queue = <<>> /\ Take(studio).queue = studio.queue /\ Take(studio).woken = studio.woken
      BY <1>4, <1>5 DEF locked, Take, SemaphoreOK
    <3>3. Take(studio) = [value |-> studio.value - 1, queue |-> studio.queue, woken |-> studio.woken]
      BY <1>4 DEF Take, SemaphoreOK
    <3>4. studio' = Release(Take(studio))
      BY <1>2, <2>2 DEF StudioReleased
    <3>5. studio'.queue = studio.queue /\ studio'.woken = studio.woken
      BY <3>2, <3>3, <3>4 DEF Release
    <3>. QED
      BY <2>1, <3>1, <3>5 DEF StudioStep, CapacityStep
  <2>3. CASE (\E v \in {"slotWait", "running"} : task' = [task EXCEPT ![r] = v]) /\ studio' = Take(studio)
    <3>1. StudioHolders' = StudioHolders \union {r}
      BY <1>1, <1>2, <2>3, MovedIntoQueue, MovedIntoBody
    <3>2. EnterStep(Studio, StudioMax, StudioHolders \union studio.woken, studio.queue,
                    (StudioHolders \union {r}) \union Take(studio).woken, Take(studio).queue)
      BY <1>1, <1>2, <1>3, <1>5, SetTypes, TakeEnters
    <3>. QED
      BY <2>1, <2>3, <3>1, <3>2 DEF StudioStep, CapacityStep
  <2>4. StudioStep
    BY <1>5, <2>2, <2>3 DEF EnterSlot
  <2>. QED
    BY <2>1, <2>4
<1>6. CASE locked(studio) /\ task' = [task EXCEPT ![r] = "studioWait"]
           /\ studio' = Join(studio, r) /\ UNCHANGED limiterVars
  <2>1. /\ SlotHolders' = SlotHolders
        /\ StudioHolders' = StudioHolders
    <3>1. "studioWait" \notin {"slotWait", "running"}
      OBVIOUS
    <3>2. SlotHolders' = SlotHolders \ {r} /\ StudioHolders' = StudioHolders \ {r}
      BY <1>1, <1>6, <3>1, MovedOut
    <3>. QED
      BY <1>3, <3>2
  <2>2. SlotsStep
    BY <1>6, <2>1 DEF SlotsStep, CapacityStep, limiterVars
  <2>3. Len(studio.queue) < Cardinality(Studio)
    <3>1. Waiters(studio) \subseteq Studio \ {r} /\ Studio \ {r} \in SUBSET Requests /\ Studio \in SUBSET Requests
      BY <1>1, <1>3, AdmissionAssumption DEF TasksMatch
    <3>2. Len(studio.queue) <= Cardinality(Studio \ {r}) /\ Len(studio.queue) \in Nat
      BY <1>4, <3>1, QueueLength DEF SemaphoreOK
    <3>3. Cardinality(Studio \ {r}) = Cardinality(Studio) - 1 /\ Cardinality(Studio) \in Nat
      BY <1>2, <3>1, CountOne
    <3>. QED
      BY <3>2, <3>3
  <2>4. JoinStep(Studio, Cardinality(Studio), StudioHolders \union studio.woken, studio.queue,
                 StudioHolders \union Join(studio, r).woken, Join(studio, r).queue)
    BY <1>2, <1>3, <1>4, <2>3, SetTypes, JoinJoins
  <2>5. StudioStep
    BY <1>6, <2>1, <2>4 DEF StudioStep, CapacityStep
  <2>. QED
    BY <2>2, <2>5
<1>. QED
  BY <1>5, <1>6 DEF BeginStudio

LEMMA StudioGrantedSteps ==
    ASSUME Inductive, NEW r \in Requests, StudioGranted(r)
    PROVE  SlotsStep /\ StudioStep
<1>1. /\ ControlOK /\ TasksMatch /\ Sound(studio, StudioHolders, StudioMax)
  BY InductiveParts
<1>2. task[r] = "studioWait" /\ r \in studio.woken /\ EnterSlot(r, Resume(studio, r))
  BY DEF StudioGranted
<1>3. SlotsStep
  BY <1>2, EnterSlotSteps
<1>4. r \in Studio /\ r \notin StudioHolders
  BY <1>1, <1>2 DEF StudioHolders, TasksMatch
<1>5. CASE task' = [task EXCEPT ![r] = "full"] /\ studio' = StudioReleased(r, Resume(studio, r))
  <2>1. StudioHolders' = StudioHolders
    <3>1. "full" \notin {"slotWait", "running"}
      OBVIOUS
    <3>2. StudioHolders' = StudioHolders \ {r}
      BY <1>1, <1>5, <3>1, MovedOut
    <3>. QED
      BY <1>4, <3>2
  <2>2. studio' = Release(Resume(studio, r))
    BY <1>4, <1>5 DEF StudioReleased
  <2>3. LeaveStep(StudioMax, StudioHolders \union studio.woken, studio.queue,
                  StudioHolders \union Release(Resume(studio, r)).woken,
                  Release(Resume(studio, r)).queue)
    BY <1>1, <1>2, SetTypes, ResumeReleaseLeaves
  <2>. QED
    BY <1>3, <2>1, <2>2, <2>3 DEF StudioStep, CapacityStep
<1>6. CASE (\E v \in {"slotWait", "running"} : task' = [task EXCEPT ![r] = v]) /\ studio' = Resume(studio, r)
  <2>1. StudioHolders' = StudioHolders \union {r}
    BY <1>1, <1>4, <1>6, MovedIntoQueue, MovedIntoBody
  <2>2. LeaveStep(StudioMax, StudioHolders \union studio.woken, studio.queue,
                  (StudioHolders \union {r}) \union Resume(studio, r).woken, Resume(studio, r).queue)
    BY <1>1, <1>2, SetTypes, ResumeLeaves
  <2>. QED
    BY <1>3, <1>6, <2>1, <2>2 DEF StudioStep, CapacityStep
<1>. QED
  BY <1>2, <1>5, <1>6 DEF EnterSlot

LEMMA AbortedTasksStep ==
    ASSUME Inductive, NEW r \in Requests, StudioAborted(r) \/ SlotAborted(r)
    PROVE  SlotsStep /\ StudioStep
<1>1. /\ ControlOK
      /\ Sound(slots, SlotHolders, MaxConcurrent) /\ Sound(studio, StudioHolders, StudioMax)
  BY InductiveParts
<1>2. Aborted(r) \in Ended /\ Aborted(r) \notin {"slotWait", "running"}
  BY DEF Aborted, Ended
<1>3. /\ task[r] \in {"studioWait", "slotWait"}
      /\ task' = [task EXCEPT ![r] = Aborted(r)]
  BY DEF StudioAborted, SlotAborted
<1>4. SlotHolders' = SlotHolders
  <2>1. SlotHolders' = SlotHolders \ {r} /\ r \notin SlotHolders
    BY <1>1, <1>2, <1>3, MovedOut DEF SlotHolders
  <2>. QED
    BY <2>1
<1>5. CASE StudioAborted(r)
  <2>1. task[r] = "studioWait" /\ studio' = Abort(studio, r) /\ slots' = slots
    BY <1>5 DEF StudioAborted, limiterVars
  <2>2. StudioHolders' = StudioHolders
    <3>1. StudioHolders' = StudioHolders \ {r} /\ r \notin StudioHolders
      BY <1>1, <1>2, <1>3, <2>1, MovedOut DEF StudioHolders
    <3>. QED
      BY <3>1
  <2>3. LeaveStep(StudioMax, StudioHolders \union studio.woken, studio.queue,
                  StudioHolders \union Abort(studio, r).woken, Abort(studio, r).queue)
    BY <1>1, SetTypes, AbortLeaves
  <2>. QED
    BY <1>4, <2>1, <2>2, <2>3 DEF SlotsStep, StudioStep, CapacityStep
<1>6. CASE SlotAborted(r)
  <2>1. task[r] = "slotWait" /\ slots' = Abort(slots, r) /\ studio' = StudioReleased(r, studio)
    BY <1>6 DEF SlotAborted
  <2>2. LeaveStep(MaxConcurrent, SlotHolders \union slots.woken, slots.queue,
                  SlotHolders \union Abort(slots, r).woken, Abort(slots, r).queue)
    BY <1>1, SetTypes, AbortLeaves
  <2>3. SlotsStep
    BY <1>4, <2>1, <2>2 DEF SlotsStep, CapacityStep
  <2>4. StudioStep
    BY <1>2, <1>3, <2>1, StudioReleasedSteps
  <2>. QED
    BY <2>3, <2>4
<1>. QED
  BY <1>5, <1>6

LEMMA SlotGrantedSteps ==
    ASSUME Inductive, NEW r \in Requests, SlotGranted(r)
    PROVE  SlotsStep /\ StudioStep
<1>1. ControlOK /\ Sound(slots, SlotHolders, MaxConcurrent)
  BY InductiveParts
<1>2. /\ task[r] = "slotWait" /\ r \in slots.woken
      /\ task' = [task EXCEPT ![r] = "running"]
      /\ slots' = Resume(slots, r) /\ studio' = studio
  BY DEF SlotGranted
<1>3. SlotHolders' = SlotHolders \union {r} /\ StudioHolders' = StudioHolders
  <2>1. /\ SlotHolders' = SlotHolders \union {r}
        /\ StudioHolders' = IF r \in Studio THEN StudioHolders \union {r} ELSE StudioHolders
    BY <1>1, <1>2, MovedIntoBody
  <2>2. r \in Studio => r \in StudioHolders
    BY <1>2 DEF StudioHolders
  <2>. QED
    BY <2>1, <2>2
<1>4. LeaveStep(MaxConcurrent, SlotHolders \union slots.woken, slots.queue,
                (SlotHolders \union {r}) \union Resume(slots, r).woken, Resume(slots, r).queue)
  BY <1>1, <1>2, SetTypes, ResumeLeaves
<1>. QED
  BY <1>2, <1>3, <1>4 DEF SlotsStep, StudioStep, CapacityStep

LEMMA FinishTaskSteps ==
    ASSUME Inductive, NEW r \in Requests, FinishTask(r)
    PROVE  SlotsStep /\ StudioStep
<1>1. ControlOK /\ Sound(slots, SlotHolders, MaxConcurrent)
  BY InductiveParts
<1>2. PICK e \in Ended : task' = [task EXCEPT ![r] = e]
  <2> DEFINE e == CASE mark[r] = "cancel"  -> "cancelled"
                    [] worker[r] = "error" -> "raised"
                    [] OTHER               -> "returned"
  <2>1. e \in Ended
    BY DEF Ended
  <2>2. task' = [task EXCEPT ![r] = e]
    BY DEF FinishTask
  <2> HIDE DEF e
  <2>. QED
    BY <2>1, <2>2
<1>3. /\ task[r] = "running"
      /\ slots' = Release(slots) /\ studio' = StudioReleased(r, studio)
  BY DEF FinishTask
<1>4. SlotHolders' = SlotHolders \ {r} /\ r \in SlotHolders
  <2>1. e \notin {"slotWait", "running"}
    BY DEF Ended
  <2>. QED
    BY <1>1, <1>2, <1>3, <2>1, MovedOut DEF SlotHolders
<1>5. LeaveStep(MaxConcurrent, SlotHolders \union slots.woken, slots.queue,
                (SlotHolders \ {r}) \union Release(slots).woken, Release(slots).queue)
  BY <1>1, <1>4, SetTypes, ReleaseLeaves
<1>6. SlotsStep
  BY <1>3, <1>4, <1>5 DEF SlotsStep, CapacityStep
<1>7. StudioStep
  BY <1>2, <1>3, StudioReleasedSteps
<1>. QED
  BY <1>6, <1>7

\* The steps that leave both semaphores and the limiter's tasks alone.
LEMMA OtherSteps ==
    ASSUME Inductive, NEW r \in Requests,
           \/ Submit(r) \/ BeginCancelled(r)
           \/ WorkerExits(r) \/ ObserveStart(r) \/ TakeResult(r)
           \/ DeadlineFires(r) \/ BackgroundDone(r)
    PROVE  SlotsStep /\ StudioStep
<1>1. ControlOK
  BY InductiveParts
<1>2. UNCHANGED <<slots, studio>>
  BY DEF Submit, BeginCancelled, WorkerExits, ObserveStart, TakeResult, DeadlineFires,
     BackgroundDone, limiterVars
<1>3. \/ UNCHANGED task
      \/ /\ task[r] \notin {"slotWait", "running"}
         /\ \E v \in {"created", "cancelled"} : task' = [task EXCEPT ![r] = v]
  BY DEF Submit, BeginCancelled, WorkerExits, ObserveStart, TakeResult, DeadlineFires,
     BackgroundDone, Ended
<1>4. SlotHolders' = SlotHolders /\ StudioHolders' = StudioHolders
  <2>1. CASE UNCHANGED task
    BY <2>1 DEF SlotHolders, StudioHolders
  <2>2. CASE /\ task[r] \notin {"slotWait", "running"}
             /\ \E v \in {"created", "cancelled"} : task' = [task EXCEPT ![r] = v]
    <3>1. PICK v \in {"created", "cancelled"} : task' = [task EXCEPT ![r] = v]
      BY <2>2
    <3>2. v \notin {"slotWait", "running"}
      OBVIOUS
    <3>3. SlotHolders' = SlotHolders \ {r} /\ StudioHolders' = StudioHolders \ {r}
      BY <1>1, <3>1, <3>2, MovedOut
    <3>4. r \notin SlotHolders /\ r \notin StudioHolders
      BY <2>2 DEF SlotHolders, StudioHolders
    <3>. QED
      BY <3>3, <3>4
  <2>. QED
    BY <1>3, <2>1, <2>2
<1>. QED
  BY <1>2, <1>4, QuietSteps

\* Every step of the runtime is a step of both capacities, or leaves them alone.
LEMMA NextSteps == Inductive /\ [Next]_vars => SlotsStep /\ StudioStep
<1> SUFFICES ASSUME Inductive, [Next]_vars PROVE SlotsStep /\ StudioStep
  OBVIOUS
<1>1. CASE UNCHANGED vars
  BY <1>1, QuietSteps DEF vars, SlotHolders, StudioHolders
<1>2. CASE Next
  <2>1. PICK r \in Requests :
            \/ AnalyzeSegments(r)
            \/ EvaluateSegmentsPolicy(r)
            \/ TaskStep(r)
            \/ QueueTimer(r)
            \/ WorkerExits(r)
            \/ RequestStep(r)
            \/ DeadlineFires(r)
            \/ CancelRequest(r)
            \/ BackgroundDone(r)
    BY <1>2 DEF Next
  <2>2. CASE \/ AnalyzeSegments(r) \/ EvaluateSegmentsPolicy(r) \/ WorkerExits(r)
             \/ RequestStep(r) \/ DeadlineFires(r) \/ BackgroundDone(r)
    BY <2>2, OtherSteps DEF AnalyzeSegments, EvaluateSegmentsPolicy, RequestStep
  <2>3. CASE TaskStep(r)
    BY <2>3, BeginAnalysisSteps, BeginStudioSteps, OtherSteps, StudioGrantedSteps,
       AbortedTasksStep, SlotGrantedSteps, FinishTaskSteps DEF TaskStep
  <2>4. CASE QueueTimer(r)
    BY <2>4, WithdrawSteps DEF QueueTimer
  <2>5. CASE CancelRequest(r)
    <3>1. CASE Started(r) /\ UNCHANGED <<slots, studio>>
      BY <2>5, <3>1, QuietSteps DEF CancelRequest, SlotHolders, StudioHolders
    <3>2. CASE CancelTask(r)
      BY <2>5, <3>2, WithdrawSteps DEF CancelRequest, CancelTask
    <3>. QED
      BY <2>5, <3>1, <3>2 DEF CancelRequest
  <2>. QED
    BY <2>1, <2>2, <2>3, <2>4, <2>5
<1>. QED
  BY <1>1, <1>2

\* The shared limiter implements the first-come-first-served capacity, for any
\* number of requests and any limits: at most max_concurrent owners, a line of
\* at most max_queued, nobody admitted past it and nobody in it overtaken,
\* whatever times out or is cancelled in whatever order (limiter.slot).
THEOREM LimiterImplementsCapacity == Spec => SharedSlots!Spec
<1>1. Init => SharedSlots!Init
  BY DEF Init, SharedSlots!Init, Semaphore, SlotHolders
<1>2. Inductive /\ [Next]_vars => [SharedSlots!Next]_(SharedSlots!capacityVars)
  BY NextSteps, SharedSlotsStep DEF SlotsStep
<1>. QED
  BY <1>1, <1>2, InductiveHolds, PTL DEF Spec, SharedSlots!Spec

\* So does the Studio semaphore, whose permit _run_analysis holds across the
\* queue of the shared limiter and gives back when that one turns it away.
THEOREM StudioLimiterImplementsCapacity == Spec => StudioPermits!Spec
<1>1. Init => StudioPermits!Init
  BY AdmissionAssumption DEF Init, StudioPermits!Init, Semaphore, StudioHolders
<1>2. Inductive /\ [Next]_vars => [StudioPermits!Next]_(StudioPermits!capacityVars)
  BY NextSteps, StudioPermitsStep DEF StudioStep
<1>. QED
  BY <1>1, <1>2, InductiveHolds, PTL DEF Spec, StudioPermits!Spec

=============================================================================
