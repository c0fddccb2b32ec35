--------------------------- MODULE AsyncSemaphore ---------------------------
(***************************************************************************)
(* asyncio.Semaphore of CPython 3.12, the release the package pins.  It is *)
(* library code, modelled from how limiter.py and runtime.py use it:       *)
(* acquire() under wait_for, release(), locked().                          *)
(*                                                                         *)
(* A semaphore is a record of                                              *)
(*   value  the permits nobody owns,                                       *)
(*   queue  the tasks whose future is still pending, first come first,     *)
(*   woken  the tasks whose future has its result but that have not run    *)
(*          since: each of them owns a permit it may still give back.      *)
(* All calls run on the event loop's thread, so each operator below is one *)
(* atomic update.                                                          *)
(***************************************************************************)
EXTENDS Integers, Sequences

Semaphore(n) == [value |-> n, queue |-> <<>>, woken |-> {}]

\* The tasks whose future is pending.
Waiters(s) == {s.queue[i] : i \in 1..Len(s.queue)}

\* A waiter that was woken stays in the deque until it runs, so locked() is
\* true even while value is positive.
locked(s) == s.value = 0 \/ s.queue # <<>> \/ s.woken # {}

\* acquire() on a semaphore that is not locked: no suspension.
Take(s) == [s EXCEPT !.value = @ - 1]

\* acquire() on a locked semaphore: a new future at the end of the deque.
Join(s, t) == [s EXCEPT !.queue = Append(@, t)]

\* release(): one permit more, at most one waiter woken with it.
Release(s) ==
    IF s.queue = <<>>
      THEN [s EXCEPT !.value = @ + 1]
      ELSE [s EXCEPT !.queue = Tail(@), !.woken = @ \union {Head(s.queue)}]

\* How many waiters the loop in acquire's "finally" wakes.
Wakeable(s) == IF s.value < Len(s.queue) THEN s.value ELSE Len(s.queue)

\* "while value > 0: wake_up_next()", run whenever a waiter leaves acquire().
WakeUp(s) ==
    LET k == Wakeable(s)
    IN  [value |-> s.value - k,
         queue |-> SubSeq(s.queue, k + 1, Len(s.queue)),
         woken |-> s.woken \union {s.queue[i] : i \in 1..k}]

\* The woken task runs again and leaves acquire() with its permit.
Resume(s, t) == WakeUp([s EXCEPT !.woken = @ \ {t}])

\* The task leaves acquire() with an exception.  If it had been woken, its
\* permit goes back first.
Abort(s, t) ==
    WakeUp(IF t \in s.woken
             THEN [value |-> s.value + 1, queue |-> s.queue, woken |-> s.woken \ {t}]
             ELSE s)

\* q without the task t; q itself when t is not in it.
Without(q, t) ==
    IF \E i \in 1..Len(q) : q[i] = t
      THEN LET i == CHOOSE i \in 1..Len(q) : q[i] = t
           IN  [j \in 1..(Len(q) - 1) |-> IF j < i THEN q[j] ELSE q[j + 1]]
      ELSE q

\* task.cancel() while the task is inside acquire(): a pending future is
\* cancelled and no longer counts, a future that has its result is not.
Withdraw(s, t) == [s EXCEPT !.queue = Without(@, t)]

=============================================================================
