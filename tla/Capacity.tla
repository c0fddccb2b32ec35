------------------------------ MODULE Capacity ------------------------------
(***************************************************************************)
(* What a bounded, first-come-first-served capacity promises, with none of *)
(* the machinery of futures, timers and cancellation: at most Max holders, *)
(* a line of at most MaxLine, and nobody in the line overtaken.            *)
(***************************************************************************)
EXTENDS Integers, Sequences, FiniteSets

CONSTANTS Clients, Max, MaxLine

VARIABLES holders,  \* the clients that own capacity
          line      \* the clients that wait for it, first come first

capacityVars == <<holders, line>>

\* The first k clients of the line.
Front(k) == {line[i] : i \in 1..k}

InLine == {line[i] : i \in 1..Len(line)}

Init == holders = {} /\ line = <<>>

\* A newcomer is admitted at once only when nobody is waiting.
Enter(c) ==
    /\ c \notin holders
    /\ line = <<>>
    /\ Cardinality(holders) < Max
    /\ holders' = holders \union {c}
    /\ UNCHANGED line

\* A newcomer waits at the end of the line.
Join(c) ==
    /\ c \notin holders \union InLine
    /\ Len(line) < MaxLine
    /\ line' = Append(line, c)
    /\ UNCHANGED holders

\* A waiting client gives up; the others keep their order.
Abandon(c) ==
    \E i \in 1..Len(line) :
        /\ line[i] = c
        /\ line' = SubSeq(line, 1, i - 1) \o SubSeq(line, i + 1, Len(line))
        /\ UNCHANGED holders

\* At most one holder leaves and the front of the line moves up: never more
\* than there is room for.
Advance(leaving, k) ==
    /\ Cardinality(leaving) <= 1
    /\ holders' = (holders \ leaving) \union Front(k)
    /\ Cardinality(holders') <= Max
    /\ line' = SubSeq(line, k + 1, Len(line))

Leave == \E leaving \in SUBSET holders : \E k \in 0..Len(line) : Advance(leaving, k)

\* There is room and somebody waits: somebody is let in.
Serve ==
    /\ line # <<>>
    /\ Cardinality(holders) < Max
    /\ \E k \in 1..Len(line) : Advance({}, k)

Next == (\E c \in Clients : Enter(c) \/ Join(c) \/ Abandon(c)) \/ Leave

Spec == Init /\ [][Next]_capacityVars

\* Room does not stay unused while somebody waits.
FairSpec == Spec /\ WF_capacityVars(Serve)

=============================================================================
