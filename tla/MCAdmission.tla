----------------------------- MODULE MCAdmission -----------------------------
(* Admission with named requests: two of the adapter, two of Studio. *)
EXTENDS Admission, TLC

CONSTANTS a1, a2, s1, s2

MCRequests == {a1, a2, s1, s2}
MCLiveRequests == {a1, s1, s2}
MCStudio == {s1, s2}
MCEvaluations == {s2}

\* The two adapter requests are interchangeable.
MCSymmetry == Permutations({a1, a2})

=============================================================================
