------------------------------- MODULE Actions -------------------------------
(***************************************************************************)
(* The registry of PII actions that the planner and the policy service     *)
(* share.                                                                  *)
(***************************************************************************)
EXTENDS Integers

\* lib/actions.py, ACTION_REGISTRY: how strict each action is.
Strictness ==
    [pass |-> 1, mask |-> 2, hash |-> 3, encrypt |-> 4, reversible_replace |-> 5,
     replace |-> 6, redact |-> 7, reroute |-> 8, block |-> 9]

\* The actions whose replacement the adapter can reverse.
Reversible == {"encrypt", "reversible_replace"}

=============================================================================
