----------------------------- MODULE MCRollout -----------------------------
(* Rollout with two jobs, one engine and two bundles. *)
EXTENDS Rollout

CONSTANTS j1, j2, e1, b1, b2

MCJobs == {j1, j2}
MCEngines == {e1}
MCBundles == {b1, b2}

=============================================================================
