------------------------------ MODULE MCRemote -------------------------------
(***************************************************************************)
(* Two threads and one permit; windows of 8 characters that share 3.       *)
(***************************************************************************)
EXTENDS Remote

\* One text of two windows, or a shorter, an empty and a short one.
MCRequests == {<<12>>, <<7, 0, 3>>}

=============================================================================
