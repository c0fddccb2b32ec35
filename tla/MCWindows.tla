----------------------------- MODULE MCWindows -----------------------------
(***************************************************************************)
(* An instance of Windows: windows that overlap not at all, by one place   *)
(* and by more than half of their width, with texts of several windows.    *)
(***************************************************************************)
EXTENDS Windows

MCProfiles == {[width |-> 2, overlap |-> 0], [width |-> 2, overlap |-> 1],
               [width |-> 3, overlap |-> 2]}
MCKServeProfiles == {[width |-> 2, overlap |-> 1]}
=============================================================================
