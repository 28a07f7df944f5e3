------------------------ MODULE MCSessionSupervisor ------------------------
(***************************************************************************)
(* SessionSupervisor on a small instance for TLC.                          *)
(***************************************************************************)
EXTENDS SessionSupervisor

CONSTANTS p1, main

=============================================================================
