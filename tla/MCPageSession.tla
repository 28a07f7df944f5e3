---------------------------- MODULE MCPageSession ----------------------------
(***************************************************************************)
(* Instances of PageSession.                                               *)
(***************************************************************************)
EXTENDS PageSession
=============================================================================
