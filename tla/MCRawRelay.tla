----------------------------- MODULE MCRawRelay -----------------------------
(***************************************************************************)
(* RawRelay on a small instance for TLC.                                   *)
(***************************************************************************)
EXTENDS RawRelay

CONSTANTS v1, plain, answer

=============================================================================
