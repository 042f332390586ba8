-------------------------- MODULE MCStreamResponse --------------------------
(***************************************************************************)
(* StreamResponse on a small instance.                                     *)
(***************************************************************************)
EXTENDS StreamResponse
=============================================================================
