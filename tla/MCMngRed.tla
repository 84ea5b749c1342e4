------------------------------ MODULE MCMngRed ------------------------------
(* Two channels, the first of which controls at the start; two events. *)
EXTENDS MngRed

CONSTANTS A, B
=============================================================================
