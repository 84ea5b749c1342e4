------------------------------- MODULE MCLBHeader ------------------------------
(* A small linear buffer whose pointer wraps MaxWritten / PtrRange times.      *)
EXTENDS LBHeader

CONSTANT MaxWritten   \* bound on the messages published

Bound == written <= MaxWritten
================================================================================
