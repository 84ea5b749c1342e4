------------------------------ MODULE MCLBMustRead -----------------------------
(* Must-read linear buffers with one or two readers.                          *)
EXTENDS LBMustRead, TLC

OneReader == {"r1"}
TwoReaders == {"r1", "r2"}

NextOnly == {"LB_NEXT"}
NextAndLatest == {"LB_NEXT", "LB_LATEST"}

\* UnreadLostByOverrun without its condition, for the counterexamples.
AlwaysLostByOverrun == [][LosesByOverrun]_vars
================================================================================
