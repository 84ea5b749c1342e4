------------------------------- MODULE MCLBStream ------------------------------
(* Sequential linear buffers with a message area of a few units.               *)
EXTENDS LBStream, TLC

OneReader == {"r1"}

ShortAndLong == {1, 2}

OneAndThree == {1, 3}
================================================================================
