-------------------------------- MODULE MCLBShare ------------------------------
(* Shared streams with one or two readers.                                    *)
EXTENDS LBShare, TLC

OneReader == {"r1"}
TwoReaders == {"r1", "r2"}
================================================================================
