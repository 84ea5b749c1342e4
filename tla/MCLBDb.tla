------------------------------- MODULE MCLBDb -------------------------------
(* Message databases of a few messages of up to two units.                  *)
EXTENDS LBDb

OneReader == {"r"}
NoReader == {}
=============================================================================
