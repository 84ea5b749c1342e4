------------------------------- MODULE MCMrpg -------------------------------
(* A redundant RPG of a task for every state, one for standby and an        *)
(* ordinary one for the active channel.                                     *)
EXTENDS Mrpg

CONSTANTS Op, Rms, Owr
=============================================================================
