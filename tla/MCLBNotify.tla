------------------------------- MODULE MCLBNotify ------------------------------
(* Writers, and one or two processes that receive update notifications.       *)
EXTENDS LBNotify, TLC

OneReceiver == {"r1"}
TwoReceivers == {"r1", "r2"}
================================================================================
