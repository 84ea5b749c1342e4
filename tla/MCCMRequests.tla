------------------------------ MODULE MCCMRequests -----------------------------
(* A link with a short ring of requests.                                      *)
EXTENDS CMRequests
================================================================================
