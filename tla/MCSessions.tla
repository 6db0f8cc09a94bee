----------------------------- MODULE MCSessions -----------------------------
(* Instances of Sessions for TLC.                                          *)
EXTENDS Sessions
CONSTANTS h1, j1, acme, ann

MCOneUser == [tenant : {acme}, subject : {ann}]
=============================================================================
