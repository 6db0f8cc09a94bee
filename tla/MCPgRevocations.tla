--------------------------- MODULE MCPgRevocations --------------------------
(* An instance of PgRevocations for TLC.                                   *)
EXTENDS PgRevocations
CONSTANTS h1, j1, acme, ann

MCOneUser == [tenant : {acme}, subject : {ann}]
=============================================================================
