------------------------------ MODULE MCPgCodes ------------------------------
(* An instance of PgCodes for TLC: two replicas whose clocks differ.       *)
EXTENDS PgCodes
CONSTANTS c1, w1, w2, w3, a, b, ra

MCGrants == {[client |-> a, redirect |-> ra]}
MCOffset == [w \in Workers |-> IF w = w1 THEN 1 ELSE IF w = w2 THEN -1 ELSE 0]
=============================================================================
