------------------------------- MODULE Result -------------------------------
(* Rust's Result: a value or an error.                                     *)

Ok(v)  == [ok |-> TRUE, value |-> v]
Err(e) == [ok |-> FALSE, error |-> e]
=============================================================================
