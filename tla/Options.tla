------------------------------- MODULE Options -------------------------------
(***************************************************************************)
(* Rust's Option, as the set of the values it holds: {} is None, {x} is    *)
(* Some(x), so `if let Some(x) = o && P(x)` is \E x \in o : P(x). A Result *)
(* whose error is only a wording is one too: {} is the Err.                *)
(***************************************************************************)

Option(S) == {o \in SUBSET S : \A x, y \in o : x = y}

=============================================================================
