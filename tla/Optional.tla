------------------------------ MODULE Optional ------------------------------
(* Rust's Option: a value or None. *)

CONSTANT
  None  \* Option::None

Option(S) == S \cup {None}
=============================================================================
