----------------------------- MODULE MCDrawing -----------------------------
(* Small instances of Drawing for TLC. *)
EXTENDS Drawing
=============================================================================
