------------------------------ MODULE MCRefMap ------------------------------
(* RefMap with short arrays and the first numbers that RefTracker gives. *)
EXTENDS RefMap

MCKeys == 42 .. 46
=============================================================================
