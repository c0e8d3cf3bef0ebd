------------------------------ MODULE MCSurface ------------------------------
(* An instance of Surface for TLC. *)
EXTENDS Surface

CONSTANTS c1, c2, c3

=============================================================================
