--------------------------- MODULE MCSalienceBus ---------------------------
(* Instances of SalienceBus for TLC. *)
EXTENDS SalienceBus

CONSTANTS p1, p2, bad

Payloads == {p1, p2, bad}
ValidOnes == {p1, p2}
=============================================================================
