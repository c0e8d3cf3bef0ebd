------------------------------- MODULE MCTools -------------------------------
(* Instances of Tools for TLC. *)
EXTENDS Tools

CONSTANTS site, far, near, lan

=============================================================================
