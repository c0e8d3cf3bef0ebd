----------------------------- MODULE MCProposals -----------------------------
(* An instance of Proposals for TLC. *)
EXTENDS Proposals

CONSTANTS write, post

=============================================================================
