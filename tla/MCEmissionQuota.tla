-------------------------- MODULE MCEmissionQuota --------------------------
(* Instances of EmissionQuota for TLC: one limited host, one that is not. *)
EXTENDS EmissionQuota

CONSTANTS h1, h2

Hosts == {h1, h2}
OneHost == {h1}
CapTwo == [h \in Host |-> IF h = h1 THEN 2 ELSE NoLimit]
CapOne == [h \in Host |-> IF h = h1 THEN 1 ELSE NoLimit]
=============================================================================
