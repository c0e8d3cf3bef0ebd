------------------------------- MODULE MCHost -------------------------------
(* Instances of Host for TLC: small sets of tasks, decisions and proposals. *)
EXTENDS HostApproval, TLC

CONSTANTS t1, t2, t3, a1, a2, a3, p1, p2

OneTask == {t1}
TwoTasks == {t1, t2}
ThreeTasks == {t1, t2, t3}
NoActions == {}
OneAction == {a1}
TwoActions == {a1, a2}
ThreeActions == {a1, a2, a3}
NoProposals == {}
OneProposal == {p1}
OtherProposal == {p2}
TwoProposals == {p1, p2}
AllOutcomes == Outcomes

ActionSymmetry == Permutations(Action)
Symmetry == Permutations(Task) \cup Permutations(Action) \cup Permutations(Proposal)
=============================================================================
