------------------------------ MODULE Approval ------------------------------
(***************************************************************************)
(* What the Collaborator promises a human about a decision it holds for    *)
(* them, whatever threads carry it out: a held decision runs at most once, *)
(* only out of an approval, and not once it was retired (declined, vetoed, *)
(* or lost with its task).                                                 *)
(***************************************************************************)
EXTENDS Naturals

CONSTANT Decision

VARIABLES status,  \* what the human may rely on
          runs     \* how many times it was executed

vars == <<status, runs>>

Status == {"none", "held", "approved", "spent", "retired"}

Init ==
  /\ status = [d \in Decision |-> "none"]
  /\ runs = [d \in Decision |-> 0]

Become(S, from, to) ==
  /\ \A d \in S : status[d] \in from
  /\ status' = [d \in Decision |-> IF d \in S THEN to ELSE status[d]]

Hold(S)    == Become(S, {"none"}, "held") /\ UNCHANGED runs

\* an approval covers everything shown together
Approve(S) == Become(S, {"held"}, "approved") /\ UNCHANGED runs

\* approved, but the authority was gone when it was to run: still held
Refuse(S)  == Become(S, {"approved"}, "held") /\ UNCHANGED runs

Retire(S)  == Become(S, {"held", "approved", "spent"}, "retired") /\ UNCHANGED runs

Run(d) == runs[d] = 0 /\ runs' = [runs EXCEPT ![d] = 1]

\* the approval is used up, and the decision may run in the same step
Spend(d) == Become({d}, {"approved"}, "spent") /\ (Run(d) \/ UNCHANGED runs)

RunSpent(d) == status[d] = "spent" /\ Run(d) /\ UNCHANGED status

Next ==
  \/ \E S \in SUBSET Decision : Hold(S) \/ Approve(S) \/ Refuse(S) \/ Retire(S)
  \/ \E d \in Decision : Spend(d) \/ RunSpent(d)

Spec == Init /\ [][Next]_vars

-----------------------------------------------------------------------------
TypeOK == status \in [Decision -> Status] /\ runs \in [Decision -> Nat]

(* At most one execution, and none of a decision that was never approved.  *)
AtMostOnce == \A d \in Decision : runs[d] <= 1
=============================================================================
