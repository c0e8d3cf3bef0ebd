---------------------------- MODULE HostApproval ----------------------------
(***************************************************************************)
(* The Host implements Approval: the status a human may rely on, computed  *)
(* from the Host's registry, queue, worker and single-use flags.           *)
(***************************************************************************)
EXTENDS Host

\* is an approval of proposal p on its way to the worker, or at its gate?
Approving(p) ==
  \/ ApproveJob(p) \in putting
  \/ \E i \in DOMAIN jobs : jobs[i] = ApproveJob(p)
  \/ job = ApproveJob(p) /\ pc \in {"taken", "dispatch", "check", "gate"}

ProposalPromise(p) ==
  IF proposal[p] = "absent" THEN "none"
  ELSE IF runs[p] > 0 \/ (pc = "execute" /\ job = ApproveJob(p)) THEN "spent"
  ELSE IF p \in vetoed THEN "retired"
  ELSE IF \/ p \in consumed \/ proposal[p] = "approved"
          \/ pc = "mark" /\ job = ApproveJob(p) THEN "spent"
  ELSE IF Approving(p) THEN "approved" ELSE "held"

\* is a decision of the turn that is running?
InTurn(a) == WorkingOn(owner[a]) /\ pc \in {"turn", "absorb"} /\ a \in turn.held

ActionPromise(a) ==
  LET t == owner[a] IN
  IF t = NoId THEN "none"
  ELSE IF a \in consumed THEN "spent"
  ELSE IF state[t] \in Terminal THEN "retired"
  ELSE IF InTurn(a) THEN "held"
  ELSE IF a \in held[t] THEN IF state[t] \in Active THEN "approved" ELSE "held"
  ELSE "retired"

Promise == [d \in Action \cup Proposal |->
              IF d \in Proposal THEN ProposalPromise(d) ELSE ActionPromise(d)]

A == INSTANCE Approval WITH Decision <- Action \cup Proposal, status <- Promise

(* Every step of callers, ticker and worker is a step of the abstract      *)
(* specification or leaves the human's view alone: a decision of the Host  *)
(* is executed at most once, out of an approval that still stands.         *)
ImplementsApproval == A!Spec
=============================================================================
