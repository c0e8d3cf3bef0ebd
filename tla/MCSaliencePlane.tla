--------------------------- MODULE MCSaliencePlane ---------------------------
(* An instance of SaliencePlane for TLC: one action "a", a workspace with a  *)
(* nested file, a directory and a path outside, and an executor that may lie.*)
EXTENDS SaliencePlane, TLC

CONSTANTS c1, c2

Paths == {"d", "d/f", "g", "../x"}
AncestorsOf == [p \in Paths |-> IF p = "d/f" THEN {"d"} ELSE {}]
Outside == {"../x"}
Contents == {c1, c2}

Say(who, subject, facet, influence, confidence) ==
  Signal(who, subject, facet, influence, confidence)

\* the bus refuses a signal that is not valid
PublishedSignals ==
  {AdditiveScorer("s1", "a", "risk", [k |-> 3], [k |-> 1], 4),     \* risky, sure of it
   ThresholdScorer("s2", "a", "risk", 1, 2, 1),                    \* not risky, less sure
   Say("s3", "a", "risk", 0, 0),                                   \* speaks without confidence
   Say("s4", "b", "risk", 0, 4),                                   \* about another action
   Say("s5", "a", "adaptation", 4, 4)}

Fields ==
  [signed |-> FALSE, typed |-> TRUE, subject |-> "a", capabilities |-> {},
   minBudget |-> 10, maxBudget |-> 1000, minVerification |-> 0, maxVerification |-> 3, maxRetention |-> 4,
   allowAdaptation |-> TRUE, adaptationMinVerification |-> 0, adaptationMaxRisk |-> 1,
   allowImmediateReconfigure |-> FALSE]

Granted == {"file.write", "dir.make", "file.delete", "shell.run", "offense:x"}

HostPolicies ==
  {IssuePolicy(Fields, Granted, FALSE),
   IssuePolicy([Fields EXCEPT !.minVerification = 2, !.allowAdaptation = FALSE], Granted, FALSE),
   IssuePolicy([Fields EXCEPT !.subject = "b"], Granted, FALSE),
   IssuePolicy([Fields EXCEPT !.adaptationMaxRisk = 4], Granted, FALSE),   \* caps no risk
   [Fields EXCEPT !.capabilities = Granted]}        \* nobody signed it

Sign(op, path, content, outputs, stakes) ==
  [id |-> "a", op |-> op, path |-> path, content |-> content, outputs |-> outputs, exit |-> 0,
   malformed |-> FALSE, stakes |-> stakes, signed |-> TRUE]

SignedEnvelopes ==
  {Sign("file.write", "d/f", c1, {}, "high"),
   Sign("file.delete", "g", c1, {}, "normal"),
   Sign("dir.make", "d", c1, {}, "low"),
   Sign("shell.run", "g", c1, {"g"}, "normal"),
   [Sign("file.write", "d/f", c1, {}, "normal") EXCEPT !.signed = FALSE],
   Sign("file.write", "../x", c1, {}, "low")}

Holding(d, f, g, closed) ==
  [holds |-> [p \in Paths |-> CASE p = "d" -> d [] p = "d/f" -> f [] p = "g" -> g [] OTHER -> "none"],
   closed |-> closed]
Workspace(d, f, g) == Holding(d, f, g, {})

\* what an executor may leave: a file it may not read, a directory it may not list, too
Left ==
  {Workspace("none", "none", "none"), Workspace("none", "none", c2), Workspace("none", "none", "symlink"),
   Workspace("dir", c1, c1), Workspace("dir", "none", c1),
   Holding("dir", c1, c2, {"g"}), Holding("dir", c1, "none", {"d"}), Holding("dir", c1, c1, {"d/f"})}

\* everything in sight; a directory that is not listed and a file that is not read
Fresh == {Workspace("none", "none", c1), Holding("dir", c2, c1, {"d", "g"})}

Return(writeSet, hashes) ==
  [eid |-> "a", exit |-> 0, writeSet |-> writeSet, hashes |-> hashes, success |-> TRUE, authentic |-> TRUE]

Claims ==
  {Return({"d/f"}, "d/f" :> c1), Return({"g"}, "g" :> c2), Return({"g"}, <<>>), Return({"d"}, <<>>),
   [Return({"d/f"}, "d/f" :> c1) EXCEPT !.authentic = FALSE],
   [Return({"d/f"}, "d/f" :> c1) EXCEPT !.eid = "b"],
   [Return({"g"}, <<>>) EXCEPT !.exit = 1, !.success = FALSE]}
=============================================================================
