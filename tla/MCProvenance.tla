---------------------------- MODULE MCProvenance ----------------------------
(* Instances of Provenance for TLC: two interchangeable files; and the       *)
(* spellings of the paths it takes for keys, up to three components.         *)
EXTENDS Provenance, Recognisers, TLC

CONSTANTS f1, f2

TwoFiles == {f1, f2}
Symmetry == Permutations(File)

Names == {"ws", "a", "hub", "HUB", "-a"}
Folded == [n \in Names |-> IF n = "HUB" THEN "hub" ELSE n]
Workspace == <<"ws">>
Dashed == {"-a"}
ThreeParts == [abs : BOOLEAN, parts : UNION {[1..n -> Names \cup {".", ".."}] : n \in 0..3}]

\* no link; or "a" leads into the controlled tree; or out of the workspace
Leads == {<<>>, [at \in {<<"ws", "a">>} |-> <<"ws", "hub">>], [at \in {<<"ws", "a">>} |-> <<"a">>]}
\* the keys of Provenance are files: looked at once, before a run
ASSUME Keys == SpellingsAgree
=============================================================================
