------------------------------- MODULE Verifier -------------------------------
(***************************************************************************)
(* The verifier (salienceos/verifier): obligations derived from a signed   *)
(* envelope, claims read off a receipt, world facts observed on the host,  *)
(* and compose(), the fail-closed fold of the three into a verdict.  All   *)
(* of it is pure but the two audit stores; SaliencePlane drives it.        *)
(*                                                                         *)
(* Abstracted: a signature is one bit; a hash is the content it digests;   *)
(* an obligation id is <<envelope, kind, subject>>; a verdict's details    *)
(* are left out.  A workspace is what each path holds and the paths that   *)
(* are closed to the observer: a file it may not read, a directory it may  *)
(* not list.  A receipt makes at most one claim on an obligation           *)
(* (claims_from_receipt), so evidence is a set and "the first claim" is    *)
(* the only one.                                                           *)
(***************************************************************************)
EXTENDS Integers, FiniteSets

CONSTANTS
  Path,        \* paths a workspace, an envelope or a receipt may name
  Content,     \* what a regular file may hold
  Ancestors,   \* path -> its strict ancestor directories in the workspace
  Escaping,    \* the paths that resolve outside the workspace
  NoOracle     \* the expectation None: met by agreement only

ASSUME PathsAssumption == Ancestors \in [Path -> SUBSET Path] /\ Escaping \subseteq Path

Ops == {"file.write", "dir.make", "file.delete", "shell.run"}
Stakes == {"low", "normal", "high", "critical"}
StakesRank == [low |-> 1, normal |-> 2, high |-> 3, critical |-> 4]
NoStakes == "none"
TwoSource == {"high", "critical"}

\* what may be at a path of a workspace
Kind == Content \cup {"none", "dir", "symlink", "special"}

Workspaces == [holds : [Path -> Kind], closed : SUBSET Path]

\* what snapshot_tree records of a path; a path it has no entry for is "none"
Marker == Kind \cup {"unreadable"}

-----------------------------------------------------------------------------
(* Envelope and contract *)

\* the stronger of two stakes; what is not a Stakes is absent
MaxStakes(a, b) ==
  IF a \in Stakes /\ b \in Stakes THEN (IF StakesRank[a] >= StakesRank[b] THEN a ELSE b)
  ELSE IF a \in Stakes THEN a ELSE IF b \in Stakes THEN b ELSE NoStakes

Obligation(env, kind, subject, expectation) ==
  [id |-> <<env.id, kind, subject>>, kind |-> kind, subject |-> subject, expectation |-> expectation]

NoSubject == ""

\* the paths an operation declares it changes
Declared(env) == IF env.op = "shell.run" THEN env.outputs ELSE {env.path}

Floor(env, expectedExit) ==
  {Obligation(env, "exit_status", NoSubject, expectedExit),
   Obligation(env, "write_set", NoSubject, Declared(env))}

SideEffects(env) ==
  CASE env.op = "file.write"  -> {Obligation(env, "artifact_hash", env.path, env.content)}
    [] env.op = "dir.make"    -> {Obligation(env, "path_state", env.path, "present:dir")}
    [] env.op = "file.delete" -> {Obligation(env, "path_state", env.path, "absent")}
    [] env.op = "shell.run"   -> {Obligation(env, "artifact_hash", out, NoOracle) : out \in env.outputs}

\* an operation without a builder, or malformed arguments, have no contract
BuildContract(env) ==
  IF env.op \notin Ops \/ env.malformed THEN {}
  ELSE Floor(env, IF env.op = "shell.run" THEN env.exit ELSE 0) \cup SideEffects(env)

-----------------------------------------------------------------------------
(* Evidence *)

Evidence(type, eid, kind, subject, value, mode) ==
  [type |-> type, id |-> <<eid, kind, subject>>, kind |-> kind, value |-> value, mode |-> mode]

Claim(eid, kind, subject, value) == Evidence("claim", eid, kind, subject, value, "executor_self_report")
World(eid, kind, subject, value, mode) == Evidence("world", eid, kind, subject, value, mode)

\* everything a receipt asserts is a claim, its own authenticity included
ClaimsFromReceipt(receipt, authentic) ==
  {Claim(receipt.eid, "exit_status", NoSubject, receipt.exit),
   Claim(receipt.eid, "write_set", NoSubject, receipt.writeSet),
   Claim(receipt.eid, "receipt_integrity", NoSubject, IF authentic THEN "authentic" ELSE "unauthentic")}
  \cup {Claim(receipt.eid, "artifact_hash", p, receipt.hashes[p]) : p \in DOMAIN receipt.hashes}

-----------------------------------------------------------------------------
(* Observers: a snapshot before, one after, and reads of the declared paths *)

\* os.walk passes by a directory it cannot list, without an error
Hidden(tree, p) == Ancestors[p] \cap tree.closed # {}

Unreadable(tree, p) == p \in tree.closed /\ tree.holds[p] \in Content

\* any change of what is hidden, or of what stays unreadable, leaves the markers as they are
Snapshot(tree) ==
  [p \in Path |-> IF Hidden(tree, p) THEN "none"
                  ELSE IF Unreadable(tree, p) THEN "unreadable" ELSE tree.holds[p]]

Rehash(tree, p) == IF p \in Escaping \/ tree.holds[p] \notin Content THEN "absent" ELSE tree.holds[p]

\* a symbolic link and a special file are reported as nothing
PathState(tree, p) ==
  CASE p \in Escaping \/ tree.holds[p] = "symlink" -> "absent"
    [] p \notin Escaping /\ tree.holds[p] = "dir" -> "present:dir"
    [] p \notin Escaping /\ tree.holds[p] \in Content -> "present:file"
    [] OTHER -> "absent"

ObservedWriteSet(pre, post, exempt) == {p \in Path \ (exempt \cup Escaping) : pre[p] # post[p]}

\* the subjects whose side effect the reference wiring observes
Subjects(env) == IF env.op \in Ops THEN Declared(env) ELSE {}

\* ancestors this action brought into being: by transition, not by name
Exempt(env, pre, post) ==
  {a \in (UNION {Ancestors[s] : s \in Subjects(env)}) \ Subjects(env) :
     pre[a] = "none" /\ post[a] = "dir"}

\* the operations whose subjects are read, the others' are looked at
Reads(env) == env.op \in {"file.write", "shell.run"}

\* a subject that cannot be read raises; one in a directory that cannot be
\* listed may raise too, unless that directory can be searched all the same
Raises(env, tree) == Reads(env) /\ \E s \in Subjects(env) \ Escaping : Unreadable(tree, s)
MayRaise(env, tree) == Raises(env, tree) \/ \E s \in Subjects(env) \ Escaping : Hidden(tree, s)

\* pre and post are the snapshots taken before and after, tree what the second was taken of
ObserveAction(env, pre, post, tree, exit) ==
  {World(env.id, "exit_status", NoSubject, exit, "supervisor_exit"),
   World(env.id, "write_set", NoSubject, ObservedWriteSet(pre, post, Exempt(env, pre, post)),
         "host_snapshot_diff")}
  \cup {IF Reads(env)
        THEN World(env.id, "artifact_hash", s, Rehash(tree, s), "host_rehash")
        ELSE World(env.id, "path_state", s, PathState(tree, s), "host_stat") : s \in Subjects(env)}

-----------------------------------------------------------------------------
(* The composer *)

Verdict(status, reasons) == [status |-> status, reasons |-> reasons]
Unverified(reasons) == Verdict("UNVERIFIED", reasons)

On(o, evidence) == {e \in evidence : e.id = o.id /\ e.kind = o.kind}

\* a fact against the expectation, or a world fact against the claim
Contradicted(o, claims, world) ==
  \/ /\ o.expectation # NoOracle
     /\ \E e \in On(o, world) \cup On(o, claims) : e.value # o.expectation
  \/ \E w \in On(o, world), c \in On(o, claims) : w.value # c.value

RequiredSources(stakes) == IF stakes \in TwoSource THEN 2 ELSE 1

\* what the obligation must be shown to be
Target(o, claims) ==
  IF o.expectation # NoOracle THEN o.expectation ELSE (CHOOSE c \in On(o, claims) : TRUE).value

HasTarget(o, claims) == o.expectation # NoOracle \/ On(o, claims) # {}

Matching(o, claims, world) == {w \in On(o, world) : w.value = Target(o, claims)}

\* agreeing world facts whose failure mode is not the claim's, by mode
IndependentModes(o, claims, world) ==
  {w.mode : w \in Matching(o, claims, world)} \ {c.mode : c \in On(o, claims)}

Met == "met"

AgreementGap(o, claims, world, stakes) ==
  IF ~HasTarget(o, claims) THEN "NO_WORLD_FACT"
  ELSE IF Matching(o, claims, world) = {} THEN "NO_WORLD_FACT"
  ELSE IF IndependentModes(o, claims, world) = {} THEN "NO_DISTINCT_FAILURE_MODE"
  ELSE IF Cardinality(IndependentModes(o, claims, world)) < RequiredSources(stakes)
       THEN "INSUFFICIENT_CHANNELS"
  ELSE Met

ReceiptAttested(claims) == \E c \in claims : c.kind = "receipt_integrity" /\ c.value = "authentic"

HasFloor(contract) ==
  LET kinds == {o.kind : o \in contract} IN
  /\ {"exit_status", "write_set"} \subseteq kinds
  /\ kinds \cap {"artifact_hash", "path_state"} # {}

Compose(contract, claimEvidence, worldEvidence, stakes) ==
  LET claims == {e \in claimEvidence : e.type = "claim"}
      world  == {e \in worldEvidence : e.type = "world"}
      fence  == IF claims # claimEvidence \/ world # worldEvidence THEN {"TYPE_FENCE"} ELSE {}
      unmet  == {o \in contract : AgreementGap(o, claims, world, stakes) # Met}
      gaps   == {AgreementGap(o, claims, world, stakes) : o \in unmet}
      attested == /\ ReceiptAttested(claims)
                  /\ unmet = contract
                  /\ gaps \subseteq {"NO_WORLD_FACT", "NO_DISTINCT_FAILURE_MODE"}
  IN  IF contract = {} THEN Unverified({"NO_CONTRACT"} \cup fence)
      ELSE IF ~HasFloor(contract) THEN Unverified({"MISSING_FLOOR"} \cup fence)
      ELSE IF stakes \notin Stakes THEN Unverified({"INVALID_STAKES"} \cup fence)
      ELSE IF \E o \in contract : Contradicted(o, claims, world)
           THEN Verdict("FAILED", {"CONCLUSIVE_CONTRADICTION"})
      ELSE IF unmet # {}
           THEN Unverified(fence \cup gaps \cup IF attested THEN {"INTEGRITY_ATTESTED"} ELSE {})
      ELSE Verdict("VERIFIED", {})

-----------------------------------------------------------------------------
(* The pipeline *)

\* the verdict carries the action it is about and the stakes it ran at
Stamp(verdict, env, stakes) ==
  [status |-> verdict.status, reasons |-> verdict.reasons, envelope |-> env.id, stakes |-> stakes]

\* the verdict of one attempt, over this attempt's evidence alone
Verify(env, receipt, worldEvidence, escalateTo) ==
  LET stakes   == MaxStakes(env.stakes, escalateTo)
      contract == IF env.signed THEN BuildContract(env) ELSE {}
      claims   == ClaimsFromReceipt(receipt, receipt.authentic)
  IN  IF receipt.eid # env.id
      THEN Stamp(Unverified({"RECEIPT_ENVELOPE_MISMATCH"}), env, stakes)
      ELSE Stamp(Compose(contract, claims, worldEvidence, stakes), env, stakes)

\* the claims the audit store appends for the same attempt
StoredClaims(env, receipt) ==
  ClaimsFromReceipt(receipt, receipt.authentic /\ receipt.eid = env.id)

\* the sealed gate: a reported success without a VERIFIED verdict has no row
Recordable(receipt, verdict) == receipt.success => verdict.status = "VERIFIED"

RequireAttested(verdict) ==
  verdict.status = "UNVERIFIED" /\ "INTEGRITY_ATTESTED" \in verdict.reasons
=============================================================================
