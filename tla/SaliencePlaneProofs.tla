------------------------- MODULE SaliencePlaneProofs -------------------------
(***************************************************************************)
(* VerifiedWasDone, for every workspace, executor, receipt and policy: the *)
(* composer meets each obligation by a world fact, every world fact of an  *)
(* attempt is the reference observation or a mirror of it, and the facts   *)
(* of the reference observation together say that the operation was done   *)
(* and that no other path the two snapshots tell of is different.          *)
(***************************************************************************)
EXTENDS SaliencePlane, FiniteSetTheorems, WellFoundedInduction, TLAPS

\* Lemmas on the composer: VERIFIED has no gap, and a met obligation with an
\* expectation has a world fact that states it.
Claims(E) == {e \in E : e.type = "claim"}
Worlds(E) == {e \in E : e.type = "world"}

LEMMA VerifiedHasNoGap ==
  ASSUME NEW contract, NEW C, NEW W, NEW stakes,
         Compose(contract, C, W, stakes).status = "VERIFIED"
  PROVE  /\ HasFloor(contract)
         /\ \A o \in contract : AgreementGap(o, Claims(C), Worlds(W), stakes) = Met
  BY DEF Compose, Unverified, Verdict, Claims, Worlds

LEMMA MetByAWorldFact ==
  ASSUME NEW o, NEW C, NEW W, NEW stakes,
         o.expectation # NoOracle, AgreementGap(o, C, W, stakes) = Met
  PROVE  \E w \in W : w.id = o.id /\ w.kind = o.kind /\ w.value = o.expectation
  BY DEF AgreementGap, Met, Matching, On, Target

\* the reference observation of the attempt, and the write set in it
Observed == ObserveAction(envelope, Snapshot(before), Snapshot(tree), tree, exit)
SeenWriteSet ==
  ObservedWriteSet(Snapshot(before), Snapshot(tree), Exempt(envelope, Snapshot(before), Snapshot(tree)))

\* what an attempt may observe is what the reference wiring does, per fact
LEMMA ObservedIsReference ==
  ASSUME stage = "ran", NEW W \in Observations, NEW w \in W
  PROVE  \E f \in Observed :
            w.id = f.id /\ w.kind = f.kind /\ w.value = f.value
  <1> DEFINE facts == Observed
  <1>1. W \in {{}, facts, Mirrored(facts, "executor_self_report"), Mirrored(facts, "second_source")}
    BY DEF Observations, Observed
  <1>2. CASE w \in facts
    BY <1>2
  <1>3. CASE w \notin facts
    <2>1. PICK f \in facts, mode \in {"executor_self_report", "second_source"} : w = InMode(f, mode)
      BY <1>1, <1>3 DEF Mirrored
    <2> QED BY <2>1 DEF InMode
  <1> QED BY <1>2, <1>3

\* a met obligation with an expectation was observed to be so
LEMMA MetWasObserved ==
  ASSUME stage = "ran", NEW W \in Observations, NEW C, NEW stakes,
         NEW o, o.expectation # NoOracle, AgreementGap(o, C, Worlds(W), stakes) = Met
  PROVE  \E f \in Observed :
            f.id = o.id /\ f.kind = o.kind /\ f.value = o.expectation
  <1>1. PICK w \in Worlds(W) : w.id = o.id /\ w.kind = o.kind /\ w.value = o.expectation
    BY MetByAWorldFact
  <1>2. w \in W
    BY DEF Worlds
  <1>3. QED BY <1>1, <1>2, ObservedIsReference

\* The reference observation of a write set, an artifact and a path state say
\* what they are named for.
LEMMA WriteSetFact ==
  ASSUME NEW f \in Observed, f.kind = "write_set"
  PROVE  f.value = SeenWriteSet
  BY DEF Observed, SeenWriteSet, ObserveAction, World, Evidence

LEMMA ArtifactFact ==
  ASSUME NEW f \in Observed, NEW p,
         f.kind = "artifact_hash", f.id = <<envelope.id, "artifact_hash", p>>
  PROVE  f.value = Rehash(tree, p)
  BY DEF Observed, ObserveAction, World, Evidence

LEMMA PathStateFact ==
  ASSUME NEW f \in Observed, NEW p,
         f.kind = "path_state", f.id = <<envelope.id, "path_state", p>>
  PROVE  f.value = PathState(tree, p)
  BY DEF Observed, ObserveAction, World, Evidence

\* What a marker says of the path: "none" that no listing shows it, "unreadable"
\* that it is a file nobody may read, any other that the path holds it.
LEMMA MarkerSays ==
  ASSUME NEW ws \in Workspaces, NEW p \in Path
  PROVE  Snapshot(ws)[p] = CASE Sight(ws, p) = "unlisted"   -> "none"
                             [] Sight(ws, p) = "unreadable" -> "unreadable"
                             [] OTHER -> ws.holds[p]
  <1>1. Snapshot(ws)[p] = IF Hidden(ws, p) THEN "none"
                          ELSE IF Unreadable(ws, p) THEN "unreadable" ELSE ws.holds[p]
    BY DEF Snapshot
  <1>2. ws.holds[p] = "none" => ~Unreadable(ws, p)
    BY MarkersAssumption DEF Unreadable
  <1> QED BY <1>1, <1>2 DEF Sight, Unlisted

LEMMA HeldIsNoMark ==
  ASSUME NEW ws \in Workspaces, NEW p \in Path
  PROVE  /\ ws.holds[p] # "unreadable"
         /\ Sight(ws, p) \in {"unlisted", "unreadable", "open"}
         /\ Sight(ws, p) = "open" => ws.holds[p] # "none"
  BY MarkersAssumption DEF Workspaces, Kind, Sight, Unlisted

\* A change the snapshots do not show is out of sight; what they show is a
\* change, or a path that was opened or closed.
LEMMA SnapshotsTell ==
  ASSUME before \in Workspaces, tree \in Workspaces, NEW p \in Path \ Escaping
  PROVE  /\ Snapshot(before)[p] = Snapshot(tree)[p] /\ p \in Changed => p \in OutOfSight
         /\ Snapshot(before)[p] # Snapshot(tree)[p] => p \in Changed \cup Uncovered
  BY MarkerSays, HeldIsNoMark DEF Changed, OutOfSight, Uncovered

\* a directory the write set leaves out was not listed before
LEMMA ExemptIsEntailed ==
  ASSUME before \in Workspaces, tree \in Workspaces, envelope.op \in Ops,
         NEW a \in Path, a \in Exempt(envelope, Snapshot(before), Snapshot(tree))
  PROVE  a \in Entailed
  <1>1. /\ a \in UNION {Ancestors[s] : s \in Declared(envelope)}
        /\ Snapshot(before)[a] = "none" /\ Snapshot(tree)[a] = "dir"
    BY DEF Exempt, Subjects
  <1>2. Sight(before, a) = "unlisted"
    BY <1>1, MarkerSays, HeldIsNoMark
  <1>3. tree.holds[a] = "dir"
    BY <1>1, MarkerSays, HeldIsNoMark
  <1> QED BY <1>1, <1>2, <1>3 DEF Entailed, Sight

\* the write set agreed with the declaration: nothing but it and the entailed
\* directories changed in sight
LEMMA AgreedWriteSet ==
  ASSUME SeenWriteSet = Declared(envelope), envelope.op \in Ops,
         before \in Workspaces, tree \in Workspaces
  PROVE  /\ Declared(envelope) \subseteq Changed \cup Uncovered
         /\ Changed \subseteq Declared(envelope) \cup Entailed \cup OutOfSight
  <1>1. ASSUME NEW p \in Declared(envelope) PROVE p \in Changed \cup Uncovered
    <2>1. p \in Path \ Escaping /\ Snapshot(before)[p] # Snapshot(tree)[p]
      BY <1>1 DEF SeenWriteSet, ObservedWriteSet
    <2> QED BY <2>1, SnapshotsTell
  <1>2. ASSUME NEW p \in Changed, p \notin Declared(envelope) PROVE p \in Entailed \cup OutOfSight
    <2>1. p \in Path \ Escaping
      BY DEF Changed
    <2>2. CASE Snapshot(before)[p] = Snapshot(tree)[p]
      BY <2>1, <2>2, SnapshotsTell
    <2>3. CASE p \in Exempt(envelope, Snapshot(before), Snapshot(tree))
      BY <2>1, <2>3, ExemptIsEntailed
    <2> QED BY <1>2, <2>1, <2>2, <2>3 DEF SeenWriteSet, ObservedWriteSet
  <1> QED BY <1>1, <1>2

-----------------------------------------------------------------------------
(* One attempt *)

CanVerify == envelope \in EnvelopeOf /\ before \in Workspaces /\ tree \in Workspaces

LEMMA AttemptVerifiesDone ==
  ASSUME CanVerify, stage = "ran", NEW W \in Observations, NEW receipt, NEW escalation,
         Verify(envelope, receipt, W, escalation).status = "VERIFIED"
  PROVE  /\ envelope.signed
         /\ Verify(envelope, receipt, W, escalation).envelope = envelope.id
         /\ Done
  <1> DEFINE contract == IF envelope.signed THEN BuildContract(envelope) ELSE {}
             claims == ClaimsFromReceipt(receipt, receipt.authentic)
             stakes == MaxStakes(envelope.stakes, escalation)
  <1>1. Compose(contract, claims, W, stakes).status = "VERIFIED"
    BY DEF Verify, Stamp, Unverified, Verdict
  <1>2. /\ HasFloor(contract)
        /\ \A o \in contract : AgreementGap(o, Claims(claims), Worlds(W), stakes) = Met
    BY <1>1, VerifiedHasNoGap
  <1>3. contract # {}
    BY <1>2 DEF HasFloor
  <1>4. /\ envelope.signed /\ envelope.op \in Ops
        /\ contract = Floor(envelope, IF envelope.op = "shell.run" THEN envelope.exit ELSE 0)
                          \cup SideEffects(envelope)
    BY <1>3 DEF BuildContract
  <1>5. Verify(envelope, receipt, W, escalation).envelope = envelope.id
    BY DEF Verify, Stamp
  <1>6. SeenWriteSet = Declared(envelope)
    <2> DEFINE o == Obligation(envelope, "write_set", NoSubject, Declared(envelope))
    <2>1. o \in contract
      BY <1>4 DEF Floor
    <2>2. Declared(envelope) \in SUBSET Path
      BY DEF CanVerify, EnvelopeOf, Declared
    <2>3. o.expectation = Declared(envelope) /\ o.kind = "write_set"
      BY DEF Obligation
    <2>4. PICK f \in Observed :
             f.id = o.id /\ f.kind = o.kind /\ f.value = o.expectation
      BY <2>1, <2>2, <2>3, <1>2, MetWasObserved, NoOracleAssumption
    <2>5. QED BY <2>3, <2>4, WriteSetFact
  <1>7. CASE envelope.op = "file.write"
    <2> DEFINE o == Obligation(envelope, "artifact_hash", envelope.path, envelope.content)
    <2>1. o \in contract
      BY <1>4, <1>7 DEF SideEffects
    <2>2. envelope.content \in Content
      BY DEF CanVerify, EnvelopeOf
    <2>3. /\ o.expectation = envelope.content /\ o.kind = "artifact_hash"
          /\ o.id = <<envelope.id, "artifact_hash", envelope.path>>
      BY DEF Obligation
    <2>4. PICK f \in Observed :
             f.id = o.id /\ f.kind = o.kind /\ f.value = o.expectation
      BY <2>1, <2>2, <2>3, <1>2, MetWasObserved, NoOracleAssumption
    <2>5. Rehash(tree, envelope.path) = envelope.content
      BY <2>3, <2>4, ArtifactFact
    <2>6. tree.holds[envelope.path] = envelope.content
      BY <2>5, <2>2, MarkersAssumption DEF Rehash
    <2>7. QED BY <1>4, <1>5, <1>6, <1>7, <2>6, AgreedWriteSet DEF Done, CanVerify
  <1>8. CASE envelope.op \in {"dir.make", "file.delete"}
    <2> DEFINE wanted == IF envelope.op = "dir.make" THEN "present:dir" ELSE "absent"
               o == Obligation(envelope, "path_state", envelope.path, wanted)
    <2>1. o \in contract
      BY <1>4, <1>8 DEF SideEffects
    <2>3. /\ o.expectation = wanted /\ o.kind = "path_state"
          /\ o.id = <<envelope.id, "path_state", envelope.path>>
      BY DEF Obligation
    <2>4. PICK f \in Observed :
             f.id = o.id /\ f.kind = o.kind /\ f.value = o.expectation
      BY <2>1, <2>3, <1>2, <1>8, MetWasObserved, NoOracleAssumption
    <2>5. PathState(tree, envelope.path) = wanted
      BY <2>3, <2>4, PathStateFact
    <2>6. envelope.path \in Path \ Escaping
      BY <1>6, <1>8 DEF Declared, SeenWriteSet, ObservedWriteSet
    <2>7. IF envelope.op = "dir.make" THEN tree.holds[envelope.path] = "dir"
          ELSE tree.holds[envelope.path] \notin Content \cup {"dir"}
      BY <2>5, <2>6, <1>8, MarkersAssumption DEF PathState
    <2>8. QED BY <1>4, <1>5, <1>6, <1>8, <2>7, AgreedWriteSet DEF Done, CanVerify
  <1>9. CASE envelope.op = "shell.run"
    <2>1. envelope.outputs # {}
      BY <1>2, <1>4, <1>9 DEF HasFloor, Floor, SideEffects, Obligation
    <2>2. QED BY <1>4, <1>5, <1>6, <1>9, <2>1, AgreedWriteSet DEF Done, CanVerify
  <1>10. QED BY <1>4, <1>7, <1>8, <1>9 DEF Ops

-----------------------------------------------------------------------------
(* The invariant: before an attempt there is no outcome, and an outcome    *)
(* speaks of the workspaces of its own attempt.                            *)

Undecided == {"open", "directed", "authorized", "ran", "failed"}
Stage == Undecided \cup {"governed", "learned"}

NothingYet == stage \in Undecided => outcome = Null /\ row = "none"
EnvelopeFits == stage \notin {"open", "directed"} => envelope \in EnvelopeOf
TreesFit == before \in Workspaces /\ tree \in Workspaces
GovernedWasDone == stage \in {"governed", "learned"} /\ outcome.verdict.status = "VERIFIED" => Done
PlaneInv == stage \in Stage /\ NothingYet /\ EnvelopeFits /\ TreesFit /\ VerifiedWasDone /\ GovernedWasDone

LEMMA StakesAreNamed ==
  ASSUME NEW a \in Stakes \cup {NoStakes}, NEW b \in Stakes \cup {NoStakes}
  PROVE  MaxStakes(a, b) \in Stakes \cup {NoStakes}
  BY Zenon DEF MaxStakes

LEMMA EscalationIsNamed ==
  \A depth : EscalationFor(depth) \in Stakes \cup {NoStakes}
  BY DEF EscalationFor, Stakes

LEMMA SignedStakes ==
  ASSUME NEW e \in EnvelopeOf, NEW asked \in BOOLEAN
  PROVE  [e EXCEPT !.stakes = IF asked THEN StakesFor(directive, e.stakes) ELSE e.stakes] \in EnvelopeOf
  <1>1. e.stakes \in Stakes \cup {NoStakes}
    BY DEF EnvelopeOf
  <1>2. StakesFor(directive, e.stakes) \in Stakes \cup {NoStakes}
    BY <1>1, EscalationIsNamed, StakesAreNamed, Zenon DEF StakesFor
  <1>3. (IF asked THEN StakesFor(directive, e.stakes) ELSE e.stakes) \in Stakes \cup {NoStakes}
    BY <1>1, <1>2
  <1>4. QED BY <1>3 DEF EnvelopeOf

\* An outcome whose verdict is VERIFIED was given by a verification.
LEMMA GovernedByVerify ==
  ASSUME NEW receipt, NEW W, Govern(directive, envelope, receipt, W).verdict.status = "VERIFIED"
  PROVE  Govern(directive, envelope, receipt, W).verdict
            = Verify(envelope, receipt, W, EscalationFor(directive.depth))
  BY DEF Govern, Decide, Denied, NullVerdict

LEMMA PlaneInit == Init => PlaneInv
  BY TreesAssumption DEF Init, PlaneInv, Stage, Undecided, NothingYet, EnvelopeFits, TreesFit, VerifiedWasDone, GovernedWasDone

LEMMA PlaneStep == PlaneInv /\ [Next]_vars => PlaneInv'
  <1> SUFFICES ASSUME PlaneInv, [Next]_vars PROVE PlaneInv'
    OBVIOUS
  <1> USE DEF Stage, Undecided
  <1>1. ASSUME NEW s \in Signals, Publish(s) PROVE PlaneInv'
    BY <1>1 DEF Publish, PlaneInv, NothingYet, EnvelopeFits, TreesFit, VerifiedWasDone, GovernedWasDone
  <1>2. ASSUME NEW p \in Policies, NEW readable \in BOOLEAN, Arbitrate(p, readable) PROVE PlaneInv'
    BY <1>2 DEF Arbitrate, PlaneInv, NothingYet, EnvelopeFits, TreesFit, VerifiedWasDone, GovernedWasDone
  <1>3. ASSUME NEW e \in Envelopes, NEW asked \in BOOLEAN, Authorize(e, asked) PROVE PlaneInv'
    <2>1. envelope' \in EnvelopeOf
      BY <1>3, EnvelopesAssumption, SignedStakes DEF Authorize
    <2>2. stage' = "authorized" /\ outcome' = Null /\ row' = "none" /\ TreesFit'
      BY <1>3 DEF Authorize, PlaneInv, NothingYet, TreesFit
    <2> QED BY <2>1, <2>2 DEF PlaneInv, NothingYet, EnvelopeFits, VerifiedWasDone, GovernedWasDone
  <1>4. ASSUME NEW post \in Trees, NEW code \in Exits, Execute(post, code) PROVE PlaneInv'
    <2>1. TreesFit'
      BY <1>4, TreesAssumption DEF Execute, PlaneInv, TreesFit
    <2>2. stage' = "ran" /\ outcome' = Null /\ row' = "none" /\ envelope' \in EnvelopeOf
      BY <1>4 DEF Execute, PlaneInv, NothingYet, EnvelopeFits
    <2> QED BY <2>1, <2>2 DEF PlaneInv, NothingYet, EnvelopeFits, VerifiedWasDone, GovernedWasDone
  <1>5. ASSUME NEW receipt \in Receipts, NEW world \in Observations, Attempt(receipt, world)
        PROVE PlaneInv'
    <2>1. /\ stage = "ran" /\ stage' = "governed" /\ CanVerify
          /\ envelope' = envelope /\ before' = before /\ tree' = tree
      BY <1>5 DEF Attempt, PlaneInv, EnvelopeFits, TreesFit, CanVerify
    <2>2. TreesFit' /\ NothingYet' /\ EnvelopeFits'
      BY <2>1 DEF PlaneInv, TreesFit, NothingYet, EnvelopeFits, CanVerify
    <2>3. outcome' = Govern(directive, envelope, receipt, world)
      BY <1>5 DEF Attempt
    <2>4. ASSUME outcome'.verdict.status = "VERIFIED"
          PROVE  envelope.signed /\ outcome'.verdict.envelope = envelope.id /\ Done
      <3>1. outcome'.verdict = Verify(envelope, receipt, world, EscalationFor(directive.depth))
        BY <2>3, <2>4, GovernedByVerify
      <3>2. QED BY <3>1, <2>1, <2>4, AttemptVerifiesDone
    <2>5. Done' <=> Done
      BY <2>1 DEF Done, Changed, Entailed, Uncovered, OutOfSight, Declared
    <2>6. row' = "success" => outcome'.verdict.status = "VERIFIED"
      BY <1>5 DEF Attempt, Recordable
    <2> QED BY <2>1, <2>2, <2>4, <2>5, <2>6 DEF PlaneInv, VerifiedWasDone, GovernedWasDone
  <1>6. CASE Replay
    BY <1>6 DEF Replay, PlaneInv, NothingYet, EnvelopeFits, TreesFit, VerifiedWasDone, GovernedWasDone
  <1>7. CASE Learn
    <2>1. Done' <=> Done
      BY <1>7 DEF Learn, Done, Changed, Entailed, Uncovered, OutOfSight, Declared
    <2> QED BY <1>7, <2>1 DEF Learn, PlaneInv, NothingYet, EnvelopeFits, TreesFit, VerifiedWasDone, GovernedWasDone
  <1>8. CASE UNCHANGED vars
    <2>1. Done' <=> Done
      BY <1>8 DEF vars, Done, Changed, Entailed, Uncovered, OutOfSight, Declared
    <2> QED BY <1>8, <2>1 DEF vars, PlaneInv, NothingYet, EnvelopeFits, TreesFit, VerifiedWasDone, GovernedWasDone
  <1>9. CASE ObservationFails
    BY <1>9 DEF ObservationFails, PlaneInv, NothingYet, EnvelopeFits, TreesFit, VerifiedWasDone, GovernedWasDone
  <1> QED BY <1>1, <1>2, <1>3, <1>4, <1>5, <1>6, <1>7, <1>8, <1>9 DEF Next

\* Whatever the executor does and claims, whatever it opens or closes to the
\* observer, and however a receipt is replayed: a VERIFIED verdict and a recorded
\* success are about an attempt that left the authorized state behind and made no
\* other change but of paths no observer could read, or see, at either time.
THEOREM VerificationIsReal == Spec => []VerifiedWasDone
  <1>1. PlaneInv => VerifiedWasDone
    BY DEF PlaneInv
  <1> QED BY <1>1, PlaneInit, PlaneStep, PTL DEF Spec

-----------------------------------------------------------------------------
\* Every nonempty set of numbers has a least one: what an induction needs.
LEMMA LeastNumber ==
  ASSUME NEW T \in SUBSET Nat, T # {}
  PROVE  \E n \in T : \A m \in T : n <= m
<1> DEFINE family == {1..n : n \in T}
<1>1. family \subseteq FiniteSubsetsOf(Nat) /\ family # {}
  <2>1. ASSUME NEW n \in T PROVE 1..n \in SUBSET Nat /\ IsFiniteSet(1..n)
    BY FS_Interval
  <2> QED BY <2>1 DEF FiniteSubsetsOf
<1> HIDE DEF family
<1>2. PICK S \in family : \A R \in family : <<R, S>> \notin StrictSubsetOrdering(Nat)
  BY <1>1, FS_StrictSubsetOrderingWellFounded, WFMin, Zenon
<1>3. PICK n \in T : S = 1..n
  BY <1>2 DEF family
<1>4. ASSUME NEW m \in T, m < n PROVE FALSE
  <2>1. 1..m \subseteq S /\ n \in S /\ n \notin 1..m /\ S \in SUBSET Nat
    BY <1>3, <1>4
  <2>2. <<1..m, S>> \in StrictSubsetOrdering(Nat) /\ 1..m \in family
    BY <2>1 DEF StrictSubsetOrdering, family
  <2> QED BY <1>2, <2>2
<1> QED BY <1>4

(* Sums over a finite set, as MapThenSumSet takes them: member by member *)

Taken(s) == CHOOSE x \in s : TRUE

\* f is the sum of F over every set of the family
Sums(f, F, family) == f = [s \in family |-> IF s = {} THEN 0 ELSE F[Taken(s)] + f[s \ {Taken(s)}]]

UpTo(S, n) == {s \in SUBSET S : Cardinality(s) <= n}

LEMMA OneLess ==
  ASSUME NEW S, IsFiniteSet(S), NEW s \in SUBSET S, s # {}
  PROVE  /\ Taken(s) \in s /\ s \ {Taken(s)} \in SUBSET S /\ IsFiniteSet(s)
         /\ Cardinality(s) \in Nat /\ Cardinality(s \ {Taken(s)}) = Cardinality(s) - 1
<1>1. Taken(s) \in s
  BY DEF Taken
<1>2. IsFiniteSet(s)
  BY FS_Subset
<1>3. Cardinality(s) \in Nat /\ Cardinality(s \ {Taken(s)}) = Cardinality(s) - 1
  BY <1>1, <1>2, FS_RemoveElement, FS_CardinalityType
<1> QED BY <1>1, <1>2, <1>3

LEMMA SumsExistUpTo ==
  ASSUME NEW S, IsFiniteSet(S), NEW F
  PROVE  \A n \in Nat : \E f : Sums(f, F, UpTo(S, n))
<1> DEFINE T == {n \in Nat : ~\E f : Sums(f, F, UpTo(S, n))}
<1>1. ASSUME NEW n \in T, \A m \in T : n <= m PROVE FALSE
  <2>1. n \in Nat /\ ~\E f : Sums(f, F, UpTo(S, n))
    OBVIOUS
  <2>2. n # 0
    <3>1. ASSUME NEW s \in UpTo(S, 0) PROVE s = {}
      <4>1. s \in SUBSET S /\ Cardinality(s) <= 0
        BY DEF UpTo
      <4>2. IsFiniteSet(s) /\ Cardinality(s) \in Nat
        BY <4>1, FS_Subset, FS_CardinalityType
      <4> QED BY <4>1, <4>2, FS_EmptySet
    <3>2. Sums([s \in UpTo(S, 0) |-> 0], F, UpTo(S, 0))
      BY <3>1 DEF Sums
    <3> QED BY <2>1, <3>2
  <2>3. PICK f : Sums(f, F, UpTo(S, n - 1))
    <3>1. n - 1 \in Nat /\ n - 1 \notin T
      BY <1>1, <2>1, <2>2
    <3> QED BY <3>1
  <2> DEFINE g == [s \in UpTo(S, n) |-> IF s = {} THEN 0 ELSE F[Taken(s)] + f[s \ {Taken(s)}]]
  <2>4. ASSUME NEW s \in UpTo(S, n), s # {} PROVE g[s \ {Taken(s)}] = f[s \ {Taken(s)}]
    <3> DEFINE t == s \ {Taken(s)}
    <3>1. s \in SUBSET S /\ Cardinality(s) <= n
      BY DEF UpTo
    <3>2. t \in SUBSET S /\ Cardinality(s) \in Nat /\ Cardinality(t) = Cardinality(s) - 1
      BY <2>4, <3>1, OneLess
    <3> HIDE DEF t
    <3>3. t \in UpTo(S, n) /\ t \in UpTo(S, n - 1)
      BY <2>1, <3>1, <3>2 DEF UpTo
    <3>4. f[t] = IF t = {} THEN 0 ELSE F[Taken(t)] + f[t \ {Taken(t)}]
      BY <2>3, <3>3 DEF Sums
    <3>5. g[t] = IF t = {} THEN 0 ELSE F[Taken(t)] + f[t \ {Taken(t)}]
      BY <3>3
    <3> QED BY <3>4, <3>5 DEF t
  <2>5. Sums(g, F, UpTo(S, n))
    <3>1. g = [s \in UpTo(S, n) |-> IF s = {} THEN 0 ELSE F[Taken(s)] + g[s \ {Taken(s)}]]
      <4>1. ASSUME NEW s \in UpTo(S, n)
            PROVE  g[s] = IF s = {} THEN 0 ELSE F[Taken(s)] + g[s \ {Taken(s)}]
        <5>1. g[s] = IF s = {} THEN 0 ELSE F[Taken(s)] + f[s \ {Taken(s)}]
          OBVIOUS
        <5> HIDE DEF g
        <5> QED BY <2>4, <5>1
      <4>2. g = [s \in UpTo(S, n) |-> g[s]]
        OBVIOUS
      <4> HIDE DEF g
      <4> QED BY <4>1, <4>2
    <3> HIDE DEF g
    <3> QED BY <3>1 DEF Sums
  <2> QED BY <2>1, <2>5
<1>2. T = {}
  <2>1. T \in SUBSET Nat
    OBVIOUS
  <2> HIDE DEF T
  <2> QED BY <1>1, <2>1, LeastNumber
<1> QED BY <1>2

LEMMA SumsExist ==
  ASSUME NEW S, IsFiniteSet(S), NEW F
  PROVE  \E f : Sums(f, F, SUBSET S)
<1>1. Cardinality(S) \in Nat
  BY FS_CardinalityType
<1>2. UpTo(S, Cardinality(S)) = SUBSET S
  <2>1. ASSUME NEW s \in SUBSET S PROVE Cardinality(s) <= Cardinality(S)
    BY FS_Subset
  <2> QED BY <2>1 DEF UpTo
<1>3. \E f : Sums(f, F, UpTo(S, Cardinality(S)))
  BY <1>1, SumsExistUpTo
<1> QED BY <1>2, <1>3

\* two sums, member by member: of a weight, and of what it weighs
LEMMA SumsCompared ==
  ASSUME NEW S, IsFiniteSet(S), NEW W \in [S -> Nat], NEW M \in [S -> Nat], NEW c \in Nat,
         NEW w, Sums(w, W, SUBSET S), NEW m, Sums(m, M, SUBSET S)
  PROVE  /\ w[S] \in Nat /\ m[S] \in Nat
         /\ (\A x \in S : W[x] = 0) => w[S] = 0
         /\ (\A x \in S : M[x] <= c * W[x]) => m[S] <= c * w[S]
         /\ (\A x \in S : M[x] >= c * W[x]) => m[S] >= c * w[S]
<1> DEFINE Good(s) == /\ w[s] \in Nat /\ m[s] \in Nat
                      /\ (\A x \in s : W[x] = 0) => w[s] = 0
                      /\ (\A x \in s : M[x] <= c * W[x]) => m[s] <= c * w[s]
                      /\ (\A x \in s : M[x] >= c * W[x]) => m[s] >= c * w[s]
           T == {n \in Nat : \E s \in SUBSET S : Cardinality(s) = n /\ ~Good(s)}
<1>1. ASSUME NEW s \in SUBSET S
      PROVE  /\ w[s] = IF s = {} THEN 0 ELSE W[Taken(s)] + w[s \ {Taken(s)}]
             /\ m[s] = IF s = {} THEN 0 ELSE M[Taken(s)] + m[s \ {Taken(s)}]
  BY DEF Sums
<1>2. ASSUME NEW n \in T, \A k \in T : n <= k PROVE FALSE
  <2>1. PICK s \in SUBSET S : Cardinality(s) = n /\ ~Good(s)
    OBVIOUS
  <2>2. CASE s = {}
    <3>1. w[s] = 0 /\ m[s] = 0
      BY <1>1, <2>2
    <3> QED BY <2>1, <3>1
  <2>3. CASE s # {}
    <3> DEFINE x == Taken(s)
               t == s \ {x}
    <3>1. x \in s /\ t \in SUBSET S /\ n \in Nat /\ Cardinality(t) = n - 1 /\ n - 1 \in Nat
      <4>1. x \in s /\ t \in SUBSET S /\ Cardinality(t) = Cardinality(s) - 1 /\ IsFiniteSet(s)
        BY <2>3, OneLess
      <4> HIDE DEF x, t
      <4>2. IsFiniteSet(t)
        BY <4>1, FS_Subset
      <4>3. Cardinality(t) \in Nat /\ Cardinality(s) \in Nat
        BY <4>1, <4>2, FS_CardinalityType
      <4>4. Cardinality(s) = n
        BY <2>1
      <4> QED BY <4>1, <4>3, <4>4
    <3>2. Good(t)
      <4>1. n - 1 \notin T
        BY <1>2, <3>1
      <4> QED BY <3>1, <4>1
    <3>3. w[s] = W[x] + w[t] /\ m[s] = M[x] + m[t] /\ W[x] \in Nat /\ M[x] \in Nat
      BY <1>1, <2>3, <3>1
    <3>4. (\A y \in s : W[y] = 0) => W[x] = 0 /\ w[t] = 0
      BY <3>1, <3>2
    <3>5. (\A y \in s : M[y] <= c * W[y]) => M[x] <= c * W[x] /\ m[t] <= c * w[t]
      BY <3>1, <3>2
    <3>6. (\A y \in s : M[y] >= c * W[y]) => M[x] >= c * W[x] /\ m[t] >= c * w[t]
      BY <3>1, <3>2
    <3>7. w[t] \in Nat /\ m[t] \in Nat
      BY <3>2
    <3>8. c * (W[x] + w[t]) = c * W[x] + c * w[t]
      BY <3>3, <3>7
    <3> HIDE DEF x, t
    <3>9. c * W[x] \in Nat /\ c * w[t] \in Nat
      BY <3>3, <3>7
    <3>10. (\A y \in s : M[y] <= c * W[y]) => m[s] <= c * w[s]
      BY <3>3, <3>5, <3>7, <3>8, <3>9
    <3>11. (\A y \in s : M[y] >= c * W[y]) => m[s] >= c * w[s]
      BY <3>3, <3>6, <3>7, <3>8, <3>9
    <3>12. /\ w[s] \in Nat /\ m[s] \in Nat
           /\ (\A y \in s : W[y] = 0) => w[s] = 0
      BY <3>3, <3>4, <3>7
    <3> QED BY <2>1, <3>10, <3>11, <3>12
  <2> QED BY <2>2, <2>3
<1>3. T = {}
  <2>1. T \in SUBSET Nat
    OBVIOUS
  <2> HIDE DEF T
  <2> QED BY <1>2, <2>1, LeastNumber
<1>4. Good(S)
  <2>1. Cardinality(S) \in Nat /\ Cardinality(S) \notin T /\ S \in SUBSET S
    BY <1>3, FS_CardinalityType
  <2> QED BY <2>1
<1> QED BY <1>4

\* the weight of a group of signals, and its influence mass
LEMMA WeighedSums ==
  ASSUME NEW S, IsFiniteSet(S), \A s \in S : ValidSignal(s)
  PROVE  \E w, m : /\ Sums(w, [s \in S |-> s.confidence], SUBSET S) /\ Weight(S) = w[S]
                   /\ Sums(m, [s \in S |-> s.influence * s.confidence], SUBSET S) /\ Mass(S) = m[S]
<1>1. ASSUME NEW F PROVE \E f : Sums(f, F, SUBSET S)
  BY SumsExist
<1>2. \A s \in SUBSET S : s # {} => Taken(s) \in S
  BY DEF Taken
<1> DEFINE w == CHOOSE f : f = [s \in SUBSET S |-> IF s = {} THEN 0 ELSE (CHOOSE x \in s : TRUE).confidence
                                                                          + f[s \ {CHOOSE x \in s : TRUE}]]
           m == CHOOSE f : f = [s \in SUBSET S |-> IF s = {} THEN 0
                                                   ELSE (CHOOSE x \in s : TRUE).influence * (CHOOSE x \in s : TRUE).confidence
                                                        + f[s \ {CHOOSE x \in s : TRUE}]]
<1>3. Weight(S) = w[S]
  BY DEF Weight, MapThenSumSet, MapThenFoldSet
<1>4. Mass(S) = m[S]
  BY DEF Mass, MapThenSumSet, MapThenFoldSet
<1>5. ASSUME NEW f
      PROVE  [s \in SUBSET S |-> IF s = {} THEN 0 ELSE [x \in S |-> x.confidence][Taken(s)] + f[s \ {Taken(s)}]]
               = [s \in SUBSET S |-> IF s = {} THEN 0 ELSE (CHOOSE x \in s : TRUE).confidence
                                                                  + f[s \ {CHOOSE x \in s : TRUE}]]
  <2>1. ASSUME NEW s \in SUBSET S
        PROVE  (IF s = {} THEN 0 ELSE [x \in S |-> x.confidence][Taken(s)] + f[s \ {Taken(s)}])
                 = IF s = {} THEN 0 ELSE (CHOOSE x \in s : TRUE).confidence + f[s \ {CHOOSE x \in s : TRUE}]
    <3>1. CASE s = {}
      BY <3>1
    <3>2. CASE s # {}
      <4>1. [x \in S |-> x.confidence][Taken(s)] = Taken(s).confidence
        BY <1>2, <3>2
      <4> QED BY <4>1 DEF Taken
    <3> QED BY <3>1, <3>2
  <2> QED BY <2>1, Zenon
<1>6. ASSUME NEW f
      PROVE  [s \in SUBSET S |-> IF s = {} THEN 0
                                 ELSE [x \in S |-> x.influence * x.confidence][Taken(s)] + f[s \ {Taken(s)}]]
               = [s \in SUBSET S |-> IF s = {} THEN 0
                                           ELSE (CHOOSE x \in s : TRUE).influence * (CHOOSE x \in s : TRUE).confidence
                                                + f[s \ {CHOOSE x \in s : TRUE}]]
  <2>1. ASSUME NEW s \in SUBSET S
        PROVE  (IF s = {} THEN 0 ELSE [x \in S |-> x.influence * x.confidence][Taken(s)] + f[s \ {Taken(s)}])
                 = IF s = {} THEN 0
                   ELSE (CHOOSE x \in s : TRUE).influence * (CHOOSE x \in s : TRUE).confidence
                                                + f[s \ {CHOOSE x \in s : TRUE}]
    <3>1. CASE s = {}
      BY <3>1
    <3>2. CASE s # {}
      <4>1. [x \in S |-> x.influence * x.confidence][Taken(s)] = Taken(s).influence * Taken(s).confidence
        BY <1>2, <3>2
      <4> QED BY <4>1 DEF Taken
    <3> QED BY <3>1, <3>2
  <2> QED BY <2>1, Zenon
<1>7. Sums(w, [s \in S |-> s.confidence], SUBSET S)
  <2> DEFINE e(f) == [s \in SUBSET S |-> IF s = {} THEN 0 ELSE (CHOOSE x \in s : TRUE).confidence
                                                              + f[s \ {CHOOSE x \in s : TRUE}]]
  <2>1. \A f : Sums(f, [s \in S |-> s.confidence], SUBSET S) <=> f = e(f)
    BY <1>5 DEF Sums
  <2>2. w = CHOOSE f : f = e(f)
    OBVIOUS
  <2> HIDE DEF e, w
  <2>3. \E f : f = e(f)
    BY <1>1, <2>1
  <2>4. w = e(w)
    BY <2>2, <2>3
  <2> QED BY <2>1, <2>4
<1>8. Sums(m, [s \in S |-> s.influence * s.confidence], SUBSET S)
  <2> DEFINE e(f) == [s \in SUBSET S |-> IF s = {} THEN 0
                                           ELSE (CHOOSE x \in s : TRUE).influence * (CHOOSE x \in s : TRUE).confidence
                                                + f[s \ {CHOOSE x \in s : TRUE}]]
  <2>1. \A f : Sums(f, [s \in S |-> s.influence * s.confidence], SUBSET S) <=> f = e(f)
    BY <1>6 DEF Sums
  <2>2. m = CHOOSE f : f = e(f)
    OBVIOUS
  <2> HIDE DEF e, m
  <2>3. \E f : f = e(f)
    BY <1>1, <2>1
  <2>4. m = e(m)
    BY <2>2, <2>3
  <2> QED BY <2>1, <2>4
<1> QED BY <1>3, <1>4, <1>7, <1>8

\* what a facet's weighted mean tells of the signals it is made of
LEMMA GroupFacts ==
  ASSUME NEW S, IsFiniteSet(S), \A s \in S : ValidSignal(s), NEW c \in Nat
  PROVE  /\ Weight(S) \in Nat /\ Mass(S) \in Nat
         /\ Weight(S) > 0 => \E s \in S : s.confidence > 0
         /\ Mass(S) > c * Weight(S) => \E s \in S : s.confidence > 0 /\ s.influence > c
         /\ Weight(S) > 0 /\ Mass(S) <= c * Weight(S) => \E s \in S : s.confidence > 0 /\ s.influence <= c
<1> DEFINE W == [s \in S |-> s.confidence]
           M == [s \in S |-> s.influence * s.confidence]
<1>1. PICK w, m : Sums(w, W, SUBSET S) /\ Weight(S) = w[S] /\ Sums(m, M, SUBSET S) /\ Mass(S) = m[S]
  BY WeighedSums
<1>2. \A s \in S : s.confidence \in Nat /\ s.influence \in Nat /\ s.influence * s.confidence \in Nat
  BY UnitAssumption DEF ValidSignal, InUnit
<1>3. W \in [S -> Nat] /\ M \in [S -> Nat]
  BY <1>2
<1>4. \A s \in S : W[s] = s.confidence /\ M[s] = s.influence * s.confidence
  OBVIOUS
<1> HIDE DEF W, M
<1>5. ASSUME NEW k \in Nat
      PROVE  /\ Weight(S) \in Nat /\ Mass(S) \in Nat
             /\ (\A x \in S : W[x] = 0) => Weight(S) = 0
             /\ (\A x \in S : M[x] <= k * W[x]) => Mass(S) <= k * Weight(S)
             /\ (\A x \in S : M[x] >= k * W[x]) => Mass(S) >= k * Weight(S)
  <2>1. /\ w[S] \in Nat /\ m[S] \in Nat
        /\ (\A x \in S : W[x] = 0) => w[S] = 0
        /\ (\A x \in S : M[x] <= k * W[x]) => m[S] <= k * w[S]
        /\ (\A x \in S : M[x] >= k * W[x]) => m[S] >= k * w[S]
    BY <1>1, <1>3, <1>5, SumsCompared
  <2>2. Weight(S) = w[S] /\ Mass(S) = m[S]
    BY <1>1
  <2> QED BY <2>1, <2>2
<1>6. ASSUME Weight(S) > 0, \A s \in S : ~(s.confidence > 0) PROVE FALSE
  <2>1. \A s \in S : W[s] = 0
    BY <1>2, <1>4, <1>6
  <2> QED BY <1>5, <1>6, <2>1
<1>7. ASSUME Mass(S) > c * Weight(S), \A s \in S : s.confidence > 0 => s.influence <= c PROVE FALSE
  <2>1. ASSUME NEW s \in S PROVE s.influence * s.confidence <= c * s.confidence
    <3>1. CASE s.confidence = 0
      BY <1>2, <3>1
    <3>2. CASE s.confidence > 0
      <4>1. s.influence <= c
        BY <1>7, <3>2
      <4> QED BY <1>2, <4>1
    <3> QED BY <1>2, <3>1, <3>2
  <2>2. \A x \in S : M[x] <= c * W[x]
    BY <1>4, <2>1
  <2>3. Mass(S) <= c * Weight(S) /\ c * Weight(S) \in Nat /\ Mass(S) \in Nat
    BY <1>5, <2>2
  <2> QED BY <1>7, <2>3
<1>8. ASSUME Weight(S) > 0, Mass(S) <= c * Weight(S), \A s \in S : s.confidence > 0 => s.influence > c PROVE FALSE
  <2>1. ASSUME NEW s \in S PROVE s.influence * s.confidence >= (c + 1) * s.confidence
    <3>1. CASE s.confidence = 0
      BY <1>2, <3>1
    <3>2. CASE s.confidence > 0
      <4>1. s.influence >= c + 1
        BY <1>2, <1>8, <3>2
      <4> QED BY <1>2, <4>1
    <3> QED BY <1>2, <3>1, <3>2
  <2>2. \A x \in S : M[x] >= (c + 1) * W[x]
    BY <1>4, <2>1
  <2>3. Mass(S) >= (c + 1) * Weight(S) /\ Weight(S) \in Nat /\ Mass(S) \in Nat
    BY <1>5, <2>2
  <2>4. (c + 1) * Weight(S) = c * Weight(S) + Weight(S) /\ c * Weight(S) \in Nat
    BY <2>3
  <2> QED BY <1>8, <2>3, <2>4
<1>9. \A s \in S : ~(s.influence <= c) => s.influence > c
  BY <1>2
<1> QED BY <1>5, <1>6, <1>7, <1>8, <1>9

-----------------------------------------------------------------------------
(* What interpret() makes of signals and of a policy that verifies *)

\* the signals an arbitration is about
Said(p, heard) == {s \in heard : ValidSignal(s) /\ s.subject = p.subject /\ s.facet \in Facets}

LEMMA AggregateIsFraction ==
  ASSUME NEW S, IsFiniteSet(S), \A s \in S : ValidSignal(s), NEW facet, NEW absent,
         absent[1] \in Nat, absent[2] \in Nat \ {0}
  PROVE  Aggregate(S, facet, absent)[1] \in Nat /\ Aggregate(S, facet, absent)[2] \in Nat \ {0}
<1> DEFINE group == {s \in S : s.facet = facet}
<1>1. IsFiniteSet(group) /\ \A s \in group : ValidSignal(s)
  BY FS_Subset
<1>2. Weight(group) \in Nat /\ Mass(group) \in Nat
  BY <1>1, GroupFacts
<1>3. CASE Informs(S, facet)
  <2>1. Weight(group) > 0
    BY <1>3 DEF Informs
  <2>2. Unit * Weight(group) \in Nat \ {0}
    BY <1>2, <2>1, UnitAssumption
  <2>3. Aggregate(S, facet, absent) = <<Mass(group), Unit * Weight(group)>>
    BY <1>3 DEF Aggregate
  <2> HIDE DEF group
  <2> QED BY <1>2, <2>2, <2>3
<1>4. CASE ~Informs(S, facet)
  BY <1>4 DEF Aggregate
<1> QED BY <1>3, <1>4

LEMMA Quotient ==
  ASSUME NEW a \in Nat, NEW b \in Nat \ {0}, NEW q \in Nat
  PROVE  a \div b \in Nat /\ (a >= b * q => a \div b >= q)
<1>1. a \div b \in Int /\ a = b * (a \div b) + (a % b) /\ 0 <= a % b /\ a % b < b
  OBVIOUS
<1>2. a \div b >= 0
  OBVIOUS
<1>3. ASSUME a >= b * q, a \div b < q PROVE FALSE
  <2>1. (a \div b) + 1 <= q
    BY <1>1, <1>3
  <2>2. b * ((a \div b) + 1) <= b * q
    BY <1>1, <2>1
  <2>3. b * ((a \div b) + 1) = b * (a \div b) + b
    BY <1>1
  <2> QED BY <1>1, <1>3, <2>2, <2>3
<1> QED BY <1>1, <1>2, <1>3

LEMMA RoundedUp ==
  ASSUME NEW x, x[1] \in Nat, x[2] \in Nat \ {0}, NEW span \in Nat
  PROVE  RoundHalfUp(x, span) \in Nat /\ (x[1] >= x[2] => RoundHalfUp(x, span) >= span)
<1> DEFINE n == x[1]
           d == x[2]
<1>1. n \in Nat /\ d \in Nat \ {0}
  OBVIOUS
<1>2. RoundHalfUp(x, span) = (2 * n * span + d) \div (2 * d)
  BY DEF RoundHalfUp
<1> HIDE DEF n, d
<1>3. 2 * n * span + d \in Nat /\ 2 * d \in Nat \ {0}
  BY <1>1
<1>4. n >= d => 2 * n * span + d >= (2 * d) * span
  <2>1. n >= d => n * span >= d * span
    BY <1>1
  <2>2. 2 * n * span = 2 * (n * span) /\ (2 * d) * span = 2 * (d * span) /\ n * span \in Nat /\ d * span \in Nat
    BY <1>1
  <2> QED BY <1>1, <2>1, <2>2
<1>5. (2 * n * span + d) \div (2 * d) \in Nat
      /\ (2 * n * span + d >= (2 * d) * span => (2 * n * span + d) \div (2 * d) >= span)
  BY <1>3, Quotient
<1> QED BY <1>2, <1>4, <1>5 DEF n, d

\* The depth stays within the policy, and is its maximum when no one informs of risk.
LEMMA DepthFacts ==
  ASSUME NEW p, TypedPolicy(p), VerifyPolicy(p), NEW S, IsFiniteSet(S), \A s \in S : ValidSignal(s)
  PROVE  /\ VerificationDepth(p, S) \in 0..Full
         /\ p.minVerification <= VerificationDepth(p, S) /\ VerificationDepth(p, S) <= p.maxVerification
         /\ ~Informs(S, "risk") => VerificationDepth(p, S) = p.maxVerification
<1> DEFINE risk == Risk(S)
           request == Aggregate(S, "verification", Zero)
           demand == IF Greater(risk, request) THEN risk ELSE request
           lo == p.minVerification
           hi == p.maxVerification
           v == lo + RoundHalfUp(demand, hi - lo)
<1>1. lo \in Int /\ hi \in Int /\ 0 <= lo /\ lo <= hi /\ hi <= Full /\ hi - lo \in Nat
  BY DEF TypedPolicy, VerifyPolicy
<1>2. /\ risk[1] \in Nat /\ risk[2] \in Nat \ {0} /\ request[1] \in Nat /\ request[2] \in Nat \ {0}
  BY AggregateIsFraction DEF Risk, Zero, One
<1>3. VerificationDepth(p, S) = Clamp(v, lo, hi)
  BY DEF VerificationDepth
<1>4. ~Informs(S, "risk") => risk = <<1, 1>>
  BY DEF Risk, Aggregate, One
<1> HIDE DEF risk, request, lo, hi
<1>5. demand[1] \in Nat /\ demand[2] \in Nat \ {0}
  BY <1>2
<1>6. ~Informs(S, "risk") => demand[1] >= demand[2]
  <2>1. SUFFICES ASSUME ~Informs(S, "risk") PROVE demand[1] >= demand[2]
    OBVIOUS
  <2>2. CASE Greater(risk, request)
    BY <1>4, <2>1, <2>2
  <2>3. CASE ~Greater(risk, request)
    <3>1. ~(1 * request[2] > request[1] * 1)
      BY <1>4, <2>1, <2>3 DEF Greater
    <3> QED BY <1>2, <2>3, <3>1
  <2> QED BY <2>2, <2>3
<1> HIDE DEF demand
<1>7. RoundHalfUp(demand, hi - lo) \in Nat /\ (demand[1] >= demand[2] => RoundHalfUp(demand, hi - lo) >= hi - lo)
  BY <1>1, <1>5, RoundedUp
<1>8. v \in Int /\ (~Informs(S, "risk") => v >= hi)
  BY <1>1, <1>6, <1>7
<1> HIDE DEF v
<1>9. Clamp(v, lo, hi) \in Int /\ lo <= Clamp(v, lo, hi) /\ Clamp(v, lo, hi) <= hi /\ (v >= hi => Clamp(v, lo, hi) = hi)
  BY <1>1, <1>8 DEF Clamp
<1> QED BY <1>1, <1>3, <1>8, <1>9 DEF lo, hi, Full

\* The directive is about its policy's subject, and says why it is open or not.
LEMMA DirectiveFacts ==
  ASSUME NEW p, VerifyPolicy(p), NEW heard
  PROVE  LET d == Interpret(p, heard, TRUE)
             S == Said(p, heard)
         IN  /\ d.subject = p.subject /\ d.depth = VerificationDepth(p, S)
             /\ d.rationale = Rationale(p, S) /\ (d.eligible <=> d.rationale = "eligible")
<1>1. {s \in {s \in heard : ValidSignal(s)} : s.subject = p.subject /\ s.facet \in Facets} = Said(p, heard)
  BY DEF Said
<1> QED BY <1>1, Zenon DEF Interpret

LEMMA EligibleFacts ==
  ASSUME NEW p, TypedPolicy(p), VerifyPolicy(p), NEW S, IsFiniteSet(S), \A s \in S : ValidSignal(s),
         Rationale(p, S) = "eligible"
  PROVE  /\ p.allowAdaptation
         /\ p.adaptationMaxRisk = Unit \/ \E s \in S : s.facet = "risk" /\ s.confidence > 0 /\ s.influence <= p.adaptationMaxRisk
<1> DEFINE cap == p.adaptationMaxRisk
           group == {s \in S : s.facet = "risk"}
<1>1. p.allowAdaptation /\ ~Greater(Risk(S), <<cap, Unit>>)
  BY DEF Rationale, TypedPolicy
<1>2. cap \in Nat /\ cap <= Unit
  BY UnitAssumption DEF VerifyPolicy, InUnit
<1>3. IsFiniteSet(group) /\ \A s \in group : ValidSignal(s)
  BY FS_Subset
<1> HIDE DEF cap
<1>4. CASE Informs(S, "risk")
  <2>1. Weight(group) > 0 /\ Risk(S) = <<Mass(group), Unit * Weight(group)>>
    BY <1>4 DEF Informs, Risk, Aggregate
  <2>2. Weight(group) \in Nat /\ Mass(group) \in Nat
    BY <1>3, GroupFacts
  <2> HIDE DEF group
  <2>3. ~(Mass(group) * Unit > cap * (Unit * Weight(group)))
    BY <1>1, <2>1 DEF Greater
  <2>4. cap * (Unit * Weight(group)) = (cap * Weight(group)) * Unit /\ cap * Weight(group) \in Nat
    BY <1>2, <2>2, UnitAssumption
  <2>5. Mass(group) <= cap * Weight(group)
    <3> DEFINE y == cap * Weight(group)
    <3>1. ~(Mass(group) * Unit > y * Unit) /\ y \in Nat
      BY <2>3, <2>4
    <3> HIDE DEF y
    <3>2. Mass(group) <= y
      BY <2>2, <3>1, UnitAssumption
    <3> QED BY <3>2 DEF y
  <2>6. \E s \in group : s.confidence > 0 /\ s.influence <= cap
    BY <1>2, <1>3, <2>1, <2>5, GroupFacts
  <2> QED BY <1>1, <2>6 DEF group, cap
<1>5. CASE ~Informs(S, "risk")
  <2>1. Risk(S) = <<1, 1>>
    BY <1>5 DEF Risk, Aggregate, One
  <2>2. ~(1 * Unit > cap * 1)
    BY <1>1, <2>1 DEF Greater
  <2>3. cap = Unit
    BY <1>2, <2>2, UnitAssumption
  <2> QED BY <1>1, <2>3 DEF cap
<1> QED BY <1>4, <1>5

LEMMA ExceededFacts ==
  ASSUME NEW p, VerifyPolicy(p), TypedPolicy(p), NEW S, IsFiniteSet(S), \A s \in S : ValidSignal(s),
         Rationale(p, S) = "risk_exceeded"
  PROVE  \E s \in S : s.facet = "risk" /\ s.confidence > 0 /\ s.influence > p.adaptationMaxRisk
<1> DEFINE cap == p.adaptationMaxRisk
           group == {s \in S : s.facet = "risk"}
<1>1. Informs(S, "risk") /\ Greater(Risk(S), <<cap, Unit>>)
  BY DEF Rationale, TypedPolicy
<1>2. cap \in Nat
  BY UnitAssumption DEF VerifyPolicy, InUnit
<1>3. IsFiniteSet(group) /\ \A s \in group : ValidSignal(s)
  BY FS_Subset
<1> HIDE DEF cap
<1>4. Weight(group) > 0 /\ Risk(S) = <<Mass(group), Unit * Weight(group)>>
  BY <1>1 DEF Informs, Risk, Aggregate
<1>5. Weight(group) \in Nat /\ Mass(group) \in Nat
  BY <1>3, GroupFacts
<1> HIDE DEF group
<1>6. Mass(group) * Unit > cap * (Unit * Weight(group))
  BY <1>1, <1>4 DEF Greater
<1>7. cap * (Unit * Weight(group)) = (cap * Weight(group)) * Unit /\ cap * Weight(group) \in Nat
  BY <1>2, <1>5, UnitAssumption
<1>8. Mass(group) > cap * Weight(group)
  <2> DEFINE y == cap * Weight(group)
  <2>1. Mass(group) * Unit > y * Unit /\ y \in Nat
    BY <1>6, <1>7
  <2> HIDE DEF y
  <2>2. Mass(group) > y
    BY <1>5, <2>1, UnitAssumption
  <2> QED BY <2>2 DEF y
<1>9. \E s \in group : s.confidence > 0 /\ s.influence > cap
  BY <1>2, <1>3, <1>8, GroupFacts
<1> QED BY <1>9 DEF group, cap

-----------------------------------------------------------------------------
(* One decision: what clears it, and what opens adaptation *)

LEMMA StakesFacts ==
  ASSUME NEW a \in Stakes \cup {NoStakes}, NEW b \in {"high", NoStakes}
  PROVE  /\ a # "low" => MaxStakes(a, b) # "low"
         /\ a \in TwoSource => MaxStakes(a, b) \in TwoSource
<1>1. /\ StakesRank["low"] = 1 /\ StakesRank["normal"] = 2 /\ StakesRank["high"] = 3 /\ StakesRank["critical"] = 4
  BY DEF StakesRank
<1>2. CASE b = NoStakes
  BY <1>2 DEF MaxStakes, Stakes, NoStakes, TwoSource
<1>3. CASE b = "high"
  <2>1. CASE a = NoStakes
    BY <1>3, <2>1 DEF MaxStakes, Stakes, NoStakes, TwoSource
  <2>2. CASE a \in {"low", "normal"}
    BY <1>1, <1>3, <2>2 DEF MaxStakes, Stakes, TwoSource
  <2>3. CASE a \in {"high", "critical"}
    BY <1>1, <1>3, <2>3 DEF MaxStakes, Stakes, TwoSource
  <2> QED BY <2>1, <2>2, <2>3 DEF Stakes
<1> QED BY <1>2, <1>3

LEMMA LevelFacts ==
  ASSUME NEW v
  PROVE  /\ AchievedLevel(v) \in 0..Full
         /\ AchievedLevel(v) >= Independent => v.status = "VERIFIED"
         /\ AchievedLevel(v) >= Full => v.status = "VERIFIED" /\ v.stakes \in TwoSource
         /\ StakesFloor(v.stakes) \in 0..Full
         /\ v.stakes # "low" => StakesFloor(v.stakes) >= Independent
  BY DEF AchievedLevel, StakesFloor, Full, Independent, Receipt, DepthNone, TwoSource

\* a cleared decision is about its action, and reached the depth and the stakes' floor
LEMMA UnboundDecision ==
  ASSUME NEW d, ValidDirective(d), NEW v, ~Bound(d, v), NEW o, o = Decide(d, v)
  PROVE  o.directive = NoDirective /\ o.subject = "" /\ ~o.cleared /\ ~o.adaptation
  BY DEF Decide

LEMMA BoundDecision ==
  ASSUME NEW d, ValidDirective(d), NEW v, Bound(d, v), d.depth \in 0..Full, NEW o, o = Decide(d, v)
  PROVE  /\ o.verdict = v /\ o.directive = d /\ o.subject = d.subject
         /\ o.adaptation => o.cleared /\ d.eligible /\ v.status = "VERIFIED"
         /\ o.cleared => AchievedLevel(v) >= d.depth /\ AchievedLevel(v) >= StakesFloor(v.stakes)
<1> DEFINE f == StakesFloor(v.stakes)
           level == AchievedLevel(v)
           cleared == v.status # "FAILED" /\ level >= RequiredLevel(d, v)
<1>1. /\ o.verdict = v /\ o.directive = d /\ o.subject = d.subject
      /\ o.cleared = cleared /\ o.adaptation = (cleared /\ d.eligible /\ v.status = "VERIFIED")
  BY DEF Decide
<1>2. ASSUME level >= RequiredLevel(d, v) PROVE level >= d.depth /\ level >= f
  <2>1. RequiredLevel(d, v) = Clamp(IF d.depth > f THEN d.depth ELSE f, DepthNone, Full)
    BY DEF RequiredLevel
  <2>2. f \in 0..Full /\ level \in 0..Full
    BY LevelFacts
  <2> HIDE DEF f, level
  <2>3. RequiredLevel(d, v) = IF d.depth > f THEN d.depth ELSE f
    BY <2>1, <2>2 DEF Clamp, DepthNone, Full
  <2> QED BY <1>2, <2>2, <2>3 DEF Full
<1> QED BY <1>1, <1>2

\* The invariant: the directive is the policy's and the signals', and an outcome
\* that of a verification.
Late == {"governed", "learned"}

DecidedInv ==
  /\ stage \in Stage /\ IsFiniteSet(published)
  /\ stage # "open" => policy \in Policies /\ directive = Interpret(policy, published, TRUE)
  /\ stage \notin {"open", "directed"} => envelope \in EnvelopeOf
  /\ stage \in Late => \E receipt, world : outcome = Govern(directive, envelope, receipt, world)
  /\ stage \notin Late => outcome = Null
  /\ stage = "learned" => learned = Consume(outcome, Today)
  /\ stage # "learned" => learned = Null

LEMMA DecidedInit == Init => DecidedInv
  BY FS_EmptySet DEF Init, DecidedInv, Stage, Undecided, Late

LEMMA DecidedStep == DecidedInv /\ [Next]_vars => DecidedInv'
<1> SUFFICES ASSUME DecidedInv, [Next]_vars PROVE DecidedInv'
  OBVIOUS
<1> USE DEF Stage, Undecided, Late
<1>1. ASSUME NEW s \in Signals, Publish(s) PROVE DecidedInv'
  <2>1. IsFiniteSet(published') /\ stage' = "open"
    BY <1>1, FS_AddElement DEF Publish, DecidedInv
  <2> QED BY <1>1, <2>1 DEF Publish, DecidedInv
<1>2. ASSUME NEW p \in Policies, NEW readable \in BOOLEAN, Arbitrate(p, readable) PROVE DecidedInv'
  <2>1. /\ stage' = "directed" /\ policy' = p /\ outcome' = Null /\ learned' = Null
        /\ published' = (IF readable THEN published ELSE {}) /\ directive' = Interpret(p, published, readable)
    BY <1>2 DEF Arbitrate, DecidedInv
  <2>2. IsFiniteSet(published')
    BY <2>1, FS_EmptySet DEF DecidedInv
  <2>3. Interpret(p, published, readable) = Interpret(p, published', TRUE)
    <3>1. CASE readable = TRUE
      BY <2>1, <3>1
    <3>2. CASE readable = FALSE
      <4>1. {s \in {} : ValidSignal(s)} = {} /\ published' = {}
        BY <2>1, <3>2
      <4> QED BY <3>2, <4>1 DEF Interpret
    <3> QED BY <3>1, <3>2
  <2> QED BY <2>1, <2>2, <2>3 DEF DecidedInv
<1>3. ASSUME NEW e \in Envelopes, NEW asked \in BOOLEAN, Authorize(e, asked) PROVE DecidedInv'
  <2>1. envelope' \in EnvelopeOf
    BY <1>3, EnvelopesAssumption, SignedStakes DEF Authorize
  <2> QED BY <1>3, <2>1 DEF Authorize, DecidedInv
<1>4. ASSUME NEW post \in Trees, NEW code \in Exits, Execute(post, code) PROVE DecidedInv'
  BY <1>4 DEF Execute, DecidedInv
<1>5. ASSUME NEW receipt \in Receipts, NEW world \in Observations, Attempt(receipt, world) PROVE DecidedInv'
  BY <1>5 DEF Attempt, DecidedInv
<1>6. CASE Replay
  BY <1>6 DEF Replay, DecidedInv
<1>7. CASE Learn
  BY <1>7 DEF Learn, DecidedInv
<1>8. CASE UNCHANGED vars
  BY <1>8 DEF vars, DecidedInv
<1>9. CASE ObservationFails
  BY <1>9 DEF ObservationFails, DecidedInv
<1> QED BY <1>1, <1>2, <1>3, <1>4, <1>5, <1>6, <1>7, <1>8, <1>9 DEF Next

\* An outcome that is bound to its directive: everything the properties need of it.
BoundOutcome ==
  LET S == Said(policy, published) IN
  /\ TypedPolicy(policy) /\ VerifyPolicy(policy) /\ policy.subject = envelope.id
  /\ IsFiniteSet(S) /\ \A s \in S : ValidSignal(s)
  /\ directive.depth = VerificationDepth(policy, S) /\ directive.rationale = Rationale(policy, S)
  /\ outcome.verdict.stakes = MaxStakes(envelope.stakes, EscalationFor(directive.depth))
  /\ outcome.directive = directive /\ outcome.subject = envelope.id /\ outcome.subject # ""
  /\ outcome.adaptation => outcome.cleared /\ outcome.verdict.status = "VERIFIED" /\ directive.rationale = "eligible"
  /\ outcome.cleared => /\ AchievedLevel(outcome.verdict) >= directive.depth
                        /\ AchievedLevel(outcome.verdict) >= StakesFloor(outcome.verdict.stakes)

LEMMA OutcomeFacts ==
  ASSUME DecidedInv, stage \in Late
  PROVE  \/ BoundOutcome
         \/ outcome.directive = NoDirective /\ outcome.subject = "" /\ ~outcome.cleared /\ ~outcome.adaptation
<1> DEFINE d == directive
           S == Said(policy, published)
<1>1. /\ policy \in Policies /\ d = Interpret(policy, published, TRUE) /\ IsFiniteSet(published)
      /\ envelope \in EnvelopeOf
  BY DEF DecidedInv, Late
<1>2. PICK receipt, world : outcome = Govern(d, envelope, receipt, world)
  BY DEF DecidedInv
<1> DEFINE v == Verify(envelope, receipt, world, EscalationFor(d.depth))
<1>3. v.envelope = envelope.id /\ v.stakes = MaxStakes(envelope.stakes, EscalationFor(d.depth))
  BY DEF Verify, Stamp
<1>4. IsFiniteSet(S) /\ \A s \in S : ValidSignal(s)
  BY <1>1, FS_Subset DEF Said
<1>5. CASE ~VerifyPolicy(policy)
  <2>1. d = HardDeny
    BY <1>1, <1>5 DEF Interpret
  <2>2. d.subject = "" /\ ValidDirective(d) /\ ~Bound(d, v)
    BY <2>1 DEF HardDeny, ValidDirective, Bound
  <2>3. outcome = Decide(d, v)
    BY <1>2, <2>2 DEF Govern
  <2> HIDE DEF d, v
  <2> QED BY <2>2, <2>3, UnboundDecision
<1>6. CASE VerifyPolicy(policy)
  <2>1. TypedPolicy(policy)
    BY <1>1, <1>6, PoliciesAssumption DEF VerifyPolicy
  <2>2. /\ d.subject = policy.subject /\ d.depth = VerificationDepth(policy, S)
        /\ d.rationale = Rationale(policy, S) /\ (d.eligible <=> d.rationale = "eligible")
    BY <1>1, <1>6, DirectiveFacts
  <2>3. d.depth \in 0..Full
    BY <1>4, <1>6, <2>1, <2>2, DepthFacts
  <2>4. ValidDirective(d) /\ outcome = Decide(d, v)
    BY <1>2, <2>2 DEF Govern, ValidDirective
  <2> HIDE DEF S, v
  <2>5. CASE ~Bound(d, v)
    <3> HIDE DEF d
    <3> QED BY <2>4, <2>5, UnboundDecision
  <2>6. CASE Bound(d, v)
    <3>1. d.subject # "" /\ d.subject = envelope.id
      BY <1>3, <2>6 DEF Bound
    <3>2. /\ outcome.verdict = v /\ outcome.directive = d /\ outcome.subject = d.subject
          /\ outcome.adaptation => outcome.cleared /\ d.eligible /\ v.status = "VERIFIED"
          /\ outcome.cleared => AchievedLevel(v) >= d.depth /\ AchievedLevel(v) >= StakesFloor(v.stakes)
      <4> HIDE DEF d
      <4> QED BY <2>3, <2>4, <2>6, BoundDecision
    <3> QED BY <1>3, <1>4, <1>6, <2>1, <2>2, <3>1, <3>2 DEF BoundOutcome, S
  <2> QED BY <2>5, <2>6
<1> QED BY <1>5, <1>6

LEMMA OutcomeIsLate ==
  ASSUME DecidedInv, outcome # Null PROVE stage \in Late
  BY DEF DecidedInv

LEMMA ClearedFacts == DecidedInv => ClearedAtItsStakes
<1> SUFFICES ASSUME DecidedInv, outcome # Null, outcome.cleared PROVE ClearedAtItsStakes
  BY DEF ClearedAtItsStakes
<1> DEFINE S == Said(policy, published)
           verified == outcome.verdict.status = "VERIFIED"
           twice == verified /\ outcome.verdict.stakes \in TwoSource
           silent == \A s \in published :
                       s.facet = "risk" /\ s.subject = envelope.id => s.confidence = 0 \/ ~ValidSignal(s)
           demanded == IF silent THEN policy.maxVerification ELSE policy.minVerification
           level == AchievedLevel(outcome.verdict)
           depth == directive.depth
<1>1. BoundOutcome /\ stage \in Late
  BY OutcomeFacts, OutcomeIsLate
<1>2. /\ level \in 0..Full /\ (level >= Independent => verified) /\ (level >= Full => twice)
      /\ StakesFloor(outcome.verdict.stakes) \in 0..Full
      /\ outcome.verdict.stakes # "low" => StakesFloor(outcome.verdict.stakes) >= Independent
  BY LevelFacts
<1>3. level >= depth /\ level >= StakesFloor(outcome.verdict.stakes)
  BY <1>1 DEF BoundOutcome
<1>4. /\ depth \in 0..Full /\ policy.minVerification <= depth /\ depth <= policy.maxVerification
      /\ ~Informs(S, "risk") => depth = policy.maxVerification
      /\ policy.minVerification \in Int /\ policy.maxVerification \in Int
  BY <1>1, DepthFacts DEF BoundOutcome, TypedPolicy
<1>5. silent => ~Informs(S, "risk")
  <2> DEFINE group == {s \in S : s.facet = "risk"}
  <2>1. IsFiniteSet(group) /\ \A s \in group : ValidSignal(s)
    BY <1>1, FS_Subset DEF BoundOutcome
  <2>2. Weight(group) > 0 => \E s \in group : s.confidence > 0
    <3>1. 0 \in Nat
      OBVIOUS
    <3> HIDE DEF group
    <3> QED BY <2>1, <3>1, GroupFacts
  <2>3. silent => \A s \in group : s.confidence = 0
    BY <1>1, <2>1 DEF Said, BoundOutcome
  <2>4. silent => ~(Weight(group) > 0)
    BY <2>2, <2>3
  <2> QED BY <2>4 DEF Informs
<1> HIDE DEF S, silent
<1>6. depth >= demanded /\ demanded \in Int
  BY <1>4, <1>5
<1>7. envelope.stakes \in Stakes \cup {NoStakes}
  <2>1. envelope \in EnvelopeOf
    BY <1>1 DEF DecidedInv, Late
  <2> QED BY <2>1 DEF EnvelopeOf
<1>8. /\ envelope.stakes # "low" => outcome.verdict.stakes # "low"
      /\ envelope.stakes \in TwoSource => outcome.verdict.stakes \in TwoSource
  <2>1. EscalationFor(depth) \in {"high", NoStakes}
    BY DEF EscalationFor
  <2> HIDE DEF depth
  <2>2. outcome.verdict.stakes = MaxStakes(envelope.stakes, EscalationFor(depth))
    BY <1>1 DEF BoundOutcome, depth
  <2> QED BY <1>7, <2>1, <2>2, StakesFacts
<1> HIDE DEF level, depth, demanded
<1>9. envelope.stakes # "low" => verified
  BY <1>2, <1>3, <1>8 DEF Independent, Full
<1>10. envelope.stakes \in TwoSource => twice
  <2>1. envelope.stakes \in TwoSource => envelope.stakes # "low"
    BY DEF TwoSource
  <2> QED BY <1>8, <1>9, <2>1
<1>11. (demanded >= Independent => verified) /\ (demanded >= Full => twice)
  BY <1>2, <1>3, <1>4, <1>6 DEF Independent, Full
<1>12. VerifyPolicy(policy) /\ policy.subject = envelope.id
  BY <1>1 DEF BoundOutcome
<1> QED BY <1>9, <1>10, <1>11, <1>12, Zenon DEF ClearedAtItsStakes, demanded, silent

\* a nomination is an open adaptation; a hand-off is an asserted risk over the cap
LEMMA ConsumeFacts ==
  ASSUME NEW o
  PROVE  LET n == Nominate(o)
             k == Consume(o, Today)
         IN  /\ k.decision = n /\ k.recorded = Attributable(o, n.handoff)
             /\ k.kept.inhibitor = (n.handoff # NoHandoff)
             /\ n.nominated => /\ o.directive # NoDirective /\ o.adaptation /\ n.subject = o.subject
                               /\ n.handoff = NoHandoff
             /\ n.handoff # NoHandoff => /\ o.directive # NoDirective /\ o.subject # "" /\ ~n.nominated
                                         /\ n.handoff = Handoff(o.subject)
                                         /\ o.directive.rationale = "risk_exceeded"
<1> DEFINE n == Nominate(o)
<1>1. /\ Consume(o, Today).decision = n /\ Consume(o, Today).recorded = Attributable(o, n.handoff)
      /\ Consume(o, Today).kept.inhibitor = (n.handoff # NoHandoff)
  BY DEF Consume, Retain
<1>2. CASE o.directive = NoDirective \/ o.subject = ""
  BY <1>1, <1>2 DEF Nominate, Refusal
<1>3. CASE ~(o.directive = NoDirective \/ o.subject = "") /\ o.adaptation
  BY <1>1, <1>3 DEF Nominate
<1>4. CASE ~(o.directive = NoDirective \/ o.subject = "") /\ ~o.adaptation
  <2>1. n = Refusal(o.subject, IF o.directive.rationale = "risk_exceeded" THEN Handoff(o.subject) ELSE NoHandoff)
    BY <1>4 DEF Nominate
  <2>2. /\ ~n.nominated
        /\ n.handoff = IF o.directive.rationale = "risk_exceeded" THEN Handoff(o.subject) ELSE NoHandoff
    BY <2>1 DEF Refusal
  <2> HIDE DEF n
  <2> QED BY <1>1, <1>4, <2>2 DEF n
<1> QED BY <1>2, <1>3, <1>4

LEMMA LearnedFacts == PlaneInv /\ DecidedInv => LearnedFromTheWorld
<1> SUFFICES ASSUME PlaneInv, DecidedInv, learned # Null, learned.decision.nominated PROVE LearnedFromTheWorld
  BY DEF LearnedFromTheWorld
<1>1. stage = "learned" /\ learned = Consume(outcome, Today)
  BY DEF DecidedInv
<1>2. outcome.directive # NoDirective /\ outcome.adaptation /\ learned.decision.subject = outcome.subject
  BY <1>1, ConsumeFacts
<1>3. BoundOutcome
  BY <1>1, <1>2, OutcomeFacts DEF Late
<1>4. Done
  BY <1>1, <1>2, <1>3 DEF BoundOutcome, PlaneInv, GovernedWasDone
<1> DEFINE S == Said(policy, published)
<1>5. /\ policy.allowAdaptation
      /\ \/ policy.adaptationMaxRisk = Unit
         \/ \E s \in S : s.facet = "risk" /\ s.confidence > 0 /\ s.influence <= policy.adaptationMaxRisk
  BY <1>2, <1>3, EligibleFacts DEF BoundOutcome
<1>6. VerifyPolicy(policy) /\ policy.subject = envelope.id /\ outcome.subject = envelope.id
  BY <1>3 DEF BoundOutcome
<1>7. \A s \in S : s \in published /\ ValidSignal(s) /\ s.subject = envelope.id
  BY <1>6 DEF Said
<1> HIDE DEF S
<1> QED BY <1>2, <1>4, <1>5, <1>6, <1>7 DEF LearnedFromTheWorld

LEMMA InhibitorFacts == DecidedInv => InhibitorsAreIncidents
<1> SUFFICES ASSUME DecidedInv, learned # Null PROVE InhibitorsAreIncidents
  BY DEF InhibitorsAreIncidents
<1> DEFINE n == Nominate(outcome)
<1>1. stage = "learned" /\ learned = Consume(outcome, Today)
  BY DEF DecidedInv
<1>2. /\ learned.decision = n /\ learned.recorded = Attributable(outcome, n.handoff)
      /\ learned.kept.inhibitor = (n.handoff # NoHandoff)
      /\ n.handoff # NoHandoff => /\ outcome.directive # NoDirective /\ outcome.subject # "" /\ ~n.nominated
                                  /\ n.handoff = Handoff(outcome.subject)
                                  /\ outcome.directive.rationale = "risk_exceeded"
  BY <1>1, ConsumeFacts
<1>3. learned.recorded
  <2> HIDE DEF n
  <2>1. Attributable(outcome, n.handoff)
    <3>1. CASE n.handoff = NoHandoff
      BY <3>1 DEF Attributable
    <3>2. CASE n.handoff # NoHandoff
      <4>1. n.handoff = Handoff(outcome.subject)
        BY <1>2, <3>2
      <4>2. n.handoff.subject = outcome.subject /\ n.handoff.rationale = "risk_exceeded"
        BY <4>1 DEF Handoff
      <4> QED BY <1>2, <3>2, <4>2 DEF Attributable
    <3> QED BY <3>1, <3>2
  <2> QED BY <1>2, <2>1, Zenon
<1>4. ASSUME learned.kept.inhibitor
      PROVE  /\ ~learned.decision.nominated
             /\ \A now \in Readings : Decay(learned.kept, now) = 0
             /\ \E s \in published : /\ ValidSignal(s) /\ s.facet = "risk" /\ s.subject = envelope.id
                                     /\ s.confidence > 0 /\ s.influence > policy.adaptationMaxRisk
  <2>1. outcome.directive # NoDirective /\ outcome.directive.rationale = "risk_exceeded" /\ ~learned.decision.nominated
    BY <1>2, <1>4
  <2>2. \A now \in Readings : Decay(learned.kept, now) = 0
    BY <1>4 DEF Decay
  <2>3. BoundOutcome
    BY <1>1, <2>1, OutcomeFacts DEF Late
  <2> DEFINE S == Said(policy, published)
  <2>4. \E s \in S : s.facet = "risk" /\ s.confidence > 0 /\ s.influence > policy.adaptationMaxRisk
    BY <2>1, <2>3, ExceededFacts DEF BoundOutcome
  <2>5. policy.subject = envelope.id
    BY <2>3 DEF BoundOutcome
  <2>6. \A s \in S : s \in published /\ ValidSignal(s) /\ s.subject = envelope.id
    BY <2>5 DEF Said
  <2> HIDE DEF S
  <2> QED BY <2>1, <2>2, <2>4, <2>6
<1> QED BY <1>3, <1>4 DEF InhibitorsAreIncidents

(* Clearance meets every floor at once - the envelope's stakes, the policy's   *)
(* minimum, and the policy's maximum where nobody informs of the risk - for    *)
(* any signals a subsystem may publish and any policy (decide, interpret).     *)
THEOREM ClearanceMeetsEveryFloor == Spec => []ClearedAtItsStakes
  BY DecidedInit, DecidedStep, ClearedFacts, PTL DEF Spec

(* Only a change that was really made is nominated for learning, under a       *)
(* policy that allows it and a risk somebody asserted to be within its cap     *)
(* (decide, adaptation.nominate).                                              *)
THEOREM LearningIsFromTheWorld == Spec => []LearnedFromTheWorld
  BY PlaneInit, PlaneStep, DecidedInit, DecidedStep, LearnedFacts, PTL DEF Spec

(* An inhibitor is pinned for a risk somebody asserted over the cap, and for   *)
(* nothing else; it is recorded, never nominated as well, and never decays     *)
(* (memory.retain, adaptation.nominate).                                       *)
THEOREM AnInhibitorIsAnIncident == Spec => []InhibitorsAreIncidents
  BY DecidedInit, DecidedStep, InhibitorFacts, PTL DEF Spec
=============================================================================
