---------------------------- MODULE SaliencePlane ----------------------------
(***************************************************************************)
(* The salience plane end to end: subsystems publish, interpret() issues a *)
(* directive, an envelope is signed, an executor changes the workspace,    *)
(* the seam runs the verifier and decides, and the two channels learn.     *)
(* The executor is not trusted: what it leaves behind and what its receipt *)
(* says are any combination of the instance, and a receipt may be replayed *)
(* for a second attempt, which executes nothing.  Observation follows the  *)
(* executor's teardown, so nothing writes between the snapshot and the     *)
(* reads of the declared paths.  The executor may also close a path to the *)
(* observer, or open one: permissions are part of the workspace.           *)
(***************************************************************************)
EXTENDS ControlSeam

CONSTANTS
  Signals,      \* what the subsystems may publish
  Policies,     \* the policies a host may present
  Envelopes,    \* the envelopes that may be signed
  Starts,       \* the workspaces an action may begin with
  Trees,        \* the workspaces an executor may leave
  Exits,        \* the exit statuses a supervisor may see
  Receipts,     \* the receipts an executor may return
  MaxSignals,   \* bound: signals published about one action
  MaxAttempts,  \* bound: receipts presented for one envelope
  Today,        \* the session's clock, in hundredths of a day
  Readings,     \* clocks a reader of a memory may have
  Null

\* an envelope names paths of the workspace and content a file may hold
EnvelopeOf ==
  [id : STRING, op : STRING, path : Path, content : Content, outputs : SUBSET Path, exit : Nat,
   malformed : BOOLEAN, stakes : Stakes \cup {NoStakes}, signed : BOOLEAN]

ASSUME EnvelopesAssumption == Envelopes \subseteq EnvelopeOf
ASSUME TreesAssumption == Starts \cup Trees \subseteq Workspaces
\* None is not something an envelope expects
ASSUME NoOracleAssumption ==
  NoOracle \notin Content \cup {"present:dir", "absent"} /\ \A S \in SUBSET Path : NoOracle # S

\* verify_policy takes an envelope for typed when these are whole numbers and a truth value
TypedPolicy(p) ==
  /\ {p.minVerification, p.maxVerification, p.adaptationMinVerification} \subseteq Int
  /\ p.allowAdaptation \in BOOLEAN
ASSUME PoliciesAssumption == \A p \in Policies : p.signed /\ p.typed => TypedPolicy(p)

ASSUME MarkersAssumption ==
  Content \cap {"none", "dir", "symlink", "special", "absent", "unreadable"} = {}

VARIABLES
  stage,      \* how far the action is
  published,  \* the signals the directive is arbitrated from
  policy,
  directive,
  envelope,
  before,     \* the workspace when the attempt began
  tree,       \* the workspace
  exit,       \* the exit status the supervisor saw
  stored,     \* the world store: what was observed over all attempts
  attempts,
  outcome,    \* the governed outcome
  row,        \* what the receipt store recorded: nothing, a success, another row
  learned     \* what the two channels made of the outcome

vars == <<stage, published, policy, directive, envelope, before, tree, exit, stored, attempts,
          outcome, row, learned>>

Init ==
  /\ stage = "open" /\ published = {} /\ policy = NoPolicy
  /\ directive = NoDirective /\ envelope = Null
  /\ tree \in Starts /\ before = tree /\ exit = 0
  /\ stored = {} /\ attempts = 0
  /\ outcome = Null /\ row = "none" /\ learned = Null

Publish(s) ==
  /\ stage = "open"
  /\ Cardinality(published) < MaxSignals
  /\ published' = published \cup {s}
  /\ UNCHANGED <<stage, policy, directive, envelope, before, tree, exit, stored, attempts, outcome,
                 row, learned>>

Arbitrate(p, readable) ==
  /\ stage = "open"
  /\ stage' = "directed"
  /\ policy' = p
  /\ published' = IF readable THEN published ELSE {}
  /\ directive' = Interpret(p, published, readable)
  /\ UNCHANGED <<envelope, before, tree, exit, stored, attempts, outcome, row, learned>>

\* the stakes signed are the host's floor, or the directive's when that is stronger
Authorize(e, asked) ==
  /\ stage = "directed"
  /\ GrantsCapability(directive, e.op)
  /\ stage' = "authorized"
  /\ envelope' = [e EXCEPT !.stakes = IF asked THEN StakesFor(directive, e.stakes) ELSE e.stakes]
  /\ UNCHANGED <<published, policy, directive, before, tree, exit, stored, attempts, outcome, row,
                 learned>>

Execute(post, code) ==
  /\ stage = "authorized"
  /\ stage' = "ran"
  /\ before' = tree /\ tree' = post /\ exit' = code
  /\ UNCHANGED <<published, policy, directive, envelope, stored, attempts, outcome, row, learned>>

\* what this attempt observed: nothing, or, where the observation returns, the reference
\* floor, with a mirror of each fact, or with a second and independent channel for each
InMode(w, mode) == [type |-> w.type, id |-> w.id, kind |-> w.kind, value |-> w.value, mode |-> mode]
Mirrored(facts, mode) == facts \cup {InMode(w, mode) : w \in facts}
Observations ==
  LET facts == ObserveAction(envelope, Snapshot(before), Snapshot(tree), tree, exit)
  IN  IF stage # "ran" THEN {}
      ELSE IF Raises(envelope, tree) THEN {{}}
      ELSE {{}, facts, Mirrored(facts, "executor_self_report"), Mirrored(facts, "second_source")}

\* Verifier.verify and decide(); the sealed gate on the receipt store
Attempt_OverTheStore(receipt, world) ==
  /\ stage = "ran"
  /\ stage' = "governed"
  /\ stored' = stored \cup world
  /\ attempts' = attempts + 1
  /\ outcome' = Govern(directive, envelope, receipt, stored \cup world)
  /\ row' = IF ~Recordable(receipt, outcome'.verdict) THEN "none"
            ELSE IF receipt.success THEN "success" ELSE "recorded"
  /\ UNCHANGED <<published, policy, directive, envelope, before, tree, exit, learned>>
Attempt(receipt, world) ==
  /\ stage = "ran"
  /\ stage' = "governed"
  /\ stored' = stored \cup world
  /\ attempts' = attempts + 1
  /\ outcome' = Govern(directive, envelope, receipt, world)
  /\ row' = IF ~Recordable(receipt, outcome'.verdict) THEN "none"
            ELSE IF receipt.success THEN "success" ELSE "recorded"
  /\ UNCHANGED <<published, policy, directive, envelope, before, tree, exit, learned>>

\* a subject cannot be read: observe_action raises, the seam is never reached,
\* and the action is reported as failed with no verdict, no row and no lesson
ObservationFails ==
  /\ stage = "ran"
  /\ MayRaise(envelope, tree)
  /\ stage' = "failed"
  /\ UNCHANGED <<published, policy, directive, envelope, before, tree, exit, stored, attempts, outcome,
                 row, learned>>

\* a receipt is presented again for an envelope that was not executed again
Replay ==
  /\ stage = "governed"
  /\ attempts < MaxAttempts
  /\ stage' = "ran"
  /\ before' = tree
  /\ outcome' = Null /\ row' = "none"
  /\ UNCHANGED <<published, policy, directive, envelope, tree, exit, stored, attempts, learned>>

Learn ==
  /\ stage = "governed"
  /\ stage' = "learned"
  /\ learned' = Consume(outcome, Today)
  /\ UNCHANGED <<published, policy, directive, envelope, before, tree, exit, stored, attempts,
                 outcome, row>>

Next ==
  \/ \E s \in Signals : Publish(s)
  \/ \E p \in Policies, readable \in BOOLEAN : Arbitrate(p, readable)
  \/ \E e \in Envelopes, asked \in BOOLEAN : Authorize(e, asked)
  \/ \E post \in Trees, code \in Exits : Execute(post, code)
  \/ \E receipt \in Receipts, world \in Observations : Attempt(receipt, world)
  \/ ObservationFails
  \/ Replay
  \/ Learn

Spec == Init /\ [][Next]_vars

-----------------------------------------------------------------------------
(* What happened, told from the workspaces and not from the evidence *)

Changed == {p \in Path \ Escaping : before.holds[p] # tree.holds[p]}

\* nothing is there, or no listing shows it
Unlisted(ws, p) == ws.holds[p] = "none" \/ Hidden(ws, p)

\* how much of a path an observer of the workspace sees
Sight(ws, p) == IF Unlisted(ws, p) THEN "unlisted" ELSE IF Unreadable(ws, p) THEN "unreadable" ELSE "open"

\* the paths no observer saw before or after, or could read before or after
OutOfSight == {p \in Path : Sight(before, p) = Sight(tree, p) /\ Sight(tree, p) # "open"}

\* the paths that were opened to the observer or closed to it
Uncovered == {p \in Path : Sight(before, p) # Sight(tree, p)}

\* the directories a nested write cannot do without, as far as the listings show
Entailed ==
  {a \in UNION {Ancestors[s] : s \in Declared(envelope)} : Unlisted(before, a) /\ tree.holds[a] = "dir"}

\* the envelope's operation took effect, and nothing else in sight did
Done ==
  /\ Declared(envelope) \subseteq Changed \cup Uncovered
  /\ Changed \subseteq Declared(envelope) \cup Entailed \cup OutOfSight
  /\ CASE envelope.op = "file.write"  -> tree.holds[envelope.path] = envelope.content
       [] envelope.op = "dir.make"    -> tree.holds[envelope.path] = "dir"
       [] envelope.op = "file.delete" -> tree.holds[envelope.path] \notin Content \cup {"dir"}
       [] OTHER -> envelope.outputs # {}

\* no run checks this, for the code refutes it: a file unreadable before and after,
\* or in a directory that is not listed, changes under a VERIFIED verdict
NothingElseChanged ==
  outcome # Null /\ outcome.verdict.status = "VERIFIED" => Changed \subseteq Declared(envelope) \cup Entailed

\* A verdict of VERIFIED, and so a recorded success, is about an attempt that
\* left the authorized state behind and changed nothing else that could be seen
\* both before and after, or was seen to come or to go, under a signed envelope:
\* whatever the receipt says, however often it is replayed, whatever earlier
\* attempts observed (pipeline.verify, observers.observe_action).  A file that
\* could not be read at either time, and what lay in a directory that could not
\* be listed, are the two exceptions (NothingElseChanged).
VerifiedWasDone ==
  /\ (outcome # Null /\ outcome.verdict.status = "VERIFIED") =>
        envelope.signed /\ outcome.verdict.envelope = envelope.id /\ Done
  /\ row = "success" => outcome.verdict.status = "VERIFIED"

\* Clearance meets every floor at once: an envelope of normal stakes needs a
\* VERIFIED verdict, one of high stakes a VERIFIED verdict at two sources, a
\* policy's minimum holds whatever salience said, and silence about risk is
\* treated as the maximum (govern.decide, interpret).
ClearedAtItsStakes ==
  outcome # Null /\ outcome.cleared =>
    LET verified == outcome.verdict.status = "VERIFIED"
        twice    == verified /\ outcome.verdict.stakes \in TwoSource
        silent   == \A s \in published :
                      s.facet = "risk" /\ s.subject = envelope.id => s.confidence = 0 \/ ~ValidSignal(s)
        demanded == IF silent THEN policy.maxVerification ELSE policy.minVerification
    IN  /\ VerifyPolicy(policy) /\ policy.subject = envelope.id
        /\ envelope.stakes # "low" => verified
        /\ envelope.stakes \in TwoSource => twice
        /\ demanded >= Independent => verified
        /\ demanded >= Full => twice

\* Only a change the world confirmed, as far as it could be seen, is nominated
\* for learning, under a policy that allows it and a risk somebody asserted to
\* be low, unless the policy caps no risk at all; never for an action other than the directive's (decide,
\* adaptation.nominate).
LearnedFromTheWorld ==
  learned # Null /\ learned.decision.nominated =>
    /\ Done
    /\ VerifyPolicy(policy) /\ policy.allowAdaptation
    /\ learned.decision.subject = envelope.id /\ policy.subject = envelope.id
    /\ \/ policy.adaptationMaxRisk = Unit
       \/ \E s \in published : /\ ValidSignal(s) /\ s.facet = "risk" /\ s.subject = envelope.id
                               /\ s.confidence > 0 /\ s.influence <= policy.adaptationMaxRisk

\* An inhibitor is pinned for an incident and for nothing else: some valid
\* signal asserted a risk over the cap.  It is never lost to a failed
\* attribution, never nominated as well, and never decays (memory.retain,
\* adaptation.nominate).
InhibitorsAreIncidents ==
  learned # Null =>
    /\ learned.recorded
    /\ learned.kept.inhibitor =>
         /\ ~learned.decision.nominated
         /\ \A now \in Readings : Decay(learned.kept, now) = 0
         /\ \E s \in published : /\ ValidSignal(s) /\ s.facet = "risk" /\ s.subject = envelope.id
                                 /\ s.confidence > 0 /\ s.influence > policy.adaptationMaxRisk
=============================================================================
