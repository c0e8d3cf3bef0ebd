----------------------------- MODULE ControlSeam -----------------------------
(***************************************************************************)
(* The control seam (salienceos/control) and the two learning channels     *)
(* behind it (salienceos/consumers): a directive and a verdict become one  *)
(* governed outcome, the outcome becomes a nomination and a retention.     *)
(*                                                                         *)
(* Abstracted: reasons other than the structured ones are left out; time   *)
(* is in hundredths of a day, and a decayed weight is the number of        *)
(* complete half-lives behind it (Decay); nobody reinforces a memory yet,  *)
(* so the reinforcement term is zero.                                      *)
(***************************************************************************)
EXTENDS Interpreter, Verifier

CONSTANT NoDirective, NoHandoff

EscalationFor(depth) == IF depth >= Full THEN "high" ELSE NoStakes

StakesFor(directive, floor) == MaxStakes(floor, EscalationFor(directive.depth))

\* the level a stakes demands by itself, the strictest for what is no Stakes
StakesFloor(stakes) ==
  CASE stakes = "low" -> Receipt
    [] stakes = "normal" -> Independent
    [] OTHER -> Full

AttestationCompatible == {"INTEGRITY_ATTESTED", "NO_WORLD_FACT", "NO_DISTINCT_FAILURE_MODE"}

AchievedLevel(verdict) ==
  CASE verdict.status = "VERIFIED" -> IF verdict.stakes \in TwoSource THEN Full ELSE Independent
    [] verdict.status = "UNVERIFIED" ->
         IF "INTEGRITY_ATTESTED" \in verdict.reasons /\ verdict.reasons \subseteq AttestationCompatible
         THEN Receipt ELSE DepthNone
    [] OTHER -> DepthNone

\* eligible exactly when the rationale says so
ValidDirective(d) == d.eligible <=> d.rationale = "eligible"

Bound(d, verdict) == d.subject # "" /\ d.subject = verdict.envelope

RequiredLevel_Salience(d, verdict) == d.depth
RequiredLevel(d, verdict) ==
  IF ~Bound(d, verdict) THEN Full
  ELSE LET floor == StakesFloor(verdict.stakes)
       IN  Clamp(IF d.depth > floor THEN d.depth ELSE floor, DepthNone, Full)

NullVerdict == [status |-> "UNVERIFIED", reasons |-> {}, envelope |-> "", stakes |-> NoStakes]

Denied ==
  [verdict |-> NullVerdict, required |-> Full, achieved |-> DepthNone, cleared |-> FALSE,
   adaptation |-> FALSE, directive |-> NoDirective, subject |-> ""]

Decide(d, verdict) ==
  LET bound   == Bound(d, verdict)
      cleared == bound /\ verdict.status # "FAILED" /\ AchievedLevel(verdict) >= RequiredLevel(d, verdict)
  IN  IF ~ValidDirective(d) THEN Denied
      ELSE [verdict    |-> verdict,
            required   |-> RequiredLevel(d, verdict),
            achieved   |-> AchievedLevel(verdict),
            cleared    |-> cleared,
            adaptation |-> cleared /\ d.eligible /\ verdict.status = "VERIFIED",
            directive  |-> IF bound THEN d ELSE NoDirective,
            subject    |-> IF bound THEN d.subject ELSE ""]

Govern(d, env, receipt, worldEvidence) ==
  IF ~ValidDirective(d) THEN Denied
  ELSE Decide(d, Verify(env, receipt, worldEvidence, EscalationFor(d.depth)))

-----------------------------------------------------------------------------
(* The weight channel *)

Handoff(subject) == [subject |-> subject, rationale |-> "risk_exceeded"]

Refusal(subject, handoff) == [subject |-> subject, nominated |-> FALSE, handoff |-> handoff]

\* the only nomination predicate is the recorded adaptation bit
Nominate_AnyRisk(outcome) ==
  IF outcome.directive = NoDirective THEN Refusal("", NoHandoff)
  ELSE IF outcome.adaptation THEN [subject |-> outcome.subject, nominated |-> TRUE, handoff |-> NoHandoff]
  ELSE Refusal(outcome.subject, IF outcome.directive.rationale \in {"risk_exceeded", "risk_unknown"}
                                THEN Handoff(outcome.subject) ELSE NoHandoff)
Nominate(outcome) ==
  IF outcome.directive = NoDirective \/ outcome.subject = "" THEN Refusal("", NoHandoff)
  ELSE IF outcome.adaptation THEN [subject |-> outcome.subject, nominated |-> TRUE, handoff |-> NoHandoff]
  ELSE Refusal(outcome.subject, IF outcome.directive.rationale = "risk_exceeded"
                                THEN Handoff(outcome.subject) ELSE NoHandoff)

-----------------------------------------------------------------------------
(* The memory channel *)

\* a hand-off is honoured only against the recorded decision
Attributable(outcome, handoff) ==
  \/ handoff = NoHandoff
  \/ /\ outcome.directive # NoDirective
     /\ handoff.subject = outcome.subject
     /\ handoff.rationale = "risk_exceeded"
     /\ outcome.directive.rationale = "risk_exceeded"

Retain(outcome, now, handoff) ==
  [subject   |-> outcome.subject,
   class     |-> IF outcome.directive # NoDirective /\ outcome.directive.retention \in RetentionOrder
                 THEN outcome.directive.retention ELSE Ephemeral,
   inhibitor |-> handoff # NoHandoff,
   cleared   |-> outcome.cleared,
   recorded  |-> now]

HalfLife == <<2, 25, 1400, 18000>>

\* complete half-lives passed; a lagging clock sees age 0, a pin never decays
Decay(kept, now) ==
  IF kept.inhibitor THEN 0
  ELSE LET age == IF now > kept.recorded THEN now - kept.recorded ELSE 0
       IN  age \div HalfLife[kept.class]

\* both channels, the weight channel first
Consume(outcome, now) ==
  LET decision == Nominate(outcome) IN
  [decision |-> decision,
   recorded |-> Attributable(outcome, decision.handoff),
   kept     |-> Retain(outcome, now, decision.handoff)]
=============================================================================
