----------------------------- MODULE Interpreter -----------------------------
(***************************************************************************)
(* The central interpreter (salienceos/interpreter): published salience is *)
(* arbitrated into one directive, inside the bounds of a signed policy.    *)
(* interpret() is a pure function, so this module holds operators only;    *)
(* SaliencePlane drives them.                                              *)
(*                                                                         *)
(* Abstracted: a number of the unit interval is n/Unit, so a weighted mean *)
(* is a pair of integers and is compared exactly; signatures are one bit;  *)
(* a retention class is its place 1..4 on RETENTION_ORDER; tokens have no  *)
(* length (a signal that breaks the audit fence is one with ref = FALSE).  *)
(***************************************************************************)
EXTENDS Integers, FiniteSets, FiniteSetsExt

CONSTANTS
  Unit,        \* the denominator of influences, confidences and risks
  Reserved     \* capabilities in the un-grantable namespace, however spelled

ASSUME UnitAssumption == Unit \in Nat \ {0}

Facets == {"attention", "verification", "risk", "memory", "routing", "adaptation"}

\* VerificationDepth
DepthNone == 0
Receipt == 1
Independent == 2
Full == 3

Ephemeral == 1
RetentionOrder == 1..4    \* ephemeral, working, episodic, semantic

-----------------------------------------------------------------------------
(* Signals *)

InUnit(n) == n \in 0..Unit

ValidSignal(s) == s.ref /\ InUnit(s.influence) /\ InUnit(s.confidence)

\* the two scorers: a clamped weighted sum, and a rule
ClampUnit(n) == IF n < 0 THEN 0 ELSE IF n > Unit THEN Unit ELSE n

Signal(subsystem, subject, facet, influence, confidence) ==
  [subsystem |-> subsystem, subject |-> subject, facet |-> facet, ref |-> TRUE,
   influence |-> influence, confidence |-> confidence]

AdditiveScorer(subsystem, subject, facet, features, weights, confidence) ==
  LET raw == MapThenSumSet(LAMBDA k : weights[k] * features[k], DOMAIN weights)
  IN  Signal(subsystem, subject, facet, ClampUnit(raw), ClampUnit(confidence))

ThresholdScorer(subsystem, subject, facet, value, threshold, confidence) ==
  Signal(subsystem, subject, facet, IF value >= threshold THEN Unit ELSE 0, ClampUnit(confidence))

-----------------------------------------------------------------------------
(* The signed policy *)

NoPolicy == [signed |-> FALSE]

IsUngrantable(capability) == capability \in Reserved

\* issue_policy strips the prohibited class; a malformed list grants nothing
IssuePolicy(fields, capabilities, malformed) ==
  [fields EXCEPT !.signed = TRUE,
                 !.capabilities = IF malformed THEN {} ELSE {c \in capabilities : ~IsUngrantable(c)}]

\* a signature is not enough: the envelope must also be coherent
VerifyPolicy(p) ==
  /\ p.signed
  /\ p.typed
  /\ 0 <= p.minBudget /\ p.minBudget <= p.maxBudget
  /\ 0 <= p.minVerification /\ p.minVerification <= p.maxVerification /\ p.maxVerification <= Full
  /\ 0 <= p.adaptationMinVerification /\ p.adaptationMinVerification <= p.maxVerification
  /\ p.maxRetention \in RetentionOrder
  /\ InUnit(p.adaptationMaxRisk)

-----------------------------------------------------------------------------
(* Arbitration *)

Weight(group) == MapThenSumSet(LAMBDA s : s.confidence, group)
Mass(group)   == MapThenSumSet(LAMBDA s : s.influence * s.confidence, group)

\* a facet all of whose signals have no confidence is absent, not zero
Informs(signals, facet) ==
  Weight({s \in signals : s.facet = facet}) > 0

\* the confidence-weighted mean of a facet, a fraction <<numerator, denominator>>
Aggregate(signals, facet, absent) ==
  LET group == {s \in signals : s.facet = facet} IN
  IF Informs(signals, facet) THEN <<Mass(group), Unit * Weight(group)>> ELSE absent

Zero == <<0, 1>>
One  == <<1, 1>>
Greater(x, y) == x[1] * y[2] > y[1] * x[2]

\* int(x + 0.5) for x = fraction * span
RoundHalfUp(x, span) == (2 * x[1] * span + x[2]) \div (2 * x[2])

Clamp(v, lo, hi) == IF v < lo THEN lo ELSE IF v > hi THEN hi ELSE v

Scale(x, lo, hi) == lo + RoundHalfUp(x, hi - lo)

\* risk nobody spoke of is maximal
Risk_Benign(signals) == Aggregate(signals, "risk", Zero)
Risk(signals) == Aggregate(signals, "risk", One)

VerificationDepth(p, signals) ==
  LET risk    == Risk(signals)
      request == Aggregate(signals, "verification", Zero)
      demand  == IF Greater(risk, request) THEN risk ELSE request
  IN  Clamp(p.minVerification + RoundHalfUp(demand, p.maxVerification - p.minVerification),
            p.minVerification, p.maxVerification)

Retention(p, signals) ==
  Clamp(Scale(Aggregate(signals, "memory", Zero), 1, p.maxRetention), 1, p.maxRetention)

\* the subsystem of the routing signal with the highest score, "" if none scores
RoutingHint(signals) ==
  LET scored == {s \in signals : s.facet = "routing" /\ s.influence * s.confidence > 0}
      best   == {s \in scored : \A t \in scored :
                   s.influence * s.confidence >= t.influence * t.confidence}
  IN  IF best = {} THEN "" ELSE (CHOOSE s \in best : TRUE).subsystem

\* why adaptation is or is not open, in the order the code asks
Rationale(p, signals) ==
  CASE ~p.allowAdaptation -> "policy_disallowed"
    [] p.allowAdaptation /\ ~Greater(Aggregate(signals, "adaptation", Zero), Zero) -> "not_requested"
    [] OTHER ->
         IF VerificationDepth(p, signals) < p.adaptationMinVerification THEN "under_verified"
         ELSE IF Greater(Risk(signals), <<p.adaptationMaxRisk, Unit>>)
              THEN IF Informs(signals, "risk") THEN "risk_exceeded" ELSE "risk_unknown"
              ELSE "eligible"

\* 0.9 of the unit
Immediate(p, signals) ==
  LET attention == Aggregate(signals, "attention", Zero) IN
  p.allowImmediateReconfigure /\ 10 * attention[1] >= 9 * attention[2]

HardDeny ==
  [subject |-> "", budget |-> 0, depth |-> Full, retention |-> Ephemeral, routing |-> "",
   eligible |-> FALSE, rationale |-> "policy_disallowed", capabilities |-> {}, immediate |-> FALSE]

\* a publisher whose stream cannot be read informs nothing
Interpret(p, published, readable) ==
  LET valid   == IF readable THEN {s \in published : ValidSignal(s)} ELSE {}
      signals == {s \in valid : s.subject = p.subject /\ s.facet \in Facets}
      attention == Aggregate(signals, "attention", Zero)
  IN  IF ~VerifyPolicy(p) THEN HardDeny
      ELSE [subject      |-> p.subject,
            budget       |-> Clamp(Scale(attention, p.minBudget, p.maxBudget), p.minBudget, p.maxBudget),
            depth        |-> VerificationDepth(p, signals),
            retention    |-> Retention(p, signals),
            routing      |-> RoutingHint(signals),
            eligible     |-> Rationale(p, signals) = "eligible",
            rationale    |-> Rationale(p, signals),
            capabilities |-> p.capabilities,
            immediate    |-> Immediate(p, signals)]

\* the prohibited class is refused before membership is asked
GrantsCapability(directive, capability) ==
  ~IsUngrantable(capability) /\ capability \in directive.capabilities
=============================================================================
