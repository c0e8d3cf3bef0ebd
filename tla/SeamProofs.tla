----------------------------- MODULE SeamProofs -----------------------------
(* Proofs about Seam, for every set of tools and arguments, every grant    *)
(* and every configuration.                                                *)
EXTENDS Seam, TLAPS

LEMMA StricterIsBoth ==
  ASSUME NEW l \in Leash, NEW m \in Leash
  PROVE  /\ Stricter(l, m) \in {l, m}
         /\ Stricter(l, m) = "act" => l = "act" /\ m = "act"
         /\ Stricter(l, m) # "notify" => l # "notify" /\ m # "notify"
  BY DEF Stricter, Rank, Leash

LEMMA FloorWithholds ==
  ASSUME NEW l \in Leash, NEW c \in BOOLEAN
  PROVE  Floor(l, c) \in Leash /\ (Floor(l, c) = "act" => l = "act" /\ ~c)
  BY StricterIsBoth DEF Floor, Leash

\* Under a signed grant, a leash that is not capped to notify_only rests on a
\* grant that verifies and lists the tool.
LEMMA CappedByGrant ==
  ASSUME TypeOK, NEW tool \in Tool, NEW l \in Leash
  PROVE  /\ Capped(l, tool) \in Leash
         /\ Capped(l, tool) = "act" => l = "act"
         /\ Enforced /\ Capped(l, tool) # "notify" =>
              valid /\ cap[tool] \in {"act", "propose"}
         /\ Enforced /\ Capped(l, tool) = "act" => valid /\ cap[tool] = "act"
<1> DEFINE m == IF valid /\ cap[tool] # "unlisted" THEN cap[tool] ELSE "notify"
<1>1. m \in Leash
  BY DEF TypeOK, Leash
<1>2. Capped(l, tool) = IF ~Enforced THEN l ELSE Stricter(l, m)
  BY DEF Capped
<1>3. CASE ~Enforced
  BY <1>2, <1>3
<1>4. CASE Enforced
  <2>1. /\ Stricter(l, m) \in {l, m}
        /\ Stricter(l, m) = "act" => l = "act" /\ m = "act"
        /\ Stricter(l, m) # "notify" => l # "notify" /\ m # "notify"
    BY <1>1, StricterIsBoth
  <2>2. m # "notify" => valid /\ m = cap[tool]
    OBVIOUS
  <2> QED
    BY <1>1, <1>2, <1>4, <2>1, <2>2 DEF Leash
<1> QED
  BY <1>3, <1>4

\* What it takes for a request to be run at once.
LEMMA ActsAlone ==
  ASSUME TypeOK, NEW r \in Request, NEW chosen \in Leash, LeashOf(r, chosen) = "act"
  PROVE  /\ Capped(chosen, r.tool) = "act"
         /\ ~(r.source = "proposed" /\ r.tool \in Egress \cup {"run_command"})
         /\ r.tool \in Emission => MayEmitAlone(r, "act")
         /\ r.tool = "run_command" => MayRunContained /\ MayReachNetwork
<1> DEFINE l1 == Capped(chosen, r.tool)
           l2 == ProposerFloor(r, l1)
           l3 == EmissionFloor(r, l2)
<1>0. r.tool \in Tool
  BY DEF Request
<1>1. l1 \in Leash
  BY <1>0, CappedByGrant
<1>2. l2 \in Leash /\ (l2 = "act" => l1 = "act"
        /\ ~(r.source = "proposed" /\ r.tool \in Egress \cup {"run_command"}))
  <2> DEFINE c == r.source = "proposed" /\ r.tool \in Egress \cup {"run_command"}
  <2>1. c \in BOOLEAN
    OBVIOUS
  <2>2. l2 = Floor(l1, c)
    BY DEF ProposerFloor
  <2> HIDE DEF c, l1
  <2>3. Floor(l1, c) \in Leash /\ (Floor(l1, c) = "act" => l1 = "act" /\ ~c)
    BY <1>1, <2>1, FloorWithholds
  <2> QED
    BY <2>2, <2>3 DEF c
<1>3. l3 \in Leash /\ (l3 = "act" => l2 = "act" /\ (r.tool \in Emission => MayEmitAlone(r, l2)))
  <2> DEFINE c == r.tool \in Emission /\ ~MayEmitAlone(r, l2)
  <2>1. c \in BOOLEAN
    OBVIOUS
  <2>2. l3 = Floor(l2, c)
    BY DEF EmissionFloor
  <2>3. c \/ ~(r.tool \in Emission) \/ MayEmitAlone(r, l2)
    OBVIOUS
  <2> HIDE DEF c, l2
  <2>4. Floor(l2, c) \in Leash /\ (Floor(l2, c) = "act" => l2 = "act" /\ ~c)
    BY <1>2, <2>1, FloorWithholds
  <2> QED
    BY <2>2, <2>3, <2>4
<1>4. l3 = "act" /\ (r.tool = "run_command" => MayRunContained /\ MayReachNetwork)
  <2> DEFINE c == r.tool = "run_command" /\ ~(MayRunContained /\ MayReachNetwork)
  <2>1. c \in BOOLEAN
    OBVIOUS
  <2>2. LeashOf(r, chosen) = Floor(l3, c)
    BY DEF LeashOf, ShellFloors
  <2>3. c \/ ~(r.tool = "run_command") \/ (MayRunContained /\ MayReachNetwork)
    OBVIOUS
  <2> HIDE DEF c, l3
  <2>4. Floor(l3, c) \in Leash /\ (Floor(l3, c) = "act" => l3 = "act" /\ ~c)
    BY <1>3, <2>1, FloorWithholds
  <2> QED
    BY <2>2, <2>3, <2>4
<1> QED
  BY <1>2, <1>3, <1>4

-----------------------------------------------------------------------------
\* What a call of execute_and_verify leaves behind.
LEMMA ExecuteResult ==
  ASSUME TypeOK, NEW tool \in Tool, NEW target \in Target, NEW leash, NEW seen \in Target,
         NEW source \in Source, NEW gated \in BOOLEAN,
         ExecuteAndVerify(tool, target, leash, seen, source, gated)
  PROVE  /\ quota' \in 0..MaxQuota
         /\ answer' \in Execution \cup {None, Refused}
         /\ answer' \notin {None, Refused} =>
              /\ Executes(tool, leash, gated)
              /\ answer' = [tool |-> tool, target |-> target, seen |-> seen,
                            source |-> source, gated |-> gated]
<1>1. quota' \in 0..MaxQuota
  BY SeamAssumption DEF ExecuteAndVerify, Executes, TypeOK
<1>2. \/ /\ Executes(tool, leash, gated)
         /\ answer' = [tool |-> tool, target |-> target, seen |-> seen,
                       source |-> source, gated |-> gated]
      \/ answer' \in {None, Refused}
  BY DEF ExecuteAndVerify
<1>3. [tool |-> tool, target |-> target, seen |-> seen,
       source |-> source, gated |-> gated] \in Execution
  BY DEF Execution
<1>4. None \notin Execution /\ Refused \notin Execution
  BY SeamAssumption
<1>5. CASE answer' \in {None, Refused}
  BY <1>1, <1>5
<1>6. CASE answer' \notin {None, Refused}
  <2>1. answer' = [tool |-> tool, target |-> target, seen |-> seen,
                   source |-> source, gated |-> gated]
    BY <1>2, <1>6
  <2>2. Executes(tool, leash, gated)
    BY <1>2, <1>6
  <2>3. answer' \in Execution
    BY <1>3, <2>1
  <2> QED
    BY <1>1, <1>6, <2>1, <2>2, <2>3
<1> QED
  BY <1>5, <1>6

LEMMA RequestParts ==
  ASSUME NEW r \in Request
  PROVE  r.tool \in Tool /\ r.target \in Target /\ r.source \in Source
  BY DEF Request

LEMMA ResolvedType ==
  ASSUME NEW r \in Request, NEW chosen \in Resolved(r.asked)
  PROVE  chosen \in Leash
<1>1. r.asked \in Leash \cup {"none", "invalid"}
  BY DEF Request
<1> QED
  BY <1>1 DEF Resolved, Leash

\* The variables keep their types (the session, its grant, a held Decision).
THEOREM SeamTypeCorrect == Spec => []TypeOK
<1>1. Init => TypeOK
  <2> SUFFICES ASSUME Init PROVE TypeOK
    OBVIOUS
  <2>1. quota \in 0..MaxQuota
    BY SeamAssumption DEF Init
  <2>2. caps \subseteq Capabilities
    BY DEF Init
  <2>3. held \in Decision \cup {None} /\ answer \in Execution \cup {None, Refused}
    BY DEF Init
  <2> QED
    BY <2>1, <2>2, <2>3 DEF Init, TypeOK
<1>2. TypeOK /\ [Next]_vars => TypeOK'
  <2> SUFFICES ASSUME TypeOK, [Next]_vars PROVE TypeOK'
    OBVIOUS
  <2>1. ASSUME NEW r \in Request, Govern(r) PROVE TypeOK'
    <3>1. UNCHANGED <<grant, host>>
      BY <2>1 DEF Govern
    <3>2. held' \in Decision \cup {None} /\ quota' \in 0..MaxQuota
          /\ answer' \in Execution \cup {None, Refused}
      <4>1. CASE GovernPaused(r) \/ GovernDenied(r) \/ GovernNotified(r)
        BY <4>1 DEF GovernPaused, GovernDenied, GovernNotified, Answer, TypeOK
      <4>2. CASE GovernExecutes(r)
        <5>1. ExecuteAndVerify(r.tool, r.target, "act", r.target, r.source, FALSE)
              /\ held' = held
          BY <4>2 DEF GovernExecutes
        <5> QED
          BY <5>1, RequestParts, ExecuteResult DEF TypeOK
      <4>3. CASE GovernHolds(r)
        BY <4>3, RequestParts DEF GovernHolds, Decision, TypeOK
      <4> QED
        BY <2>1, <4>1, <4>2, <4>3 DEF Govern
    <3> QED
      BY <3>1, <3>2 DEF TypeOK, grant, host
  <2>2. CASE Approve
    <3>1. UNCHANGED <<grant, host>>
      BY <2>2 DEF Approve
    <3>2. CASE ApproveDenied
      BY <3>1, <3>2 DEF ApproveDenied, Answer, TypeOK, grant, host
    <3>3. CASE ApproveRuns
      <4>1. held \in Decision
        BY <3>3 DEF ApproveRuns, TypeOK
      <4>2. held' \in Decision
        BY <3>3, <4>1 DEF ApproveRuns, Decision
      <4>3. (IF held.origin = "collaborator" THEN "proposed" ELSE "host") \in Source
            /\ held.tool \in Tool /\ held.target \in Target /\ held.seal \in Target
        BY <4>1 DEF Source, Decision
      <4>4. quota' \in 0..MaxQuota /\ answer' \in Execution \cup {None, Refused}
        BY <3>3, <4>3, ExecuteResult DEF ApproveRuns
      <4> QED
        BY <3>1, <4>2, <4>4 DEF TypeOK, grant, host
    <3> QED
      BY <2>2, <3>2, <3>3 DEF Approve
  <2>3. CASE Regrant
    BY <2>3 DEF Regrant, TypeOK, host
  <2>4. CASE Reconfigure
    BY <2>4 DEF Reconfigure, TypeOK, host
  <2>5. CASE PauseOrResume
    BY <2>5 DEF PauseOrResume, TypeOK, grant
  <2>6. CASE HostChanges
    BY <2>6 DEF HostChanges, TypeOK, grant
  <2>7. CASE Rebind
    <3>1. held \in Decision
      BY <2>7 DEF Rebind, TypeOK
    <3>2. held' \in Decision
      BY <2>7, <3>1 DEF Rebind, Decision
    <3> QED
      BY <2>7, <3>2 DEF Rebind, TypeOK, grant, host
  <2>8. CASE Drop
    BY <2>8 DEF Drop, TypeOK, grant, host
  <2>9. CASE UNCHANGED vars
    BY <2>9 DEF vars, TypeOK, grant, host
  <2> QED
    BY <2>1, <2>2, <2>3, <2>4, <2>5, <2>6, <2>7, <2>8, <2>9 DEF Next
<1> QED
  BY <1>1, <1>2, PTL DEF Spec

-----------------------------------------------------------------------------
Safe ==
  OnlyUnderTheGrantInForce /\ AutonomyIsSigned /\ ProposerIsConfined /\ ApprovedIsExecuted

LEMMA NothingExecuted == answer \in {None, Refused} => Safe
  BY DEF Safe, OnlyUnderTheGrantInForce, AutonomyIsSigned, ProposerIsConfined,
         ApprovedIsExecuted, Executed, Alone

\* What runs at once satisfies the four properties.
LEMMA GovernIsSafe ==
  ASSUME TypeOK, NEW r \in Request, Govern(r), answer' \notin {None, Refused}
  PROVE  Safe'
<1>1. GovernExecutes(r) /\ UNCHANGED <<grant, host>>
  BY DEF Govern, GovernPaused, GovernDenied, GovernNotified, GovernHolds, Answer
<1>2. PICK chosen \in Resolved(r.asked) : LeashOf(r, chosen) = "act"
  BY <1>1 DEF GovernExecutes
<1>3. chosen \in Leash /\ r.tool \in Tool /\ r.target \in Target /\ r.source \in Source
  BY ResolvedType, RequestParts
<1>4. /\ Executes(r.tool, "act", FALSE)
      /\ answer' = [tool |-> r.tool, target |-> r.target, seen |-> r.target,
                    source |-> r.source, gated |-> FALSE]
  BY <1>1, <1>3, ExecuteResult DEF GovernExecutes
<1>5. /\ answer'.tool = r.tool /\ answer'.target = r.target
      /\ answer'.source = r.source /\ answer'.gated = FALSE
  BY <1>4
<1>6. Authorized(r.tool, r.target) /\ ~(r.source = "proposed" /\ OffLimits(r.tool, r.target))
  BY <1>1 DEF GovernExecutes, Denied
<1>7. /\ Capped(chosen, r.tool) = "act"
      /\ ~(r.source = "proposed" /\ r.tool \in Egress \cup {"run_command"})
      /\ r.tool \in Emission => MayEmitAlone(r, "act")
      /\ r.tool = "run_command" => MayRunContained /\ MayReachNetwork
  BY <1>2, <1>3, ActsAlone
<1>8. Enforced => valid /\ cap[r.tool] = "act" /\ Granted = caps
  BY <1>3, <1>7, CappedByGrant DEF Granted
<1>9. /\ valid' = valid /\ caps' = caps /\ cap' = cap
      /\ protectedCode' = protectedCode /\ netns' = netns
  BY <1>1 DEF grant, host
<1>10. OnlyUnderTheGrantInForce'
  BY <1>5, <1>6, <1>8, <1>9 DEF OnlyUnderTheGrantInForce, Authorized
<1>11. AutonomyIsSigned'
  BY <1>5, <1>7, <1>8, <1>9
     DEF AutonomyIsSigned, MayEmitAlone, MayRunContained, MayReachNetwork, Emission
<1>12. ProposerIsConfined'
  BY <1>5, <1>6, <1>7 DEF ProposerIsConfined, OffLimits
<1>13. ApprovedIsExecuted'
  BY <1>5 DEF ApprovedIsExecuted
<1> QED
  BY <1>10, <1>11, <1>12, <1>13 DEF Safe

\* What runs on approval satisfies the four properties.
LEMMA ApproveIsSafe ==
  ASSUME TypeOK, Approve, answer' \notin {None, Refused}
  PROVE  Safe'
<1>1. ApproveRuns /\ UNCHANGED <<grant, host>>
  BY DEF Approve, ApproveDenied, Answer
<1> DEFINE source == IF held.origin = "collaborator" THEN "proposed" ELSE "host"
<1>2. held \in Decision
  BY <1>1 DEF ApproveRuns, TypeOK
<1>3. /\ held.tool \in Tool /\ held.target \in Target /\ held.seal \in Target
      /\ source \in Source /\ held.leash \in Leash
  BY <1>2 DEF Decision, Source, Leash
<1>4. /\ Executes(held.tool, held.leash, TRUE)
      /\ answer' = [tool |-> held.tool, target |-> held.target, seen |-> held.seal,
                    source |-> source, gated |-> TRUE]
  BY <1>1, <1>3, ExecuteResult DEF ApproveRuns
<1>5. /\ answer'.tool = held.tool /\ answer'.target = held.target
      /\ answer'.seen = held.seal /\ answer'.source = source /\ answer'.gated = TRUE
  BY <1>4
<1>6. /\ SealHolds(held) /\ Reauthorized(held)
      /\ held.origin = "collaborator" => ~OffLimits(held.tool, held.target)
  BY <1>1 DEF ApproveRuns, MayRun
<1>7. Enforced => valid /\ cap[held.tool] \in {"act", "propose"} /\ Granted = caps
  BY <1>3, <1>6, CappedByGrant DEF Reauthorized, Granted
<1>8. valid' = valid /\ caps' = caps /\ cap' = cap
  BY <1>1 DEF grant
<1>9. OnlyUnderTheGrantInForce'
  BY <1>5, <1>6, <1>7, <1>8 DEF OnlyUnderTheGrantInForce, Reauthorized, Authorized
<1>10. AutonomyIsSigned'
  BY <1>5 DEF AutonomyIsSigned, Alone
<1>11. ProposerIsConfined'
  BY <1>5, <1>6 DEF ProposerIsConfined
<1>12. ApprovedIsExecuted'
  BY <1>5, <1>6 DEF ApprovedIsExecuted, SealHolds
<1> QED
  BY <1>9, <1>10, <1>11, <1>12 DEF Safe

LEMMA AlwaysSafe == Spec => []Safe
<1>1. Init => Safe
  BY NothingExecuted DEF Init
<1>2. TypeOK /\ Safe /\ [Next]_vars => Safe'
  <2> SUFFICES ASSUME TypeOK, Safe, [Next]_vars PROVE Safe'
    OBVIOUS
  <2>1. answer' \in {None, Refused} => Safe'
    BY DEF Safe, OnlyUnderTheGrantInForce, AutonomyIsSigned, ProposerIsConfined,
           ApprovedIsExecuted, Executed, Alone
  <2>2. CASE Regrant \/ Reconfigure \/ PauseOrResume \/ HostChanges \/ Rebind \/ Drop
    BY <2>1, <2>2 DEF Regrant, Reconfigure, PauseOrResume, HostChanges, Rebind, Drop
  <2>3. CASE UNCHANGED vars
    BY <2>3 DEF vars, grant, host, Safe, OnlyUnderTheGrantInForce, AutonomyIsSigned,
                ProposerIsConfined, ApprovedIsExecuted, Executed, Alone, OffLimits,
                Capability, AutoCap
  <2> QED
    BY <2>1, <2>2, <2>3, GovernIsSafe, ApproveIsSafe DEF Next
<1> QED
  BY <1>1, <1>2, SeamTypeCorrect, PTL DEF Spec

\* Whatever is executed has its authority from the grant in force.
THEOREM GrantInForce == Spec => []OnlyUnderTheGrantInForce
<1>1. Safe => OnlyUnderTheGrantInForce
  BY DEF Safe
<1> QED
  BY <1>1, AlwaysSafe, PTL

\* No shell and no emission goes without a human hand or the operator's signature.
THEOREM AutonomyHolds == Spec => []AutonomyIsSigned
<1>1. Safe => AutonomyIsSigned
  BY DEF Safe
<1> QED
  BY <1>1, AlwaysSafe, PTL

\* What the Collaborator proposes stays within its bounds, approved or not.
THEOREM ProposerHolds == Spec => []ProposerIsConfined
<1>1. Safe => ProposerIsConfined
  BY DEF Safe
<1> QED
  BY <1>1, AlwaysSafe, PTL

\* What runs after an approval is what was shown.
THEOREM ApprovedHolds == Spec => []ApprovedIsExecuted
<1>1. Safe => ApprovedIsExecuted
  BY DEF Safe
<1> QED
  BY <1>1, AlwaysSafe, PTL
=============================================================================
