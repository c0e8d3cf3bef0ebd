-------------------------------- MODULE Seam --------------------------------
(***************************************************************************)
(* The governance seam of the Collaborator: govern_action and              *)
(* execute_and_verify (collaborator/governance.py), approve                *)
(* (collaborator/loop.py) and the signed grant they consult                *)
(* (collaborator/policycaps.py).  An action is judged when it is asked for *)
(* and, if it is held for the human, again when it is approved; between    *)
(* the two the grant, the host's protections, the pause and the held       *)
(* arguments may change.                                                   *)
(*                                                                         *)
(* Abstracted: arguments are a Target (a path, a command or a host, by     *)
(* what the gate tells apart); one decision is held at a time; salience,   *)
(* verification depth and previews are left out; the emission quota is a   *)
(* budget here (its durability is EmissionQuota's subject); the signature  *)
(* and the subject of a grant are one bit, valid.                          *)
(***************************************************************************)
EXTENDS Naturals

CONSTANTS
  Tool,       \* the tools of this instance
  Target,     \* the arguments of this instance
  Enforced,   \* was the session built with a signed grant? (sticky)
  Configured, \* what session.capabilities may hold, a set of sets
  MaxQuota,   \* bound: emissions before the quota is exhausted
  None,       \* no held decision, no answer
  Refused     \* the answer DENIED

Egress    == {"web_fetch", "net_post", "maint_fetch"}
PathTools == {"write_file", "read_file"}
Tools     == Egress \cup PathTools \cup {"run_command"}
Emission  == {"net_post"}                \* egress and mutating

\* the tools whose approval is bound to the arguments by a seal
Sealed == {"run_command", "write_file", "maint_fetch"} \cup Emission

Targets == {"plain", "outside", "controlled",    \* paths
            "command", "code", "sensitive",      \* commands
            "here", "there", "ineligible"}       \* destinations

TargetsOf(tool) ==
  CASE tool \in PathTools    -> {"plain", "outside", "controlled"}
    [] tool = "run_command"  -> {"command", "code", "sensitive"}
    [] OTHER                 -> {"here", "there", "ineligible"}

Leash == {"act", "propose", "notify"}
Source == {"turn", "proposed", "host"}

\* an egress tool needs its capability for the destination, another its own
Capability(tool, target) == IF tool \in Egress THEN <<tool, target>> ELSE <<tool, "any">>

AutoCap(target) == <<"net.post.auto", target>>
Contained    == <<"shell.contained_autonomy", "any">>
RawNetwork   == <<"shell.raw_network", "any">>

\* an ineligible destination has no capability
Grantable == Target \ {"ineligible"}

Capabilities ==
  (UNION {{Capability(tool, target) : target \in Grantable \cap TargetsOf(tool)} : tool \in Tool})
    \cup (IF "net_post" \in Tool THEN {AutoCap(target) : target \in Grantable} ELSE {})
    \cup (IF "run_command" \in Tool THEN {Contained, RawNetwork} ELSE {})

VARIABLES
  valid,          \* does the signed grant verify? (FALSE too when stripped)
  caps,           \* its capabilities
  cap,            \* its leash caps, per tool, or "unlisted"
  configured,     \* session.capabilities, mutable and unsigned
  paused,         \* session.paused
  protectedCode,  \* code_protection_available()
  netns,          \* netns_available()
  quota,          \* emissions left
  held,           \* the held decision, or None
  answer          \* what the last call did: None, Refused or what it executed

grant   == <<valid, caps, cap, configured>>
host    == <<paused, protectedCode, netns>>
vars    == <<grant, host, quota, held, answer>>

Request == {r \in [tool : Tool, target : Target, source : Source,
                   asked : Leash \cup {"none", "invalid"}] :
              /\ r.target \in TargetsOf(r.tool)
              /\ r.source = "turn" => r.asked = "none"
              /\ r.source = "proposed" => r.tool \notin Emission}

Decision == [tool : Tool, target : Target, seal : Target, leash : {"propose"},
             origin : {"direct", "collaborator"}, consumed : BOOLEAN]

Execution == [tool : Tool, target : Target, seen : Target,
              source : Source, gated : BOOLEAN]

ASSUME SeamAssumption ==
  /\ Tool \subseteq Tools /\ Target \subseteq Targets
  /\ Enforced \in BOOLEAN
  /\ MaxQuota \in Nat
  /\ None # Refused /\ None \notin Decision
  /\ None \notin Execution /\ Refused \notin Execution

Init ==
  /\ valid = TRUE
  /\ caps \in SUBSET Capabilities
  /\ cap \in [Tool -> Leash \cup {"unlisted"}]
  /\ configured \in Configured
  /\ paused = FALSE /\ protectedCode = FALSE /\ netns = FALSE
  /\ quota = MaxQuota
  /\ held = None /\ answer = None

-----------------------------------------------------------------------------
(* The grant, as policycaps reads it. *)

Granted_Fallback == IF Enforced /\ valid THEN caps ELSE configured

\* a grant that does not verify grants nothing; configuration counts only in a
\* session that was never given a grant
Granted == IF ~Enforced THEN configured ELSE IF valid THEN caps ELSE {}

Rank(l) == CASE l = "act" -> 0 [] l = "propose" -> 1 [] l = "notify" -> 2

Stricter(l, m) == IF Rank(l) >= Rank(m) THEN l ELSE m

\* apply_cap(leash, leash_cap(session, tool)); an unlisted tool may only notify
Capped(leash, tool) ==
  IF ~Enforced THEN leash
  ELSE Stricter(leash, IF valid /\ cap[tool] # "unlisted" THEN cap[tool] ELSE "notify")

Eligible(tool, target) == tool \in Egress => target # "ineligible"

InWorkspace(tool, target) == tool \in PathTools => target # "outside"

Authorized(tool, target) ==
  /\ Eligible(tool, target)
  /\ Capability(tool, target) \in Granted
  /\ InWorkspace(tool, target)

\* what the Collaborator may not bring up by itself
OffLimits(tool, target) ==
  \/ tool = "write_file" /\ target = "controlled"
  \/ tool = "run_command" /\ target \in {"code", "sensitive"}

-----------------------------------------------------------------------------
(* The leash of a request: the caller's or the session's choice, the signed *)
(* cap, and the floors that withhold autonomy.                              *)

\* _resolve_leash: an invalid one fails closed; without one the session's
\* override or the tool's default applies
Resolved(asked) ==
  IF asked = "none" THEN Leash ELSE IF asked = "invalid" THEN {"propose"} ELSE {asked}

Floor(leash, condition) == IF condition THEN Stricter(leash, "propose") ELSE leash

ProposerFloor_None(r, leash) == leash

ProposerFloor(r, leash) ==
  Floor(leash, r.source = "proposed" /\ r.tool \in Egress \cup {"run_command"})

MayEmitAlone_AnySource(r, leash) ==
  /\ Enforced /\ AutoCap(r.target) \in Granted /\ leash = "act"

MayEmitAlone(r, leash) ==
  /\ Enforced /\ AutoCap(r.target) \in Granted
  /\ r.source = "host" /\ r.asked = "act"
  /\ leash = "act"

MayRunContained_Unprotected == Enforced /\ Contained \in Granted

MayRunContained == protectedCode /\ Enforced /\ Contained \in Granted

MayReachNetwork == netns \/ (Enforced /\ RawNetwork \in Granted)

EmissionFloor(r, leash) ==
  Floor(leash, r.tool \in Emission /\ ~MayEmitAlone(r, leash))

ShellFloors(r, leash) ==
  Floor(leash, r.tool = "run_command" /\ ~(MayRunContained /\ MayReachNetwork))

LeashOf(r, chosen) ==
  ShellFloors(r, EmissionFloor(r, ProposerFloor(r, Capped(chosen, r.tool))))

-----------------------------------------------------------------------------
(* execute_and_verify: the last look at the leash cap, the shell floor and  *)
(* the quota, then the tool.  A tool may fail before it does anything.      *)

Executes(tool, leash, gated) ==
  /\ Capped(leash, tool) # "notify"
  /\ tool = "run_command" => gated \/ MayRunContained
  /\ tool \in Emission => quota > 0

ExecuteAndVerify(tool, target, leash, seen, source, gated) ==
  /\ quota' = IF tool \in Emission /\ Executes(tool, leash, gated) THEN quota - 1 ELSE quota
  /\ \/ /\ Executes(tool, leash, gated)
        /\ answer' = [tool |-> tool, target |-> target, seen |-> seen,
                      source |-> source, gated |-> gated]
     \/ answer' = IF Executes(tool, leash, gated) \/ Capped(leash, tool) = "notify"
                  THEN None ELSE Refused

-----------------------------------------------------------------------------
(* govern_action *)

Answer(what) == answer' = what /\ UNCHANGED <<held, quota>>

Denied(r) ==
  \/ ~Authorized(r.tool, r.target)
  \/ r.source = "proposed" /\ OffLimits(r.tool, r.target)

GovernPaused(r) == paused /\ Answer(None)

\* also when the interpreter or the policy raises
GovernDenied(r) == ~paused /\ Answer(Refused)

GovernNotified(r) ==
  /\ ~paused /\ ~Denied(r)
  /\ \E chosen \in Resolved(r.asked) : LeashOf(r, chosen) = "notify"
  /\ Answer(None)

GovernExecutes(r) ==
  /\ ~paused /\ ~Denied(r)
  /\ \E chosen \in Resolved(r.asked) : LeashOf(r, chosen) = "act"
  /\ ExecuteAndVerify(r.tool, r.target, "act", r.target, r.source, FALSE)
  /\ UNCHANGED held

GovernHolds(r) ==
  /\ ~paused /\ ~Denied(r)
  /\ held = None
  /\ \E chosen \in Resolved(r.asked) : LeashOf(r, chosen) = "propose"
  /\ held' = [tool |-> r.tool, target |-> r.target, seal |-> r.target,
              leash |-> "propose", consumed |-> FALSE,
              origin |-> IF r.source = "proposed" THEN "collaborator" ELSE "direct"]
  /\ answer' = None
  /\ UNCHANGED quota

Govern(r) ==
  /\ \/ GovernPaused(r) \/ GovernDenied(r) \/ GovernNotified(r)
     \/ GovernExecutes(r) \/ GovernHolds(r)
  /\ UNCHANGED <<grant, host>>

-----------------------------------------------------------------------------
(* approve *)

SealHolds_Any(d) == TRUE

SealHolds(d) == d.tool \in Sealed => d.seal = d.target

\* reauthorized_or_denied: the grant as it is now
Reauthorized_Stale(d) == Capped(d.leash, d.tool) # "notify"

Reauthorized(d) ==
  Authorized(d.tool, d.target) /\ Capped(d.leash, d.tool) # "notify"

MayRun(d) ==
  /\ SealHolds(d)
  /\ Reauthorized(d)
  /\ d.origin = "collaborator" => ~OffLimits(d.tool, d.target)

\* a gate that fails leaves the decision unconsumed
ApproveDenied ==
  /\ held # None /\ ~held.consumed
  /\ Answer(Refused)

ApproveRuns ==
  /\ held # None /\ ~held.consumed
  /\ MayRun(held)
  /\ held' = [held EXCEPT !.consumed = TRUE]
  /\ ExecuteAndVerify(held.tool, held.target, held.leash, held.seal,
                      IF held.origin = "collaborator" THEN "proposed" ELSE "host", TRUE)

Approve ==
  /\ ApproveDenied \/ ApproveRuns
  /\ UNCHANGED <<grant, host>>

-----------------------------------------------------------------------------
(* What others do between two calls. *)

\* the operator installs another grant, or it is stripped or altered
Regrant ==
  /\ Enforced
  /\ \/ valid' = ~valid /\ UNCHANGED <<caps, cap>>
     \/ /\ \E c \in Capabilities : caps' \in {caps \cup {c}, caps \ {c}}
        /\ UNCHANGED <<valid, cap>>
     \/ /\ \E tool \in Tool, l \in Leash \cup {"unlisted"} : cap' = [cap EXCEPT ![tool] = l]
        /\ UNCHANGED <<valid, caps>>
  /\ answer' = None
  /\ UNCHANGED <<configured, host, quota, held>>

Reconfigure ==
  /\ configured' \in Configured
  /\ answer' = None
  /\ UNCHANGED <<valid, caps, cap, host, quota, held>>

PauseOrResume ==
  /\ paused' = ~paused
  /\ answer' = None
  /\ UNCHANGED <<grant, protectedCode, netns, quota, held>>

\* only a shell asks for the host's protections
HostChanges ==
  /\ "run_command" \in Tool
  /\ protectedCode' \in BOOLEAN /\ netns' \in BOOLEAN
  /\ answer' = None
  /\ UNCHANGED <<grant, paused, quota, held>>

\* the arguments of a held decision are rebound after they were shown
Rebind ==
  /\ held # None
  /\ \E target \in Target \cap TargetsOf(held.tool) : held' = [held EXCEPT !.target = target]
  /\ answer' = None
  /\ UNCHANGED <<grant, host, quota>>

\* the decision is forgotten: declined, or its task is over
Drop ==
  /\ held # None
  /\ held' = None
  /\ answer' = None
  /\ UNCHANGED <<grant, host, quota>>

Next ==
  \/ \E r \in Request : Govern(r)
  \/ Approve
  \/ Regrant \/ Reconfigure \/ PauseOrResume \/ HostChanges \/ Rebind \/ Drop

Spec == Init /\ [][Next]_vars

-----------------------------------------------------------------------------
TypeOK ==
  /\ valid \in BOOLEAN /\ caps \subseteq Capabilities
  /\ cap \in [Tool -> Leash \cup {"unlisted"}] /\ configured \in Configured
  /\ paused \in BOOLEAN /\ protectedCode \in BOOLEAN /\ netns \in BOOLEAN
  /\ quota \in 0..MaxQuota
  /\ held \in Decision \cup {None}
  /\ answer \in Execution \cup {None, Refused}

Executed == answer \notin {None, Refused}
Alone == Executed /\ ~answer.gated

(* Whatever path executes a tool, at once or long after it was held, the   *)
(* grant in force at that moment verifies, names the capability of this    *)
(* very destination, and does not cap the tool at notify_only; a stripped  *)
(* or altered grant executes nothing, however wide session.capabilities    *)
(* was made.                                                               *)
OnlyUnderTheGrantInForce ==
  Executed /\ Enforced =>
    /\ valid
    /\ Capability(answer.tool, answer.target) \in caps
    /\ cap[answer.tool] \in {"act", "propose"}

(* A shell runs without a human hand only where the code is protected and  *)
(* the operator signed for it, and reaches the network raw only where that *)
(* was signed too; an emission leaves without one only when the host asked *)
(* for this very emission and both signed signals, the per-host grant and  *)
(* the leash cap, agree.                                                   *)
AutonomyIsSigned ==
  Alone =>
    /\ answer.tool = "run_command" =>
         /\ Enforced /\ Contained \in caps /\ protectedCode
         /\ netns \/ RawNetwork \in caps
         /\ cap["run_command"] = "act"
    /\ answer.tool \in Emission =>
         /\ Enforced /\ AutoCap(answer.target) \in caps
         /\ answer.source = "host" /\ cap["net_post"] = "act"

(* What the Collaborator proposed of its own accord never runs a shell or  *)
(* leaves the machine without a human hand, and never, not even approved,  *)
(* touches a controlled location, the Collaborator's code or the operator's *)
(* secrets, however its arguments were changed while it was held.          *)
ProposerIsConfined ==
  Executed /\ answer.source = "proposed" =>
    /\ answer.tool \in Egress \cup {"run_command"} => answer.gated
    /\ ~OffLimits(answer.tool, answer.target)

(* What runs after an approval is what the human was shown, for every tool *)
(* whose effect no verifier compares with the request.                     *)
ApprovedIsExecuted ==
  Executed /\ answer.gated /\ answer.tool \in Sealed => answer.target = answer.seen
=============================================================================
