------------------------------- MODULE Proposals -------------------------------
(***************************************************************************)
(* What happens to a proposal between the proposer's answer and the        *)
(* human's: the surfacing bar (propose.py), the decaying memory of vetoes  *)
(* (vetoledger.py), the pool of undecided proposals (proposalpool.py) and  *)
(* the judgment view (view.py).  The threads that race here are Host's     *)
(* subject; this module takes a pass, an approval and a veto as one step.  *)
(*                                                                         *)
(* Abstracted: an intent is what normalize_intent keeps of a tool call;    *)
(* confidences and bars are counted in 1/One; the clock counts half-lives  *)
(* of the veto, so a bar that has decayed for n of them is bar / 2^n and   *)
(* is compared without rounding.  Proposals are numbered as they surface.  *)
(* The dial, the pause and the grant are the host's to change between any  *)
(* two steps, so a step takes them as it finds them.                       *)
(***************************************************************************)
EXTENDS Integers, Sequences, SequencesExt, Sifting

CONSTANTS
  Intent,        \* normalized intents
  Emission,      \* those that would send data out (egress and mutating)
  Unreadable,    \* answers that are no candidate: malformed, or too long
  Confidence,    \* the self-ratings a proposer may give, in 1/One
  One,
  BarDelta,      \* what one veto adds to the bar; half of it is a whole number too
  Epsilon,       \* a delta under it is forgotten
  MaxPending, MaxResolved,
  MaxProposals,  \* bound: proposals surfaced
  MaxClock,      \* bound: the host's clock, in half-lives
  Never

ASSUME ProposalsAssumption ==
  /\ Emission \cup Unreadable \subseteq Intent
  /\ One \in Nat /\ BarDelta \in Nat /\ Epsilon \in Nat /\ Confidence \subseteq 0..One
  /\ BarDelta % 2 = 0
  /\ MaxPending \in Nat \ {0} /\ MaxResolved \in Nat
  /\ Never \notin [at : Nat, bar : Nat]

VARIABLES
  clock,      \* session.now_days
  veto,       \* VetoLedger._records
  proposals,  \* the proposals surfaced so far, as the judgment ledger lists them
  pool,       \* ProposalPool._items, by insertion
  crowd,      \* of each proposal, how many undecided ones the pool held when it surfaced
  surfaced,   \* the latest to surface: its intent, the dial, its confidence above the dial's
  noes        \* of each intent, how often and when last the human said no

poolVars == <<clock, veto, proposals, pool, crowd, surfaced, noes>>

Dial == {"off", "conservative", "eager"}
Governed == {"held", "notified", "denied", "paused"}
ProposalStatus == {"proposed", "approved", "vetoed"}

PoolTypeOK ==
  /\ clock \in 0..MaxClock
  /\ \A i \in Intent : veto[i] = Never \/ veto[i].bar \in 0..One
  /\ \A p \in DOMAIN proposals : proposals[p].status \in ProposalStatus
  /\ ToSet(pool) \subseteq DOMAIN proposals /\ IsInjective(pool)

PoolInit ==
  /\ clock = 0
  /\ veto = [i \in Intent |-> Never]
  /\ proposals = <<>> /\ pool = <<>> /\ crowd = <<>>
  /\ surfaced = Never
  /\ noes = [i \in Intent |-> [count |-> 0, at |-> 0]]

-----------------------------------------------------------------------------
(* The surfacing bar *)

Threshold(dial) == IF dial = "eager" THEN (2 * One) \div 5 ELSE (4 * One) \div 5

\* half-lives passed since a veto; a clock that lags sees none
Age(record) == IF clock > record.at THEN clock - record.at ELSE 0

Forgotten(record) == record.bar < Epsilon * 2^Age(record)

Clears(i, confidence, dial) ==
  LET inhibited == veto[i] # Never /\ ~Forgotten(veto[i])
  IN  IF inhibited THEN (confidence - Threshold(dial)) * 2^Age(veto[i]) >= veto[i].bar
      ELSE confidence >= Threshold(dial)

\* the model may never author an emission
Candidate(i) == i \notin Unreadable \cup Emission

-----------------------------------------------------------------------------
(* The pool *)

Undecided(p) == proposals[p].status = "proposed"
Pending == Kept(pool, {p \in DOMAIN proposals : Undecided(p)})

Resolved(items) == Kept(items, {p \in DOMAIN proposals : ~Undecided(p)})

\* the oldest resolved proposals beyond the audit tail
Overflow(items) ==
  LET resolved == Resolved(items) IN
  ToSet(SubSeq(resolved, 1, Len(resolved) - MaxResolved))

Evicted_Oldest(items) ==
  SubSeq(items, 1 + (IF Len(items) > MaxPending + MaxResolved THEN 1 ELSE 0), Len(items))
Evicted(items) == Kept(items, ToSet(items) \ Overflow(items))

\* a new proposal is refused when the pool is full of undecided ones
Add(p) == IF Len(Pending) >= MaxPending THEN pool ELSE Evicted(Append(pool, p))

Prune ==
  /\ pool' = Pending
  /\ UNCHANGED <<clock, veto, proposals, crowd, surfaced, noes>>

-----------------------------------------------------------------------------
(* A pass of the proposer, and the human's answer *)

ProposeIntent(i, confidence, dial, answer) ==
  /\ Len(proposals) < MaxProposals
  /\ dial # "off" /\ Candidate(i) /\ Clears(i, confidence, dial)
  /\ answer \in {"held", "notified"}
  /\ LET p == Len(proposals) + 1 IN
     /\ proposals' = Append(proposals, [intent |-> i, decision |-> answer, status |-> "proposed",
                                        consumed |-> FALSE])
     /\ pool' = Add(p)
     /\ crowd' = Append(crowd, Len(Pending))
     /\ surfaced' = [intent |-> i, dial |-> dial, margin |-> confidence - Threshold(dial)]
  /\ UNCHANGED <<clock, veto, noes>>

\* approve() does not run what is inert or spent, and refuses what is no longer
\* granted; a run may still be denied after the decision was claimed
Runnable(p) == proposals[p].decision = "held" /\ ~proposals[p].consumed

ApproveProposal(p, granted, deniedLate) ==
  /\ Undecided(p)
  /\ Runnable(p) => granted
  /\ proposals' = [proposals EXCEPT ![p].consumed = @ \/ Runnable(p),
                                    ![p].status = IF Runnable(p) /\ deniedLate THEN @ ELSE "approved"]
  /\ UNCHANGED <<clock, veto, pool, crowd, surfaced, noes>>

\* a repeated no starts the decay again and weighs half a veto more
Bar(record) ==
  IF record = Never THEN BarDelta
  ELSE IF 2 * record.bar + BarDelta > 2 * One THEN One ELSE record.bar + BarDelta \div 2

RecordVeto_KeepsDate(i) ==
  [veto EXCEPT ![i] = [at |-> IF @ = Never THEN clock ELSE @.at, bar |-> Bar(@)]]
RecordVeto(i) ==
  [veto EXCEPT ![i] = [at |-> clock, bar |-> Bar(@)]]

\* the Host asks that the proposal is undecided
VetoProposal(p) ==
  /\ Undecided(p)
  /\ proposals' = [proposals EXCEPT ![p].status = "vetoed", ![p].consumed = TRUE]
  /\ veto' = RecordVeto(proposals[p].intent)
  /\ noes' = [noes EXCEPT ![proposals[p].intent] = [count |-> @.count + 1, at |-> clock]]
  /\ UNCHANGED <<clock, pool, crowd, surfaced>>

-----------------------------------------------------------------------------
(* The clock *)

\* the host injects the clock; nothing keeps it from lagging
SetClock(t) ==
  /\ clock' = t
  /\ UNCHANGED <<veto, proposals, pool, crowd, surfaced, noes>>

PoolNext ==
  \/ \E i \in Intent, confidence \in Confidence, dial \in Dial, answer \in Governed :
       ProposeIntent(i, confidence, dial, answer)
  \/ \E p \in DOMAIN proposals : VetoProposal(p) \/ \E granted, late \in BOOLEAN : ApproveProposal(p, granted, late)
  \/ Prune
  \/ \E t \in 0..MaxClock : SetClock(t)

PoolSpec == PoolInit /\ [][PoolNext]_poolVars

-----------------------------------------------------------------------------

\* A proposal that still awaits the human is in the pool, unless the pool was
\* full of undecided proposals when it surfaced; nothing evicts it before it is
\* decided, and the pool stays within its two bounds however many are resolved
\* at once (ProposalPool.add, _evict_resolved_overflow, prune_resolved).
WaitingIsKept ==
  /\ \A p \in DOMAIN proposals : Undecided(p) => p \in ToSet(pool) \/ crowd[p] >= MaxPending
  /\ Len(Pending) <= MaxPending
  /\ Len(pool) <= MaxPending + MaxResolved

\* What the human vetoed n times surfaces again only at a confidence that beats
\* the dial by the n vetoes' bar, one whole and the others half, halved for every
\* half-life since the latest no, until that is forgotten; and nothing surfaces
\* under the dial at all (propose, VetoLedger.surfacing_bar_delta).
NoIsHeard ==
  [][Len(proposals') > Len(proposals) =>
       LET no    == noes[surfaced'.intent]
           half  == BarDelta * (no.count + 1)
           twice == IF half > 2 * One THEN 2 * One ELSE half
           age   == Age(no)
       IN  /\ surfaced'.dial # "off" /\ surfaced'.intent \notin Emission /\ surfaced'.margin >= 0
           /\ no.count > 0 /\ twice >= 2 * Epsilon * 2^age => 2 * surfaced'.margin * 2^age >= twice]_poolVars
=============================================================================
