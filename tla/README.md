# A verification project for salient-os

TLA+ models of the Collaborator and of the salience plane it runs on, the TLC
configurations that check them on small instances, and theorems about them
that TLAPS proves for every value of the constants. Line numbers are those of
the source at the commit these modules were written from.

## 1. The system

`salienceos/` is a salience plane: subsystems publish signals on a bus, an
interpreter turns them into a *directive* under a signed policy, a verifier
judges executed actions from evidence, and a control seam joins the two.
`collaborator/` is an agent on top of it: a long-lived Host drives a model
client, a governance gate decides what the model may do alone and what waits
for the human, executors act in a workspace, in sandboxes and on the network,
and a localhost page shows all of it to the human.

### Components

| Component | State it keeps | Operations | Interacts with |
|---|---|---|---|
| **Host** `host.py` | task registry, job queue, pending proposal flag, busy flag, conversation, pause | `submit`, `pause`, `resume`, `approve`, `approve_proposal`, `decline`, `veto`, `stop`; worker thread; ticker thread | turn loop, propose channel, surface |
| **Turn loop** `loop.py`, parser `toolcall.py` | the turn in progress | `run_turn`, retries, `approve` (single use), `parse_message` | Host, governance, model client |
| **Governance** `governance.py` | none of its own; decisions | `govern_action`, `reauthorized_or_denied`, `execute_and_verify` | grant, session, tools, bus, verifier, provenance, quota |
| **Signed caps** `policycaps.py` | the grant | `mint`, `verify`, `granted_capabilities`, `apply_cap` | governance |
| **Propose channel** `propose.py`, `research.py` | proposals and their status | `propose`, `propose_researched`, `approve_proposal`, `veto_proposal` | Host, pool, veto ledger |
| **Pool, ledger, view** `proposalpool.py`, `vetoledger.py`, `view.py` | bounded pending and resolved proposals; decaying bars; two dials | `add`, `prune_resolved`, `record_veto`, `surfacing_bar_delta` | propose channel |
| **Emission quota** `session.py`, `emissionquotastore.py`, `durablestate.py` | counts per destination, their store | `emission_allowed`, `consume_emission`, load, save | governance, disk |
| **Autonomous provenance** `session.py`, `provenance.py`, `provenancestore.py` | the manifest of files an autonomous action authored, its store, the degraded flag | note, clear, mark incomplete, prune, load, save | governance, workspace, disk |
| **Salience bus** `interpreter/bus.py` | entries, head, JSONL file | `publish`, `emit`, replay, `verify_chain` | governance, interpreter |
| **Policy, interpreter** `interpreter/` | none (pure) | `issue_policy`, scorers, `interpret` | bus, control seam |
| **Verifier** `verifier/` | receipt and evidence stores | `observe_action`, `compose`, `verify` | control seam, governance |
| **Control seam** `control/govern.py` | none (pure) | `decide`, `govern` | interpreter, verifier, consumers |
| **Consumers** `consumers/` | nominations, retained memories | `nominate`, `retain`, `handoff` | control seam |
| **Tools** `tools.py`, containment `contained.py`, `maintain.py`, `netns.py` | cached probes | registry, seals, executors, wrapping a command, the guard in the child | governance, egress |
| **Egress client** `egress.py`, **observer** `egressobserver.py` | a cached vantage, the kernel's table | `fetch`, `post`, `fetch_to_file`; `begin`, `end`, `reconcile` | tools |
| **Surface** `surface.py` | bootstrap token, session, number of handlers, the page's own state | HTTP routes; the page's `poll`, `send`, `render` | Host |
| Recognisers `provenance.py`, `tools.py`, `codefence.py`, `sensitivepaths.py` | none | spellings of paths, text matching | governance |
| Memory, facts, ingestion | a store the program never reads back | context for a prompt | nothing in the program |

`PROJECT.json` says of each whether it is modelled, partly, or not, and why.
`red-team/` holds review scripts, no part of the program.

### What is hard here

* **Threads.** Callers decide under the Host's lock and put the job after they
  release it; the worker and the ticker run between the two. Handlers of the
  surface count pending tasks before they read a body, and submit after.
* **Long-lived decisions.** An action is judged, held for hours, shown to the
  human and judged again at approval, with the grant, the host's protections
  and the held arguments changed meanwhile. A proposal waits in a pool, a veto
  is remembered and fades.
* **Two steps that should be one.** A count, its save and the send; an effect
  on the workspace and its recording; an entry in memory and its line in the
  file; a staged artifact and its rename; an observation window and the request
  it brackets. The process may end, or a step fail, between them.
* **Durable state that does not verify.** Each store has its own answer:
  refuse (quota), degrade and say so (provenance), refuse to open (bus).
* **Claims about the world.** A verdict, a confirmation of an egress and a
  containment flag say that something happened outside the process, where
  executors lie, rivals of the same user connect, and probes go stale.
* **A model that answers anything.** Nothing, prose, calls cut off in the
  middle, batches with a malformed element.

The hazards, with the lines where they bite, are in `PROJECT.json`.

## 2. Modules and how they follow the code

State machines:

| Module | Models | One action is |
|---|---|---|
| `Host` | `host.py`, with the halves of `loop.py` and `propose.py` it drives | one critical section of the RLock, or one unlocked effect another thread can see; `putting` holds jobs decided on and not yet queued |
| `Approval`, `HostApproval` | what the human is promised about a held decision; the mapping from `Host` to it | hold, approve, refuse, spend, run, retire |
| `TurnLoop` | `run_turn`, `_complete_actionable`, the researched proposal pass | one completion with its retry decision, one governed intent, one feedback of an iteration |
| `Seam` | `govern_action`, `execute_and_verify`, `loop.approve`, `policycaps.py` | one call of `govern_action` or `approve`, or one change of the environment |
| `Proposals` | `propose`, pool, veto ledger | a pass of the proposer, a veto, an approval, a pruning, a move of the clock |
| `EmissionQuota` | the quota, its store, the dispatch point | check, count, save, send, each on its own |
| `Provenance` | the manifest, its store, where the seam fills, shows and clears it | an effect, its recording, an approval, a session's start or end |
| `SalienceBus` | `bus.py` | memory append, file write (whole, torn or failed), crash, open, damage |
| `SaliencePlane` | one governed action from published signals to learning: composes `Interpreter`, `Verifier`, `ControlSeam` as `governance.py` calls them | publish, arbitrate, authorize, execute, an attempt to verify, an observation that raises, its replay, learn |
| `Tools` | the executors with the observer's window, staging and the guard: composes `Egress` and `Containment` | one system call or packet another process can see |
| `Surface` | the server with its handlers, and the page's script | one step of a handler, one event of the page |

Operators, for the machines to use:

| Module | Models |
|---|---|
| `Interpreter` | signals, scorers, confidence-weighted aggregation (over integers in units, with the sums as folds), the signed policy, `interpret` |
| `Verifier` | workspaces with files and directories that cannot be read, contracts, claims, the reference observation over two snapshots, `compose`, the receipt store, the gates of `pipeline.verify` |
| `ControlSeam` | `decide`, `govern`, `nominate`, `retain`, `handoff` |
| `Egress` | canonical hosts and capabilities, the pinned address, `begin`, `end`, `reconcile` |
| `Containment` | `wrap` of the three sandboxes, the guards, the flags |
| `ToolCall` | which attempts of a message become calls, which are shown, which are left in the text |
| `Sifting` | the list comprehensions of `proposalpool.py` and the parser: what is left of a sequence |
| `Recognisers` | `norm_rel`, `references_autonomous_file`, `resolve_in_workspace`, `is_controlled_location` over spellings of paths |

`MC*` modules only name small constant values. `*Proofs` modules hold the
theorems: one for each machine, but `DurableProofs` for what survives the
process (`EmissionQuota`, `SalienceBus`) and `AnswerProofs` for what becomes of
an answer of the model (`TurnLoop`, `Proposals`). `SalienceBus` and `Proposals`
share those with another machine, hence their prefixes (`BusInit`, `PoolNext`).
A union written `UNION X` stands in parentheses wherever it is an operand: the
model checker and the prover read `UNION X \cup Y` differently.

Operators whose name ends in `_Word` (`Spent_Never`, ...) are the mistaken forms
of a definition that the mutants of `PROJECT.json` put in its place: each
property is shown to fail for one of them.

Data are abstracted to what the properties tell apart: a decision, a task, a
file or a payload is a model value; a command or destination is one of the
classes the gate distinguishes; a signature or MAC is one bit; a hash is what
it digests; a completion is the sequence of forms its attempts take. Idle
clocks and cooldowns are nondeterministic: they only add or remove chances to
act. The Host's rolling history window is assumed large enough that nothing is
trimmed. Each module's header says what else it leaves out.

## 3. Runs

| Run | Checks | Bounds |
|---|---|---|
| `host_tasks` | `TypeOK`; `SingleUse`: a held decision runs at most once; `NoRunWithoutApproval`; `OneTicketPerActiveTask`: no lost wake-up, no double run; `TerminalIsFinal`; under fairness `ActiveTaskSettles` and `StopEndsWorker` | 2 tasks, 1 decision, 2 jobs, pauses and a stop |
| `host_proposals` | `NoStackedProposals`; `HeldNotDropped`: partial denials and repeated approvals lose nothing; `ImplementsApproval` | 1 task, 2 decisions, 2 proposals (one inert), 2 jobs |
| `turn` | `NothingDropped`: beside what the parser leaves in the text, no attempt is lost between parse, retry and gate; `StoppedSaysWhy`; `JobEnds` under fairness | 120 messages: up to two attempts of every form, in every kind of content, beside structured calls; 2 iterations, 2 retries, research budget 3 |
| `seam_shell` | `AutonomyIsSigned`, `ProposerIsConfined`, `ApprovedIsExecuted` | shell and write, 2 commands and 3 paths |
| `seam_post` | `OnlyUnderTheGrantInForce`, `AutonomyIsSigned` | 2 destinations and an ineligible one, quota 2 |
| `quota_store` | `WithinSession`, `WithinBudget` (over sessions: the cap plus one emission per failed save), `BadStoreStays` | a host with cap 2 and one without, 5 emissions, 2 failed saves |
| `prov_store` | `DropsAreKnown`, `OnlyAHandClears`; before it, once, the assumption `SpellingsAgree` of the recognisers | 2 files; every spelling of at most 3 components |
| `bus` | `MemoryIsAChain`, `AcceptedFileIsPrefix`, `PublishedIsDurable`, `ResumesAHistory` | 2 valid payloads and an invalid one, 3 entries |
| `plane` | `VerifiedWasDone`: a verdict of VERIFIED is about a change really made and no other in sight; `ClearedAtItsStakes`: every floor at once; `LearnedFromTheWorld`; `InhibitorsAreIncidents` | 5 signals of which 2 are published, 5 policies (one with the risk cap at 1), 6 envelopes, 2 workspaces before and 8 after, among them files that cannot be read and a directory that cannot be listed, honest and lying receipts, 2 attempts |
| `proposals` | `WaitingIsKept`: what awaits the human stays in the pool; `NoIsHeard`: the decaying memory of vetoes | 4 proposals of 2 intents, pool of 2 and 1, clock 0 to 2 half-lives |
| `surface` | `PendingBounded`, `OneDoor`: the launch link is exchanged once and nothing else reaches the Host; `EchoEnds` under fairness and, of the other clients, `LeaveRoom` | 3 connections, 2 handlers, cap 1, a body of one part, 3 tasks |
| `tools` | `ConfirmedIsAll`: a confirmed egress reached what its record claims and nothing else; `StagedOrUntouched`; `ReportIsTrue`: containment flags | one destination, 3 addresses, one not public, 2 of them a rival's; artifacts of up to 3 chunks under a cap of 2 |

*Why the bounds are enough.* A second task, decision, proposal, file,
destination or connection is what it takes for one to interfere with another,
and no action looks at more than one beside its own. `host_tasks` gives up the
second decision for liveness; `MCHostDecisions.cfg` checks its safety and the
refinement with two, by hand. Three bus entries give a line a predecessor and
a successor. Cap 2 passes through 0, below, at and (in a mutant) over the cap.
In the seam one decision is held at a time: two held decisions share nothing
but the quota, which the requests in between already spend. Two attempts in
`plane` are what a replayed receipt needs. Two handlers for three connections
let a page's poll be refused, and cap 1 with two handlers reaches the bound
`MaxPending + MaxConnections - 1`. One chunk over the cap meets the refusal of
an oversized artifact. A pool of two pending fills with four proposals, and two
half-lives take a bar of two vetoes under what a confident proposal beats.
`ThreeParts` has every way up, down and across that two functions can disagree
on: a component, its parent, and one beyond.

*Deadlock* is not checked but in `turn`: a host with nothing submitted idles,
a stopped one stays stopped, a closed bus may stay closed, bounded counters
end, and an action governed to its end starts no other.

*Symmetry* is used for interchangeable tasks, decisions and files where every
property of the run is an invariant, an action property or the refinement of a
specification without fairness; never with liveness.

*Fairness.*
* `Host`: weak fairness of the worker thread, which the code starts and never
  leaves (`host.py:304-317`: every exception is caught, the model client's
  too), and of the put that follows each critical section. None of humans, of
  the ticker or of `resume`: a task that waits for approval may wait for ever,
  a queued one may not.
* `TurnLoop`: weak fairness of the turn's own next step. It takes a model
  client that returns or raises, which its timeout gives it; nobody has to
  start a job or resume a session.
* `Surface`: handlers run, timeouts fire, the browser delivers answers, and the
  page, which polls on a timer, is heard by a handler that stays free: all weak.
  A request over the limit is dropped, not queued (`surface.py:86-93`), so no
  poll is sure of a handler that only comes free again and again, and strong
  fairness would be more than the server gives. What the answer to a message
  needs of the other clients is a premise of the property instead:
  `LeaveRoom`, that from some time on they do not take the last free handler.
  Before that they may fill every handler. Strangers need send nothing, and none
  of their steps is fair. A body that drips restarts the timeout with every
  part, so a stranger holds a handler for as long as `BodyCap` parts take, not
  for one timeout.

## 4. Proofs

All theorems hold for any sets of tasks, decisions, proposals, tools, targets,
hosts, files, addresses, messages and workspaces, from the named assumptions of
the modules only.

* `HostProofs`, in four parts. `TypeCorrect` (types, with `JobFits`: at each
  program point of the worker its job is of the kind that point is for) and
  `RunsOnce`, from the invariant that what ran was consumed, and what is about
  to run is consumed and has not run.

  Then `OneTicket`. The invariant `TicketInv` says where a job of a task can be
  (about to be put, at one place of the queue, in the worker's hands), that it
  is in one of them only, and that it is somewhere exactly when the task is
  active. It is what makes `FinishedStays` (the worker writes only tasks it has
  the ticket of) and `ApprovedBeforeRun` provable: a stale or second job is how
  a decision would run out of turn.

  Then `HostKeepsItsPromise`: `Host` implements `Approval`. Beyond the tickets
  the mapping needs three facts, the rest of `PromiseInv`: a turn that has not
  begun leaves its task queued and holding nothing (`FreshInv`), only the task
  whose turn minted a decision holds it, and none between approvals of a
  running turn (`HeldInv`), nothing is approved, vetoed or consumed of a
  proposal that was never shown (`SurfacedInv`). Four lemmas then go through
  the callers, the turn, the approval of held decisions and the proposals, and
  name for each action the step of `Approval` it is, or that it is none.

  Last, from the same invariant, `HeldStays` for a host that is never paused
  (with pauses it is false, see section 5), and `OneProposalWaits`: from a tick
  to the end of its pass there is one `_ProposeJob`, nothing is proposed, and
  no second tick comes, first because of `_propose_pending`, then because the
  worker is busy (`StackInv`).
* `SurfaceProofs`: `PendingHolds` counts slots. Every slot is free or held by
  one connection (`SlotsInv`), and what is pending together with the
  submissions that passed the count and have not made their task stays under
  the limit (`LimitInv`). `DoorHolds`: past the headers there are no strangers.
* `AnswerProofs`, for the turn: `StopIsHonest`, from an invariant that follows
  what was held or paused through the iterations of a turn; what the parser
  makes of a message is not opened, so it holds for any parser. Then
  `NothingIsDropped`, which opens the parser: `ParserDropsNothing` says that
  every attempt of a message is among its calls, among what it shows, overruled
  by calls found before it, or left in the text in one of the three named ways
  (`LeftInText`: tool-shaped JSON in the middle of a text, a marker no JSON
  follows, what stands behind a fence that never closes), and `DropInv` carries
  that through the turn as what was tried in the completion at hand, and what of
  it still waits for the gate. The three ways are what the code does; that the
  documentation says otherwise of each is in section 5.

  For the proposals: `NothingWaitingIsLost`. Beside the property itself the
  invariant (`PoolInv`) says only that the pool lists proposals that surfaced,
  each once; the rest is counting (`AddFacts`): of the decided ones the overflow
  goes, of the undecided ones none, and one more is let in only while there is
  room. `ANoIsHeard` is an action property: `VetoInv` ties the ledger's bar to
  the number of noes and the date of the latest, and the rest is the arithmetic
  of a bar halved with every half-life against an epsilon.
* `DurableProofs`, for the quota: `QuotaTypeCorrect`; `BudgetHolds` from
  `BudgetInv`: memory and store each cover what was sent, up to failed saves
  (`MemoryCovers`, `StoreCovers`), counts stay within the limit, and an
  emission in flight still has budget; `SessionHolds`; `OnlyTheOperatorClears`,
  an action property: a session that found its store untrusted never comes to
  the save.

  For the bus: `BusTypeCorrect`, `ChainInMemory`, `NoSplicedFile`,
  `FileIsTheRecord` and `HistoryIsReal`, all from `BusInv`: the entries in
  memory are one chain ending at the head; every whole line of the file is one
  of them (`FileIsOurs`); without damage or a failed write the file lacks at most the
  line being written (`OnlyTheLineIsMissing`); every line and entry was
  published. The heart is that a chain is told by its last digest
  (`LastTellsAll`, `OursIsPrefix`): lines that pass the replay and are all ours
  are a beginning of what we hold. A digest is what it digests, so that is the
  hash's freedom from collisions, which the model takes for granted.
* `SeamProofs`: `SeamTypeCorrect`, and from one inductive fact about the last
  answer (`Safe`) `GrantInForce`, `AutonomyHolds`, `ProposerHolds`,
  `ApprovedHolds`. `ActsAlone` is the lemma they rest on: what must hold of a
  request whose leash is still "act" after every floor. It covers both an
  enforced grant and a session that never had one.
* `ProvenanceProofs`: `ProvenanceTypeCorrect`, `DropsStayKnown`, `HandsClear`.
  `DropsAreKnown` speaks of running sessions; `DropsInv` adds what holds
  between them (a drop is durable, or given up in a named way). With and
  without a store.
* `SaliencePlaneProofs`: `VerificationIsReal`. Each obligation of a contract is
  met by a world fact only (`MetByAWorldFact`), every world fact of an attempt
  is the reference observation or mirrors it (`MetWasObserved`), and those
  facts together say that the authorized change was made and no other that could
  be seen before and after (`AttemptVerifiesDone`). For any receipt, policy,
  workspace and executor, and any files and directories that cannot be read: a
  file unreadable both before and after, and what lies in a directory that could
  not be listed at either time, may have changed (`OutOfSight`), because
  `snapshot_tree` marks the first with a constant and passes by the second.

  Then what the verdict is used for: `ClearanceMeetsEveryFloor`,
  `LearningIsFromTheWorld`, `AnInhibitorIsAnIncident`. `DecidedInv` says that the
  directive is what the interpreter makes of the policy and the published
  signals, an outcome what the control seam makes of a verdict, what is learned
  what the consumers make of the outcome; `OutcomeFacts` collects what follows
  for an outcome bound to its directive. They need what an average over signals
  can be, for any set of signals: that it is at least a bound all of them keep,
  and over a cap only if one of them is. The sums are recursive functions over
  sets; `LeastNumber` (a predicate on numbers has a least one where it has any)
  gives the induction, `SumsExist` that each sum is the sum without one element
  plus that one, `SumsCompared` that larger terms give larger sums.
* `ToolsProofs`: `ConfirmationHolds` from `WindowInv` (a watched window starts
  on no old destinations and its table covers every packet sent in it);
  `ReportHolds` from `ReportInv`, which ties what is waiting to start to what
  the guard checks; `PublishingHolds` from `StageInv`.

*Assumptions.* The proofs use the named assumptions of the modules, which TLC
evaluates on each run. Those that say something of the program: a policy that
verifies has whole numbers for its levels and a truth value for its switch
(`PoliciesAssumption`, what `verify_policy` checks); a message is one of
`MessageType`, so an object is one attempt and silence holds none
(`TurnLoopAssumption`); half of a veto's weight is a whole number and `Never` is
no record (`ProposalsAssumption`: the unit of the weights is fine enough).

*What a proof attempt found.* `LearnedFromTheWorld` used to say that the risk of
what is nominated was asserted by some signal. That is false under a policy
whose cap is the whole scale: an unknown risk counts as 1.0
(`interpreter.py:112`, "unknown risk (absent) => 1.0 => blocked"), and 1.0 is not
over a cap of 1.0 (119). `test_max_risk_one_with_absent_risk_stays_eligible`
wants it so, and a comment says otherwise. The property names the exception now,
and `plane` has a policy that meets it.

*Only model-checked.* Liveness (`ActiveTaskSettles`, `StopEndsWorker`,
`EchoEnds`, `JobEnds`) is outside the prover's reach. Every other property the
runs check is a theorem. The type invariants of `Surface` and `Proposals` are
not theorems as they stand; what the proofs need of the types is part of
`ServerInv`, `PoolShape` and `VetoInv`.

## 5. Where the code and its documentation part

What follows holds of the models and was met while writing them; no run of the
project states the opposite of it. Each has a configuration, or a property to
put in one in place of its own, and is to be run by hand: TLC then shows the
behaviour.

| Configuration, property | Statement of the repository | What happens |
|---|---|---|
| `MCHostHalted` | halted tasks are re-queued by `resume` (`host.py:237`) | a halted task becomes paused only when the worker absorbs the turn (459): a `resume` in between finds nothing and the task stays paused in an active session |
| `MCHostDropped` | a paused task holds no decision (`host.py:386`) | `run_turn` looks for a PAUSED decision before a HELD one (`loop.py:327-331`): a pause between two actions of an iteration forgets the held one |
| `MCHostRewind` | a held turn is kept aside so that approving it later cannot "rewind the thread" (`host.py:166-171`) | a resumed task replaces it by the copy it started from |
| `MCHostRetry` | decisions that could not run "stay retryable" (`host.py:360-362`) | one that ran and FAILED, or was refused after its claim, is kept as held although consumed |
| `MCHostVeto` | "a vetoed one never runs" (`propose.py:238`) | a veto after the claim returns True and the decision still runs |
| `MCProvSilent` | what an autonomous action leaves is recorded or the tracking degraded (`governance.py:870`, 920-924) | an action that times out, or whose verification raises after the write, returns before (846-853, 911-917) |
| `MCToolsTruncated` | a truncated artifact can never masquerade as complete (`egress.py:426-428`, `tools.py:618-620`) | a connection that closes early looks like the end of the stream (`egress.py:480-496`: `read(n)` of a body with a Content-Length returns what came); the partial file is published as ok |
| `MCProvStore`, `StaleNeverTrusted` | a stale record is "never later trusted as complete" (`session.py:287-288`) | a failed save degrades only its own session |
| `MCProvStore` with `HasStore = FALSE`, `ClearedWasShown` | clearing is "a conscious accept of those EXACT bytes" (`governance.py:871-872`) | what is cleared is computed at the run, not from the preview |
| `MCProvStore`, `EveryWriteIsKeyed` in its assumption | all spellings "land in ONE comparable form" (`provenance.py:33-36`) | an autonomous write spelled absolutely is keyed with the workspace's own path, one over the parent (`../ws/x`) not at all: a relative command finds neither. A relative file `ws/a` is also taken for an absolute `/ws/a` |
| `MCQuotaStore` (one host, cap 1, one failed save), `RestartKeepsBudget` | "a restart cannot RESET the quota" (`session.py:176-177`) | a failed save is known only to its session |
| `MCBus` (two entries), `VerifyChainSeesDamage` | `verify_chain()` detects damage of the durable record (`bus.py:18`) | it recomputes the entries in memory |
| `MCSaliencePlane`, `NothingElseChanged` | an unreadable file yields a marker "rather than aborting the whole snapshot (which would fail-open the write-set observation)" (`observers.py:78-82`) | the marker is a constant: a file that is unreadable before and after, or lies in a directory that cannot be listed, changes under a VERIFIED verdict |
| `MCSurface`, `EchoEndsRegardless` | the surface "NEVER goes permanently dark" (`surface.py:86-93`) | clients that open a connection whenever one ends keep every handler, and every poll is dropped, not queued: what is temporary is up to them (the docstring puts such a client outside its threat model) |
| `MCSurface`, `EchoWhileSending` | the echo is cleared "once the real task has landed" (`surface.py:757`) | Enter sends while an answer is out (818-820): the first message's task, or its failure, ends the echo of the second, and a failed answer puts its text over what stands in the box |
| `MCTurnLoop`, `FinalIsWhole` | a still-truncated completion is never a finished turn (`_complete_actionable`) | one that is cut after the last retry, with prose only, ends the turn as "final" |
| `MCTurnLoop`, `AsideIsShown` | "a tool-shaped JSON sitting mid-sentence ... is returned as ambiguous for the loop to surface" (`toolcall.py:12-14`) | the parser looks for markers and at the content as a whole (180-233); JSON in the middle of a sentence is neither run nor shown. A final answer shows it with its text; in a turn that goes on to other calls it stays in the history only |
| `MCTurnLoop`, `MarkerIsShown` | a marked call is "never silently dropped" (`toolcall.py:59-66`) | a marker with no `{` or `[` within 40 characters is passed by (67-80) |
| `MCTurnLoop`, `CutFenceIsShown` | a call that was cut is shown (`toolcall.py`) | behind a fence that never closes it is taken for prose |

Not properties, but noted:

* A proposal whose decision was claimed and then refused by
  `execute_and_verify` stays PROPOSED, and the next approval marks it APPROVED
  without running it (`propose.py:244-252`). A pool that is full only hides a
  proposal from the pool; it surfaces all the same.
* `session.now_days` is set at construction and never advanced, so in a live
  session vetoes do not decay.
* The reference observers give one mode per obligation, so an envelope of high
  stakes is never VERIFIED by `observe_action` alone. A rewrite of the same
  content, or making a directory that exists, FAILS conclusively; deleting a
  file verifies when it was replaced by a link; a write whose path is spelled
  `./x` fails verification although its bytes land.
* `wrap_maintenance` promises a fall back to the network namespace that
  `tools.py:492-497` does not make when bwrap vanished after the probe: the
  command runs unisolated, and is reported so. When `unshare` itself fails, the
  flag says isolated though nothing ran.
* An error at the close of the artifact's file yields a record without its
  address, and no route yields a claim the kernel never saw: both make the
  strong observer report a discrepancy that is none. Its table's elements time
  out after ten minutes, which a longer window would miss; the model has none.
* `parse_message` says structured calls take precedence; `<tool_call>` blocks
  beside them run too, only a content that is JSON as a whole is overruled. A
  turn that stops empty says no action was taken even when earlier iterations
  ran some. `run_research` raises on `{"read": "text"}`. An exception in the
  middle of a turn loses that turn's decisions from the ledger.
* The network guard reads its namespace with `stat ... || echo x`
  (`netns.py:119`): where `stat` fails, `x` differs from the parent's number and
  the guard passes. `Containment` takes `/proc` to be mounted and `stat` to be
  there, as the probe before it did.
* A subject in a directory that can be listed by no one and not searched either
  makes `rehash` and `path_state` raise under Python 3.11 to 3.13, and reads as
  "absent" under 3.14; the model lets it do either. A directory that can be
  listed but not searched is not modelled.
* `seam_shell` has the target `code` and not `sensitive`, which the seam treats
  in the same way. `ProposerIsConfined` is about what the proposer originated; a
  `run_command` the human approved may name such a path.
* The Host proposes without research (`_handle_propose`), so research, memory,
  facts and ingestion are wired to nothing in the running program.

## 6. Plan

Done, in this order: Host with `Approval`; EmissionQuota; SalienceBus; Seam;
Provenance; the salience plane (Interpreter, Verifier, ControlSeam, composed in
SaliencePlane); Proposals; Surface; the executors (Egress and Containment,
composed in Tools); the turn (ToolCall, TurnLoop); Recognisers.

Still worth having, as theorems: the two type invariants that are not; the
statements about the operators that several machines use (`Recognisers` against
its reference over all spellings, `Egress.Reconcile`); `Approval`'s own promises,
so that the Host inherits them through the refinement; a direct proof that the
seam's dispatch and the quota agree on the count.

## 7. Not modelled

* Kernel isolation, the transport under `http.client` and the model itself:
  the models take any outcome they may have.
* `red-team/`: review scripts that drive the program from outside.
* Matching of substrings: whether a command names code (`codefence.py`) or
  secrets (`sensitivepaths.py`) is a class of target in `Seam`; the scanning of
  a completion for fences and braces is represented by the forms it finds.
* Rendering, logging, prompts, previews and the judgment view's projection:
  they change no state another component reads back.
* Memory, facts and ingestion: no caller in the program wires them in.
* Two live sessions over one store, which overwrite each other's saves: the
  provenance store documents this as unsupported and the quota store says
  nothing, so sessions follow one another in the models.
* Floating-point rounding: weights, risks and confidences are integers in
  units, decay is in whole half-lives.
