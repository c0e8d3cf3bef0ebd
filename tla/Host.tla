-------------------------------- MODULE Host --------------------------------
(***************************************************************************)
(* The Host of the Collaborator (collaborator/host.py, class Collaborator) *)
(* with the two halves it drives: loop.run_turn / loop.approve and         *)
(* propose.propose / approve_proposal / veto_proposal.                     *)
(*                                                                         *)
(* Three kinds of thread share the state: the callers (HTTP handlers that  *)
(* call submit, pause, resume, approve, ...), one worker that runs every   *)
(* job, and the ticker that enqueues idle-time proposals.  One action is   *)
(* one critical section of the Host's RLock, or one unlocked effect that   *)
(* another thread can observe.  A caller that leaves its critical section  *)
(* and only then calls self._jobs.put is modelled by "putting": the jobs   *)
(* decided on but not yet in the queue.                                    *)
(*                                                                         *)
(* Abstracted: texts, tool arguments and time.  A decision is an           *)
(* identifier; a conversation is the set of tasks whose messages it holds  *)
(* (the rolling window is assumed large enough); what the governance gate  *)
(* answers, the idle clock, the cooldown and the proactivity dial are      *)
(* nondeterministic.                                                       *)
(***************************************************************************)
EXTENDS Naturals, Sequences, FiniteSets

CONSTANTS
  Task,      \* task ids a run may submit
  Action,    \* held (propose_first) decisions a turn may mint
  Proposal,  \* proposals the propose channel may surface
  Inert,     \* the proposals whose decision is NOTIFIED: approve() never runs them
  Outcome,   \* what running an approved decision may return: see Outcomes
  MaxJobs,   \* bound: approve_proposal is not called with this many jobs queued
  CanPause,  \* may the host pause the session?
  CanStop,   \* may the host be stopped?
  NoId       \* the id of a job about no task and no proposal

Outcomes == {"ran", "failed", "refused"}

ASSUME HostAssumption ==
  /\ Inert \subseteq Proposal
  /\ Outcome \subseteq Outcomes /\ Outcome # {}
  /\ MaxJobs \in Nat
  /\ CanPause \in BOOLEAN /\ CanStop \in BOOLEAN
  /\ NoId \notin Task \cup Proposal
  /\ Task \cap Proposal = {} /\ Action \cap Proposal = {}

VARIABLES
  \* --- session and registry, guarded by the lock ---
  paused,       \* session.paused (read without the lock by a turn)
  state,        \* task.state
  held,         \* task.held
  approvedRan,  \* task.approved_ran
  thread,       \* task.history
  proposal,     \* proposal.status, as the Host's index and the ledger see it
  pending,      \* _propose_pending
  busy,         \* _worker_busy
  \* --- the queue ---
  putting,      \* jobs a thread has decided on but not yet put
  jobs,         \* _jobs
  stopping,     \* _stopping
  \* --- the worker ---
  pc,           \* where the worker is
  job,          \* the job it took
  todo,         \* held decisions still to be approved, or proposals to be indexed
  ran,          \* those of the job that came back RAN
  hist,         \* the history the running turn builds
  turn,         \* HELD decisions of the turn, and whether a PAUSED one came up
  conversation, \* _history, confined to the worker
  \* --- decisions ---
  owner,        \* the task whose turn minted a decision, NoId before
  consumed,     \* decisions with consumed = True
  runs,         \* how many times a decision was executed
  \* --- history variables ---
  granted,      \* decisions the human approved, through approve or approve_proposal
  vetoed        \* proposals for which veto() returned True

tasks    == <<state, held, approvedRan, thread>>
queue    == <<putting, jobs, stopping>>
worker   == <<pc, job, todo, ran, hist, turn>>
deciding == <<owner, consumed, runs>>
history  == <<granted, vetoed>>
vars == <<paused, tasks, proposal, pending, busy, queue, worker, conversation,
          deciding, history>>

Active   == {"queued", "running"}
Terminal == {"done", "failed", "cancelled"}
TaskState == {"absent", "awaiting_approval", "paused"} \cup Active \cup Terminal

ProposalStatus == {"absent", "proposed", "approved", "vetoed"}

TurnJob(t)    == [kind |-> "turn", id |-> t]
ResumeJob(t)  == [kind |-> "resume", id |-> t]
ApproveJob(p) == [kind |-> "approve", id |-> p]
ProposeJob    == [kind |-> "propose", id |-> NoId]
Stop          == [kind |-> "stop", id |-> NoId]

Job == [kind : {"turn", "resume"}, id : Task]
         \cup [kind : {"approve"}, id : Proposal]
         \cup [kind : {"propose", "stop"}, id : {NoId}]

PC == {"idle", "taken", "dispatch", "turn", "absorb", "approving", "await",
       "note", "check", "gate", "execute", "mark", "record", "proposing",
       "index", "release", "stopped"}

TurnType == [held : SUBSET Action, paused : BOOLEAN,
             stop : {"none", "final", "empty", "max_iterations", "held", "paused"}]

NoTurn == [held |-> {}, paused |-> FALSE, stop |-> "none"]

-----------------------------------------------------------------------------
Init ==
  /\ paused = FALSE
  /\ state = [t \in Task |-> "absent"]
  /\ held = [t \in Task |-> {}]
  /\ approvedRan = [t \in Task |-> {}]
  /\ thread = [t \in Task |-> {}]
  /\ proposal = [p \in Proposal |-> "absent"]
  /\ pending = FALSE
  /\ busy = FALSE
  /\ putting = {}
  /\ jobs = << >>
  /\ stopping = FALSE
  /\ pc = "idle"
  /\ job = Stop
  /\ todo = {}
  /\ ran = {}
  /\ hist = {}
  /\ turn = NoTurn
  /\ conversation = {}
  /\ owner = [a \in Action |-> NoId]
  /\ consumed = {}
  /\ runs = [d \in Action \cup Proposal |-> 0]
  /\ granted = {}
  /\ vetoed = {}

-----------------------------------------------------------------------------
(* The callers: each is one critical section, then a put outside the lock. *)

Submit(t) ==
  /\ state[t] = "absent"
  /\ state' = [state EXCEPT ![t] = "queued"]
  /\ putting' = putting \cup {TurnJob(t)}
  /\ UNCHANGED <<paused, held, approvedRan, thread, proposal, pending, busy,
                 jobs, stopping, worker, conversation, deciding, history>>

Pause ==
  /\ CanPause
  /\ paused' = TRUE
  /\ UNCHANGED <<tasks, proposal, pending, busy, queue, worker, conversation,
                 deciding, history>>

Resumable_Held == {t \in Task : state[t] \in {"paused", "awaiting_approval"}}

Resumable == {t \in Task : state[t] = "paused"}

ResumeJobs_None == {}

ResumeJobs == {ResumeJob(t) : t \in Resumable}

Resume ==
  /\ paused' = FALSE
  /\ state' = [t \in Task |-> IF t \in Resumable THEN "queued" ELSE state[t]]
  /\ putting' = putting \cup ResumeJobs
  /\ UNCHANGED <<held, approvedRan, thread, proposal, pending, busy, jobs,
                 stopping, worker, conversation, deciding, history>>

\* veto_proposal flips the status and retires the decision underneath it
Veto(p) ==
  /\ proposal[p] = "proposed"
  /\ proposal' = [proposal EXCEPT ![p] = "vetoed"]
  /\ consumed' = consumed \cup {p}
  /\ vetoed' = vetoed \cup {p}
  /\ UNCHANGED <<paused, tasks, pending, busy, queue, worker, conversation,
                 owner, runs, granted>>

MayDecline_Active(t) == state[t] \in {"awaiting_approval", "running"}

MayDecline(t) == state[t] = "awaiting_approval"

Decline(t) ==
  /\ MayDecline(t)
  /\ state' = [state EXCEPT ![t] = "cancelled"]
  /\ UNCHANGED <<paused, held, approvedRan, thread, proposal, pending, busy,
                 queue, worker, conversation, deciding, history>>

MayApprove_Running(t) == state[t] \in {"awaiting_approval", "running"}

MayApprove(t) == state[t] = "awaiting_approval"

Approve(t) ==
  /\ MayApprove(t)
  /\ state' = [state EXCEPT ![t] = "running"]
  /\ putting' = putting \cup {ResumeJob(t)}
  /\ granted' = granted \cup held[t]
  /\ UNCHANGED <<paused, held, approvedRan, thread, proposal, pending, busy,
                 jobs, stopping, worker, conversation, deciding, vetoed>>

ApproveProposal(p) ==
  /\ proposal[p] = "proposed"
  /\ Len(jobs) < MaxJobs
  /\ putting' = putting \cup {ApproveJob(p)}
  /\ granted' = granted \cup {p}
  /\ UNCHANGED <<paused, tasks, proposal, pending, busy, jobs, stopping,
                 worker, conversation, deciding, vetoed>>

StopSentinel_None == {}

StopSentinel == {Stop}

StopHost ==
  /\ CanStop /\ ~stopping
  /\ stopping' = TRUE
  /\ putting' = putting \cup StopSentinel
  /\ UNCHANGED <<paused, tasks, proposal, pending, busy, jobs, worker,
                 conversation, deciding, history>>

Put(j) ==
  /\ j \in putting
  /\ putting' = putting \ {j}
  /\ jobs' = Append(jobs, j)
  /\ UNCHANGED <<paused, tasks, proposal, pending, busy, stopping, worker,
                 conversation, deciding, history>>

Caller ==
  \/ \E t \in Task : Submit(t) \/ Decline(t) \/ Approve(t)
  \/ Pause \/ Resume \/ StopHost
  \/ \E p \in Proposal : Veto(p) \/ ApproveProposal(p)

-----------------------------------------------------------------------------
(* The ticker. *)

ShouldPropose_Busy ==
  /\ jobs = << >> /\ ~pending
  /\ \A t \in Task : state[t] \notin Active
  /\ \A p \in Proposal : proposal[p] # "proposed"

ShouldPropose ==
  /\ ~busy /\ jobs = << >>
  /\ \A t \in Task : state[t] \notin Active
  /\ ~pending
  /\ \A p \in Proposal : proposal[p] # "proposed"

Tick ==
  /\ ShouldPropose
  /\ pending' = TRUE
  /\ putting' = putting \cup {ProposeJob}
  /\ UNCHANGED <<paused, tasks, proposal, busy, jobs, stopping, worker,
                 conversation, deciding, history>>

-----------------------------------------------------------------------------
(* The worker: taking and releasing a job. *)

TakeJob ==
  /\ pc = "idle" /\ jobs # << >>
  /\ job' = Head(jobs)
  /\ jobs' = Tail(jobs)
  /\ pc' = IF job'.kind = "stop" THEN "stopped" ELSE "taken"
  /\ UNCHANGED <<paused, tasks, proposal, pending, busy, putting, stopping,
                 todo, ran, hist, turn, conversation, deciding, history>>

MarkBusy ==
  /\ pc = "taken"
  /\ busy' = TRUE
  /\ pc' = "dispatch"
  /\ UNCHANGED <<paused, tasks, proposal, pending, queue, job, todo, ran, hist,
                 turn, conversation, deciding, history>>

Release ==
  /\ pc = "release"
  /\ busy' = FALSE
  /\ pc' = "idle"
  /\ job' = Stop /\ todo' = {} /\ ran' = {} /\ hist' = {} /\ turn' = NoTurn
  /\ UNCHANGED <<paused, tasks, proposal, pending, queue, conversation, deciding,
                 history>>

-----------------------------------------------------------------------------
(* The worker: a turn, from run_turn's call to _absorb_result. *)

\* run_turn on a copy of h, to which it appends the task's message
StartTurn(h) ==
  /\ hist' = h \cup {job.id}
  /\ turn' = NoTurn

HandleTurn ==
  /\ pc = "dispatch" /\ job.kind = "turn"
  /\ state' = [state EXCEPT ![job.id] = "running"]
  /\ StartTurn(conversation)
  /\ pc' = "turn"
  /\ UNCHANGED <<paused, held, approvedRan, thread, proposal, pending, busy,
                 queue, job, todo, ran, conversation, deciding, history>>

\* govern_action holds a propose_first action, unless the session is paused now
GovernHeld(a) ==
  /\ pc = "turn" /\ ~paused
  /\ owner[a] = NoId
  /\ owner' = [owner EXCEPT ![a] = job.id]
  /\ turn' = [turn EXCEPT !.held = @ \cup {a}]
  /\ UNCHANGED <<paused, tasks, proposal, pending, busy, queue, pc, job, todo,
                 ran, hist, conversation, consumed, runs, history>>

GovernPaused ==
  /\ pc = "turn" /\ paused
  /\ turn' = [turn EXCEPT !.paused = TRUE]
  /\ UNCHANGED <<paused, tasks, proposal, pending, busy, queue, pc, job, todo,
                 ran, hist, conversation, deciding, history>>

\* the iteration ends: a PAUSED decision is looked for before a HELD one
TurnReturns ==
  /\ pc = "turn"
  /\ \E stop \in {"final", "empty", "max_iterations", "held", "paused"} :
       /\ stop = "paused" <=> turn.paused
       /\ stop = "held" <=> ~turn.paused /\ turn.held # {}
       /\ turn' = [turn EXCEPT !.stop = stop]
  /\ pc' = "absorb"
  /\ UNCHANGED <<paused, tasks, proposal, pending, busy, queue, job, todo, ran,
                 hist, conversation, deciding, history>>

StateAfter_Raw(stop) == stop

\* what _absorb_result makes of the reason a turn stopped
StateAfter(stop) ==
  CASE stop = "final"  -> "done"
    [] stop = "held"   -> "awaiting_approval"
    [] stop = "paused" -> "paused"
    [] OTHER           -> "failed"

HeldAfter_Any(stop) == turn.held

HeldAfter(stop) == IF stop = "held" THEN turn.held ELSE held[job.id]

AbsorbResult ==
  /\ pc = "absorb"
  /\ thread' = [thread EXCEPT ![job.id] = hist]
  /\ conversation' = IF turn.stop \in {"held", "paused"} THEN conversation ELSE hist
  /\ held' = [held EXCEPT ![job.id] = HeldAfter(turn.stop)]
  /\ state' = [state EXCEPT ![job.id] = StateAfter(turn.stop)]
  /\ pc' = "release"
  /\ UNCHANGED <<paused, approvedRan, proposal, pending, busy, queue, job, todo,
                 ran, hist, turn, deciding, history>>

\* the model client raised inside run_turn: _fail_active, no history absorbed
FailActive ==
  /\ pc = "turn"
  /\ state' = [state EXCEPT ![job.id] = "failed"]
  /\ pc' = "release"
  /\ UNCHANGED <<paused, held, approvedRan, thread, proposal, pending, busy,
                 queue, job, todo, ran, hist, turn, conversation, deciding,
                 history>>

-----------------------------------------------------------------------------
(* The worker: a resume, after approve(task) or after a pause. *)

HandleResume ==
  /\ pc = "dispatch" /\ job.kind = "resume"
  /\ IF state[job.id] \in Active
     THEN /\ state' = [state EXCEPT ![job.id] = "running"]
          /\ todo' = held[job.id]
          /\ IF held[job.id] = {}
             THEN StartTurn(thread[job.id]) /\ pc' = "turn"
             ELSE UNCHANGED <<hist, turn>> /\ pc' = "approving"
     ELSE pc' = "release" /\ UNCHANGED <<state, todo, hist, turn>>
  /\ UNCHANGED <<paused, held, approvedRan, thread, proposal, pending, busy,
                 queue, job, ran, conversation, deciding, history>>

Spent_Never(d) == FALSE

\* the single-use flag, as approve() reads it
Spent(d) == d \in consumed

\* loop.approve of one held decision.  A consumed one comes back as it is; a
\* re-gate that denies leaves it unconsumed; otherwise it is consumed, then run,
\* and only a RAN outcome takes it off the task's held list.
ApproveHeld(a) ==
  /\ pc = "approving" /\ a \in todo
  /\ todo' = todo \ {a}
  /\ \/ UNCHANGED <<ran, consumed, runs>>
     \/ /\ ~Spent(a)
        /\ consumed' = consumed \cup {a}
        /\ \E out \in Outcome :
             /\ runs' = IF out = "refused" THEN runs ELSE [runs EXCEPT ![a] = @ + 1]
             /\ ran' = IF out = "ran" THEN ran \cup {a} ELSE ran
  /\ UNCHANGED <<paused, tasks, proposal, pending, busy, queue, pc, job, hist,
                 turn, conversation, owner, history>>

Remaining_None == {}

\* the decisions that did not come back RAN stay held
Remaining == held[job.id] \ ran

RecordApprovals ==
  /\ pc = "approving" /\ todo = {}
  /\ approvedRan' = [approvedRan EXCEPT ![job.id] = @ \cup ran]
  /\ held' = [held EXCEPT ![job.id] = Remaining]
  /\ pc' = IF Remaining = {} THEN "note" ELSE "await"
  /\ UNCHANGED <<paused, state, thread, proposal, pending, busy, queue, job,
                 todo, ran, hist, turn, conversation, deciding, history>>

AwaitAgain ==
  /\ pc = "await"
  /\ state' = [state EXCEPT ![job.id] = "awaiting_approval"]
  /\ pc' = "release"
  /\ UNCHANGED <<paused, held, approvedRan, thread, proposal, pending, busy,
                 queue, job, todo, ran, hist, turn, conversation, deciding,
                 history>>

ResumeWithNote ==
  /\ pc = "note"
  /\ approvedRan' = [approvedRan EXCEPT ![job.id] = {}]
  /\ StartTurn(thread[job.id])
  /\ pc' = "turn"
  /\ UNCHANGED <<paused, state, held, thread, proposal, pending, busy, queue,
                 job, todo, ran, conversation, deciding, history>>

-----------------------------------------------------------------------------
(* The worker: approving a proposal.  Between the first check and the last *)
(* assignment the lock is free, so veto() may come in at every step.       *)

HandleApproveProposal ==
  /\ pc = "dispatch" /\ job.kind = "approve"
  /\ pc' = IF proposal[job.id] = "proposed" THEN "check" ELSE "release"
  /\ UNCHANGED <<paused, tasks, proposal, pending, busy, queue, job, todo, ran,
                 hist, turn, conversation, deciding, history>>

\* approve_proposal's own look at the status
CheckStatus ==
  /\ pc = "check"
  /\ pc' = IF proposal[job.id] = "proposed" THEN "gate" ELSE "record"
  /\ UNCHANGED <<paused, tasks, proposal, pending, busy, queue, job, todo, ran,
                 hist, turn, conversation, deciding, history>>

\* loop.approve up to its claim: an inert or consumed decision comes back as it
\* is (and is not DENIED), a re-gate may deny, otherwise the decision is claimed
GateProposal ==
  /\ pc = "gate"
  /\ \/ /\ job.id \in Inert \/ Spent(job.id)
        /\ pc' = "mark"
        /\ UNCHANGED consumed
     \/ /\ job.id \notin Inert /\ ~Spent(job.id)
        /\ pc' = "record"
        /\ UNCHANGED consumed
     \/ /\ job.id \notin Inert /\ ~Spent(job.id)
        /\ pc' = "execute"
        /\ consumed' = consumed \cup {job.id}
  /\ UNCHANGED <<paused, tasks, proposal, pending, busy, queue, job, todo, ran,
                 hist, turn, conversation, owner, runs, history>>

ExecuteProposal ==
  /\ pc = "execute"
  /\ \E out \in Outcome :
       /\ runs' = IF out = "refused" THEN runs ELSE [runs EXCEPT ![job.id] = @ + 1]
       /\ pc' \in IF out = "refused" THEN {"record", "mark"} ELSE {"mark"}
  /\ UNCHANGED <<paused, tasks, proposal, pending, busy, queue, job, todo, ran,
                 hist, turn, conversation, owner, consumed, history>>

MarkApproved ==
  /\ pc = "mark"
  /\ proposal' = [proposal EXCEPT ![job.id] = "approved"]
  /\ pc' = "record"
  /\ UNCHANGED <<paused, tasks, pending, busy, queue, job, todo, ran, hist, turn,
                 conversation, deciding, history>>

RecordApproval ==
  /\ pc = "record"
  /\ pc' = "release"
  /\ UNCHANGED <<paused, tasks, proposal, pending, busy, queue, job, todo, ran,
                 hist, turn, conversation, deciding, history>>

-----------------------------------------------------------------------------
(* The worker: one pass of the propose channel. *)

HandlePropose ==
  /\ pc = "dispatch" /\ job.kind = "propose"
  /\ pending' = FALSE
  /\ pc' = "proposing"
  /\ UNCHANGED <<paused, tasks, proposal, busy, queue, job, todo, ran, hist,
                 turn, conversation, deciding, history>>

\* propose() returns no proposal or one new one, governed while not paused ...
Propose ==
  /\ pc = "proposing"
  /\ \/ UNCHANGED todo
     \/ /\ ~paused
        /\ \E p \in Proposal : proposal[p] = "absent" /\ todo' = {p}
  /\ pc' = "index"
  /\ UNCHANGED <<paused, tasks, proposal, pending, busy, queue, job, ran, hist,
                 turn, conversation, deciding, history>>

\* ... and the Host records and indexes it
RecordProposals ==
  /\ pc = "index"
  /\ proposal' = [p \in Proposal |-> IF p \in todo THEN "proposed" ELSE proposal[p]]
  /\ pc' = "release"
  /\ UNCHANGED <<paused, tasks, pending, busy, queue, job, todo, ran, hist,
                 turn, conversation, deciding, history>>

-----------------------------------------------------------------------------
Worker ==
  \/ TakeJob \/ MarkBusy \/ Release
  \/ HandleTurn \/ GovernPaused \/ TurnReturns \/ AbsorbResult \/ FailActive
  \/ \E a \in Action : GovernHeld(a) \/ ApproveHeld(a)
  \/ HandleResume \/ RecordApprovals \/ AwaitAgain \/ ResumeWithNote
  \/ HandleApproveProposal \/ CheckStatus \/ GateProposal \/ ExecuteProposal
  \/ MarkApproved \/ RecordApproval
  \/ HandlePropose \/ Propose \/ RecordProposals

Next == Caller \/ Tick \/ Worker \/ \E j \in Job : Put(j)

Spec == Init /\ [][Next]_vars

(***************************************************************************)
(* Fairness: the worker thread keeps running, and a thread that left its   *)
(* critical section reaches its put.  Nothing obliges a human, or the      *)
(* ticker's timer, to act.                                                 *)
(***************************************************************************)
Fairness == WF_vars(Worker) /\ \A j \in Job : WF_vars(Put(j))

FairSpec == Spec /\ Fairness

-----------------------------------------------------------------------------
(* Properties. *)

JobsOf(t) == {TurnJob(t), ResumeJob(t)}

\* the worker holds a job of task t whose outcome it has not yet written
WorkingOn(t) == job \in JobsOf(t) /\ pc \notin {"idle", "release", "stopped"}

\* the places where a job of task t waits or is being run
Tickets(t) ==
  {<<"putting", j.kind>> : j \in putting \cap JobsOf(t)}
    \cup {<<"jobs", i>> : i \in {k \in DOMAIN jobs : jobs[k] \in JobsOf(t)}}
    \cup (IF WorkingOn(t) THEN {<<"worker", 0>>} ELSE {})

TypeOK ==
  /\ paused \in BOOLEAN /\ pending \in BOOLEAN /\ busy \in BOOLEAN /\ stopping \in BOOLEAN
  /\ state \in [Task -> TaskState]
  /\ held \in [Task -> SUBSET Action] /\ approvedRan \in [Task -> SUBSET Action]
  /\ thread \in [Task -> SUBSET Task] /\ conversation \subseteq Task
  /\ proposal \in [Proposal -> ProposalStatus]
  /\ putting \subseteq Job /\ jobs \in Seq(Job)
  /\ pc \in PC /\ job \in Job
  /\ todo \subseteq Action \cup Proposal /\ ran \subseteq Action /\ hist \subseteq Task
  /\ turn \in TurnType
  /\ owner \in [Action -> Task \cup {NoId}]
  /\ consumed \subseteq Action \cup Proposal /\ runs \in [Action \cup Proposal -> Nat]
  /\ granted \subseteq Action \cup Proposal /\ vetoed \subseteq Proposal

(* A held decision, of a task or of a proposal, is executed at most once,  *)
(* through whatever sequence of approvals, denials, failures and vetoes    *)
(* reaches it (loop.approve, the single-use flag).                         *)
SingleUse == \A d \in Action \cup Proposal : runs[d] <= 1

(* Nothing that was held for the human is executed unless the human called *)
(* approve on the task while it held that very decision, or approved the   *)
(* proposal: no resume after a pause, stale job or second turn may run it. *)
NoRunWithoutApproval == \A d \in Action \cup Proposal : runs[d] > 0 => d \in granted

(* A task has exactly one job somewhere (about to be put, in the queue or  *)
(* in the worker's hands) when it is queued or running, and none           *)
(* otherwise: no wake-up is lost and no task is run twice.                 *)
OneTicketPerActiveTask ==
  \A t \in Task : IF state[t] \in Active THEN Cardinality(Tickets(t)) = 1
                                         ELSE Tickets(t) = {}

(* At most one proposal waits for the human at a time (the ticker's        *)
(* "don't stack proposals"), however ticks, jobs and approvals interleave. *)
NoStackedProposals == Cardinality({p \in Proposal : proposal[p] = "proposed"}) <= 1

(* A held decision that was neither consumed nor lost with a finished task *)
(* stays on its task's held list: a partial denial, a second approval or a *)
(* resume never drops it.  Only for a host that is never paused: see       *)
(* PausedTaskHoldsNothing.                                                 *)
HeldNotDropped ==
  \A a \in Action :
    \/ owner[a] = NoId \/ a \in consumed
    \/ state[owner[a]] \in Terminal
    \/ a \in held[owner[a]]
    \/ WorkingOn(owner[a]) /\ a \in turn.held

(* A finished, failed or declined task stays so: a late approve, resume or *)
(* worker step never brings it back.                                       *)
TerminalIsFinal ==
  [][\A t \in Task : state[t] \in Terminal => state'[t] = state[t]]_vars

(* A task that is queued or running comes to rest (it finishes, fails, or  *)
(* waits for the human), unless the host is stopped first: the worker      *)
(* never runs what is queued behind the stop sentinel.                     *)
ActiveTaskSettles ==
  \A t \in Task : state[t] \in Active ~> state[t] \notin Active \/ stopping

(* stop() ends the worker, whatever was queued before it.                  *)
StopEndsWorker == stopping ~> pc = "stopped"

-----------------------------------------------------------------------------
(* What comments, docstrings and tests of the repository say, and the code *)
(* does not do: each is refuted by a configuration of its own.             *)

(* host.py:237 "re-queue any task the pause halted so it continues": a     *)
(* task found paused while the session is active gets to continue, unless  *)
(* the session is paused again.                                            *)
HaltedTaskContinues ==
  \A t \in Task : state[t] = "paused" /\ ~paused ~> state[t] # "paused" \/ paused

(* host.py:360-362: the decisions an approval round keeps as held were not *)
(* consumed, "so they stay retryable".                                     *)
HeldStaysRetryable ==
  \A t \in Task : state[t] = "awaiting_approval" => held[t] \cap consumed = {}

(* host.py:386: a task the host paused mid-turn has "no held decisions to  *)
(* approve".                                                               *)
PausedTaskHoldsNothing ==
  \A t \in Task : state[t] = "paused" => \A a \in Action : owner[a] = t => a \in consumed

(* host.py:166-171: the conversation advances only on a terminal turn, so  *)
(* that a later approve() does not rewind it.                              *)
ConversationNeverRewinds == [][conversation \subseteq conversation']_vars

(* propose.py:238 "a vetoed one never runs": once veto() has returned True *)
(* the proposal is not executed any more.                                  *)
VetoedNeverRuns ==
  [][\A p \in vetoed : runs'[p] = runs[p]]_vars

=============================================================================
