----------------------------- MODULE HostProofs -----------------------------
(***************************************************************************)
(* Theorems about the Host, for every set of tasks, decisions and          *)
(* proposals and every interleaving.                                       *)
(***************************************************************************)
EXTENDS HostApproval, FiniteSetTheorems, TLAPS

-----------------------------------------------------------------------------
(* Types, with the kind of job each of the worker's program points is for. *)

JobFits ==
  /\ pc \in {"turn", "absorb"} => job.kind \in {"turn", "resume"}
  /\ pc \in {"approving", "await", "note"} => job.kind = "resume"
  /\ pc \in {"check", "gate", "execute", "mark", "record"} => job.kind = "approve"
  /\ pc \in {"proposing", "index"} => job.kind = "propose"

USE DEF Job, TurnJob, ResumeJob, ApproveJob, ProposeJob, Stop

LEMMA JobType ==
  ASSUME NEW j \in Job
  PROVE  /\ j.kind \in {"turn", "resume", "approve", "propose", "stop"}
         /\ j.kind \in {"turn", "resume"} => j.id \in Task
         /\ j.kind = "approve" => j.id \in Proposal
         /\ j.kind \in {"propose", "stop"} => j.id = NoId
  OBVIOUS

LEMMA EmptyTurn == NoTurn \in TurnType
  BY DEF NoTurn, TurnType

(* The variables keep their types.                                         *)
THEOREM TypeCorrect == Spec => [](TypeOK /\ JobFits)
<1> USE HostAssumption
<1>1. Init => TypeOK /\ JobFits
  <2> SUFFICES ASSUME Init PROVE TypeOK /\ JobFits
    OBVIOUS
  <2>1. JobFits BY DEF Init, JobFits
  <2>2. /\ state \in [Task -> TaskState] /\ proposal \in [Proposal -> ProposalStatus]
        /\ held \in [Task -> SUBSET Action] /\ approvedRan \in [Task -> SUBSET Action]
        /\ thread \in [Task -> SUBSET Task]
    BY DEF Init, TaskState, ProposalStatus
  <2>3. /\ owner \in [Action -> Task \cup {NoId}]
        /\ runs \in [Action \cup Proposal -> Nat]
    BY DEF Init
  <2>4. /\ pc \in PC /\ job \in Job /\ putting \subseteq Job /\ jobs \in Seq(Job)
    BY DEF Init, PC
  <2>5. turn \in TurnType
    BY EmptyTurn DEF Init
  <2> QED BY <2>1, <2>2, <2>3, <2>4, <2>5 DEF Init, TypeOK
<1>2. TypeOK /\ JobFits /\ [Next]_vars => TypeOK' /\ JobFits'
  <2> SUFFICES ASSUME TypeOK, JobFits, [Next]_vars
               PROVE  TypeOK' /\ JobFits'
    OBVIOUS
  <2> USE DEF tasks, queue, worker, deciding, history
  <2>1. ASSUME NEW t \in Task, Submit(t) PROVE TypeOK' /\ JobFits'
    BY <2>1 DEF Submit, TypeOK, JobFits, TaskState, Active
  <2>2. ASSUME NEW t \in Task, Decline(t) PROVE TypeOK' /\ JobFits'
    BY <2>2 DEF Decline, TypeOK, JobFits, TaskState, Terminal
  <2>3. ASSUME NEW t \in Task, Approve(t) PROVE TypeOK' /\ JobFits'
    BY <2>3 DEF Approve, TypeOK, JobFits, TaskState, Active
  <2>4. CASE Pause BY <2>4 DEF Pause, TypeOK, JobFits
  <2>5. CASE Resume
    <3>1. state' \in [Task -> TaskState] BY <2>5 DEF Resume, TypeOK, TaskState, Active
    <3>2. putting' \subseteq Job BY <2>5 DEF Resume, ResumeJobs, Resumable, TypeOK
    <3> QED BY <2>5, <3>1, <3>2 DEF Resume, TypeOK, JobFits
  <2>6. CASE StopHost BY <2>6 DEF StopHost, StopSentinel, TypeOK, JobFits
  <2>7. ASSUME NEW p \in Proposal, Veto(p) PROVE TypeOK' /\ JobFits'
    BY <2>7 DEF Veto, TypeOK, JobFits, ProposalStatus
  <2>8. ASSUME NEW p \in Proposal, ApproveProposal(p) PROVE TypeOK' /\ JobFits'
    BY <2>8 DEF ApproveProposal, TypeOK, JobFits
  <2>9. CASE Tick BY <2>9 DEF Tick, TypeOK, JobFits
  <2>10. ASSUME NEW j \in Job, Put(j) PROVE TypeOK' /\ JobFits'
    BY <2>10 DEF Put, TypeOK, JobFits
  <2>11. CASE TakeJob BY <2>11 DEF TakeJob, TypeOK, JobFits, PC
  <2>12. CASE MarkBusy BY <2>12 DEF MarkBusy, TypeOK, JobFits, PC
  <2>13. CASE Release BY <2>13, EmptyTurn DEF Release, TypeOK, JobFits, PC
  <2>14. CASE HandleTurn
    BY <2>14, JobType, EmptyTurn DEF HandleTurn, StartTurn, TypeOK, JobFits, PC, TaskState, Active
  <2>15. CASE GovernPaused BY <2>15 DEF GovernPaused, TypeOK, TurnType, JobFits
  <2>16. CASE TurnReturns
    <3>1. turn' \in TurnType
      <4>1. PICK stop \in {"final", "empty", "max_iterations", "held", "paused"} :
              turn' = [turn EXCEPT !.stop = stop]
        BY <2>16 DEF TurnReturns
      <4> QED BY <4>1 DEF TypeOK, TurnType
    <3> QED BY <2>16, <3>1 DEF TurnReturns, TypeOK, JobFits, PC
  <2>17. CASE AbsorbResult
    BY <2>17 DEF AbsorbResult, HeldAfter, StateAfter, TypeOK, TurnType, JobFits, PC, TaskState, Terminal
  <2>18. CASE FailActive BY <2>18 DEF FailActive, TypeOK, JobFits, PC, TaskState, Terminal
  <2>19. ASSUME NEW a \in Action, GovernHeld(a) PROVE TypeOK' /\ JobFits'
    BY <2>19, JobType DEF GovernHeld, TypeOK, TurnType, JobFits
  <2>20. ASSUME NEW a \in Action, ApproveHeld(a) PROVE TypeOK' /\ JobFits'
    <3>1. todo' \subseteq Action \cup Proposal BY <2>20 DEF ApproveHeld, TypeOK
    <3>2. consumed' \subseteq Action \cup Proposal BY <2>20 DEF ApproveHeld, TypeOK
    <3>3. ran' \subseteq Action BY <2>20 DEF ApproveHeld, TypeOK
    <3>4. runs' \in [Action \cup Proposal -> Nat]
      <4>1. runs' = runs \/ runs' = [runs EXCEPT ![a] = @ + 1]
        BY <2>20 DEF ApproveHeld
      <4>2. runs \in [Action \cup Proposal -> Nat] BY DEF TypeOK
      <4>3. \A d \in Action \cup Proposal : runs[d] + 1 \in Nat BY <4>2
      <4> QED BY <4>1, <4>2, <4>3
    <3> QED BY <2>20, <3>1, <3>2, <3>3, <3>4 DEF ApproveHeld, TypeOK, JobFits
  <2>21. CASE HandleResume
    <3>1. job.id \in Task BY <2>21, JobType DEF HandleResume, TypeOK
    <3>2. CASE state[job.id] \notin Active
      BY <2>21, <3>2 DEF HandleResume, TypeOK, JobFits, PC
    <3>3. CASE state[job.id] \in Active
      <4>1. state' = [state EXCEPT ![job.id] = "running"]
        BY <2>21, <3>3 DEF HandleResume
      <4>2. /\ todo' \subseteq Action \cup Proposal /\ hist' \subseteq Task
            /\ turn' = turn \/ turn' = NoTurn
            /\ pc' \in {"turn", "approving"}
        BY <2>21, <3>1, <3>3 DEF HandleResume, StartTurn, TypeOK
      <4>3. state' \in [Task -> TaskState] BY <4>1 DEF TypeOK, TaskState, Active
      <4>4. JobFits' BY <2>21, <4>2 DEF HandleResume, JobFits
      <4>5. pc' \in PC BY <4>2 DEF PC
      <4>6. turn' \in TurnType BY <4>2, EmptyTurn DEF TypeOK
      <4> QED BY <2>21, <4>2, <4>3, <4>4, <4>5, <4>6 DEF HandleResume, TypeOK
    <3> QED BY <3>2, <3>3
  <2>22. CASE RecordApprovals
    BY <2>22, JobType DEF RecordApprovals, Remaining, TypeOK, JobFits, PC
  <2>23. CASE AwaitAgain BY <2>23 DEF AwaitAgain, TypeOK, JobFits, PC, TaskState
  <2>24. CASE ResumeWithNote
    BY <2>24, JobType, EmptyTurn DEF ResumeWithNote, StartTurn, TypeOK, JobFits, PC
  <2>25. CASE HandleApproveProposal BY <2>25 DEF HandleApproveProposal, TypeOK, JobFits, PC
  <2>26. CASE CheckStatus BY <2>26 DEF CheckStatus, TypeOK, JobFits, PC
  <2>27. CASE GateProposal BY <2>27, JobType DEF GateProposal, TypeOK, JobFits, PC
  <2>28. CASE ExecuteProposal BY <2>28 DEF ExecuteProposal, TypeOK, JobFits, PC
  <2>29. CASE MarkApproved BY <2>29 DEF MarkApproved, TypeOK, JobFits, PC, ProposalStatus
  <2>30. CASE RecordApproval BY <2>30 DEF RecordApproval, TypeOK, JobFits, PC
  <2>31. CASE HandlePropose BY <2>31 DEF HandlePropose, TypeOK, JobFits, PC
  <2>32. CASE Propose BY <2>32 DEF Propose, TypeOK, JobFits, PC
  <2>33. CASE RecordProposals BY <2>33 DEF RecordProposals, TypeOK, JobFits, PC, ProposalStatus
  <2>34. CASE UNCHANGED vars BY <2>34 DEF vars, TypeOK, JobFits
  <2> QED
    BY <2>1, <2>2, <2>3, <2>4, <2>5, <2>6, <2>7, <2>8, <2>9, <2>10, <2>11, <2>12,
       <2>13, <2>14, <2>15, <2>16, <2>17, <2>18, <2>19, <2>20, <2>21, <2>22, <2>23,
       <2>24, <2>25, <2>26, <2>27, <2>28, <2>29, <2>30, <2>31, <2>32, <2>33, <2>34
    DEF Next, Caller, Worker
<1> QED BY <1>1, <1>2, PTL DEF Spec

-----------------------------------------------------------------------------
(* Single use.  An unconsumed decision has not run, and between the claim  *)
(* of a proposal's decision and its execution it has not run either.       *)

SingleUseInv ==
  /\ SingleUse
  /\ \A d \in Action \cup Proposal : d \notin consumed => runs[d] = 0
  /\ pc = "execute" => job.id \in consumed /\ runs[job.id] = 0

\* a step that runs nothing, un-consumes nothing and claims nothing
LEMMA RunsNothing ==
  ASSUME SingleUseInv, runs' = runs, consumed \subseteq consumed',
         pc' = "execute" => pc = "execute" /\ job' = job
  PROVE  SingleUseInv'
  BY DEF SingleUseInv, SingleUse

LEMMA SingleUseInvariant == Spec => []SingleUseInv
<1> USE DEF tasks, queue, worker, deciding, history
<1>1. Init => SingleUseInv
  BY DEF Init, SingleUseInv, SingleUse
<1>2. TypeOK /\ JobFits /\ SingleUseInv /\ [Next]_vars => SingleUseInv'
  <2> SUFFICES ASSUME TypeOK, JobFits, SingleUseInv, [Next]_vars
               PROVE  SingleUseInv'
    OBVIOUS
  <2>1. ASSUME NEW a \in Action, ApproveHeld(a) PROVE SingleUseInv'
    <3>1. CASE runs' = runs
      BY <2>1, <3>1, RunsNothing DEF ApproveHeld
    <3>2. CASE runs' # runs
      <4>1. /\ a \notin consumed /\ consumed' = consumed \cup {a}
            /\ runs' = [runs EXCEPT ![a] = @ + 1]
            /\ pc' # "execute"
        BY <2>1, <3>2 DEF ApproveHeld, Spent
      <4>2. runs \in [Action \cup Proposal -> Nat] BY DEF TypeOK
      <4>3. runs[a] = 0 BY <4>1 DEF SingleUseInv
      <4>4. runs'[a] = 1 /\ \A d \in Action \cup Proposal : d # a => runs'[d] = runs[d]
        BY <4>1, <4>2, <4>3
      <4> QED BY <4>1, <4>4 DEF SingleUseInv, SingleUse
    <3> QED BY <3>1, <3>2
  <2>2. CASE GateProposal
    <3>1. job.id \in Proposal BY <2>2, JobType DEF GateProposal, JobFits, TypeOK
    <3>2. CASE pc' # "execute" BY <2>2, <3>2, RunsNothing DEF GateProposal
    <3>3. CASE pc' = "execute"
      <4>1. job.id \notin consumed /\ consumed' = consumed \cup {job.id}
            /\ runs' = runs /\ job' = job
        BY <2>2, <3>3 DEF GateProposal, Spent
      <4> QED BY <3>1, <4>1 DEF SingleUseInv, SingleUse
    <3> QED BY <3>2, <3>3
  <2>3. CASE ExecuteProposal
    <3>1. CASE runs' = runs BY <2>3, <3>1, RunsNothing DEF ExecuteProposal
    <3>2. CASE runs' # runs
      <4>1. /\ runs' = [runs EXCEPT ![job.id] = @ + 1]
            /\ consumed' = consumed /\ pc' # "execute"
            /\ job.id \in consumed /\ runs[job.id] = 0
        BY <2>3, <3>2 DEF ExecuteProposal, SingleUseInv
      <4>2. runs \in [Action \cup Proposal -> Nat] BY DEF TypeOK
      <4>3. \A d \in Action \cup Proposal :
              runs'[d] = IF d = job.id THEN 1 ELSE runs[d]
        BY <4>1, <4>2
      <4> QED BY <4>1, <4>3 DEF SingleUseInv, SingleUse
    <3> QED BY <3>1, <3>2
  <2>4. CASE Caller
    BY <2>4, RunsNothing
    DEF Caller, Submit, Decline, Approve, Pause, Resume, StopHost, Veto, ApproveProposal
  <2>5. CASE Tick \/ \E j \in Job : Put(j)
    BY <2>5, RunsNothing DEF Tick, Put
  <2>6. CASE TakeJob \/ MarkBusy \/ Release
    BY <2>6, RunsNothing DEF TakeJob, MarkBusy, Release
  <2>7. CASE HandleTurn \/ GovernPaused \/ TurnReturns \/ AbsorbResult \/ FailActive
    BY <2>7, RunsNothing DEF HandleTurn, GovernPaused, TurnReturns, AbsorbResult, FailActive
  <2>8. CASE \E a \in Action : GovernHeld(a)
    BY <2>8, RunsNothing DEF GovernHeld
  <2>9. CASE HandleResume \/ RecordApprovals \/ AwaitAgain \/ ResumeWithNote
    BY <2>9, RunsNothing DEF HandleResume, RecordApprovals, AwaitAgain, ResumeWithNote
  <2>10. CASE HandleApproveProposal \/ CheckStatus \/ MarkApproved \/ RecordApproval
    BY <2>10, RunsNothing DEF HandleApproveProposal, CheckStatus, MarkApproved, RecordApproval
  <2>11. CASE HandlePropose \/ Propose \/ RecordProposals
    BY <2>11, RunsNothing DEF HandlePropose, Propose, RecordProposals
  <2>12. CASE UNCHANGED vars BY <2>12, RunsNothing DEF vars
  <2> QED
    BY <2>1, <2>2, <2>3, <2>4, <2>5, <2>6, <2>7, <2>8, <2>9, <2>10, <2>11, <2>12
    DEF Next, Worker
<1> QED BY <1>1, <1>2, TypeCorrect, PTL DEF Spec

(* A held decision is executed at most once.                               *)
THEOREM RunsOnce == Spec => []SingleUse
<1>1. SingleUseInv => SingleUse
  BY DEF SingleUseInv
<1> QED BY <1>1, SingleUseInvariant, PTL

-----------------------------------------------------------------------------
(* A task is queued or running exactly when one job of it is on its way:   *)
(* the argument on which the approval gate of the Host rests, since it is  *)
(* a stale or second job that would run held decisions out of turn.        *)

\* where a job of a task can be, and that it is in one place at a time

Putting(t) == \E j \in putting : j \in JobsOf(t)

QueuedAt(t, i) == i \in 1..Len(jobs) /\ jobs[i] \in JobsOf(t)

Queued(t) == \E i \in 1..Len(jobs) : jobs[i] \in JobsOf(t)

Located(t) == Putting(t) \/ Queued(t) \/ WorkingOn(t)

OnePlace(t) ==
  /\ ~(TurnJob(t) \in putting /\ ResumeJob(t) \in putting)
  /\ Putting(t) => ~Queued(t) /\ ~WorkingOn(t)
  /\ Queued(t) => ~WorkingOn(t)
  /\ \A i, k \in 1..Len(jobs) : QueuedAt(t, i) /\ QueuedAt(t, k) => i = k

TicketInv ==
  \A t \in Task : (state[t] \in Active <=> Located(t)) /\ OnePlace(t)

\* a step that leaves every job of every task where it was
LEMMA NothingMoves ==
  ASSUME TicketInv,
         \A t \in Task : state'[t] \in Active <=> state[t] \in Active,
         \A t \in Task : \A j \in JobsOf(t) : j \in putting' <=> j \in putting,
         jobs' = jobs,
         \A t \in Task : WorkingOn(t)' <=> WorkingOn(t)
  PROVE  TicketInv'
<1> SUFFICES ASSUME NEW t \in Task
             PROVE  (state'[t] \in Active <=> Located(t)') /\ OnePlace(t)'
  BY DEF TicketInv
<1>1. TurnJob(t) \in JobsOf(t) /\ ResumeJob(t) \in JobsOf(t) BY DEF JobsOf
<1>2. Putting(t)' <=> Putting(t) BY DEF Putting
<1>3. /\ TurnJob(t) \in putting' <=> TurnJob(t) \in putting
      /\ ResumeJob(t) \in putting' <=> ResumeJob(t) \in putting
  BY <1>1
<1>4. /\ Queued(t)' <=> Queued(t)
      /\ \A i : QueuedAt(t, i)' <=> QueuedAt(t, i)
  BY DEF Queued, QueuedAt
<1> QED BY <1>2, <1>3, <1>4 DEF TicketInv, Located, OnePlace

\* a caller decides on the job of a task that had none
LEMMA JobDecided ==
  ASSUME TicketInv, NEW S \in SUBSET Task,
         \A t \in S :
           /\ state[t] \notin Active
           /\ \E g \in JobsOf(t) :
                \A j \in JobsOf(t) : j \in putting' <=> j \in putting \/ j = g,
         \A t \in Task \ S : \A j \in JobsOf(t) : j \in putting' <=> j \in putting,
         \A t \in Task : state'[t] \in Active <=> t \in S \/ state[t] \in Active,
         jobs' = jobs, pc' = pc, job' = job
  PROVE  TicketInv'
<1> SUFFICES ASSUME NEW t \in Task
             PROVE  (state'[t] \in Active <=> Located(t)') /\ OnePlace(t)'
  BY DEF TicketInv
<1>1. /\ Queued(t)' <=> Queued(t)
      /\ WorkingOn(t)' <=> WorkingOn(t)
      /\ \A i : QueuedAt(t, i)' <=> QueuedAt(t, i)
  BY DEF Queued, QueuedAt, WorkingOn
<1>2. CASE t \in S
  <2>1. ~Putting(t) /\ ~Queued(t) /\ ~WorkingOn(t) BY <1>2 DEF TicketInv, Located
  <2>2. PICK g \in JobsOf(t) : \A j \in JobsOf(t) : j \in putting' <=> j = g
    BY <1>2, <2>1 DEF Putting
  <2>3. TurnJob(t) # ResumeJob(t) OBVIOUS
  <2>4. Putting(t)' BY <2>2 DEF Putting
  <2>5. ~(TurnJob(t) \in putting' /\ ResumeJob(t) \in putting')
    BY <2>2, <2>3 DEF JobsOf
  <2>6. \A i : ~QueuedAt(t, i) BY <2>1 DEF Queued, QueuedAt
  <2> QED BY <1>1, <1>2, <2>1, <2>4, <2>5, <2>6 DEF Located, OnePlace
<1>3. CASE t \notin S
  <2>1. \A j \in JobsOf(t) : j \in putting' <=> j \in putting
    BY <1>3
  <2>2. Putting(t)' <=> Putting(t) BY <2>1 DEF Putting
  <2>3. /\ TurnJob(t) \in putting' <=> TurnJob(t) \in putting
        /\ ResumeJob(t) \in putting' <=> ResumeJob(t) \in putting
    BY <2>1 DEF JobsOf
  <2> QED BY <1>1, <1>3, <2>2, <2>3 DEF TicketInv, Located, OnePlace
<1> QED BY <1>2, <1>3

LEMMA AppendAt ==
  ASSUME NEW s \in Seq(Job), NEW j \in Job
  PROVE  /\ Len(Append(s, j)) = Len(s) + 1
         /\ \A i \in 1..Len(s) : Append(s, j)[i] = s[i]
         /\ Append(s, j)[Len(s) + 1] = j
  OBVIOUS

LEMMA TailAt ==
  ASSUME NEW s \in Seq(Job), s # << >>
  PROVE  /\ Len(s) \in Nat \ {0} /\ Len(Tail(s)) = Len(s) - 1
         /\ Head(s) = s[1] /\ Head(s) \in Job
         /\ \A i \in 1..Len(Tail(s)) : Tail(s)[i] = s[i + 1] /\ i + 1 \in 1..Len(s)
  OBVIOUS

\* a put moves one job from a thread's hands to the end of the queue
LEMMA PutMoves ==
  ASSUME TypeOK, TicketInv, NEW j \in Job, Put(j)
  PROVE  TicketInv'
<1> SUFFICES ASSUME NEW t \in Task
             PROVE  (state'[t] \in Active <=> Located(t)') /\ OnePlace(t)'
  BY DEF TicketInv
<1>1. /\ putting' = putting \ {j} /\ j \in putting /\ jobs' = Append(jobs, j)
      /\ state' = state /\ pc' = pc /\ job' = job
  BY DEF Put, tasks, worker
<1>2. jobs \in Seq(Job) /\ Len(jobs) \in Nat BY DEF TypeOK
<1>3. /\ Len(jobs') = Len(jobs) + 1 /\ jobs'[Len(jobs) + 1] = j
      /\ \A i \in 1..Len(jobs) : jobs'[i] = jobs[i]
  BY <1>1, <1>2, AppendAt
<1>4. WorkingOn(t)' <=> WorkingOn(t) BY <1>1 DEF WorkingOn
<1>5. CASE j \in JobsOf(t)
  <2>1. /\ Putting(t) /\ ~Queued(t) /\ ~WorkingOn(t) /\ state[t] \in Active
        /\ ~(TurnJob(t) \in putting /\ ResumeJob(t) \in putting)
    BY <1>1, <1>5 DEF TicketInv, OnePlace, Putting, Located
  <2>2. ~Putting(t)' BY <1>1, <1>5, <2>1 DEF Putting, JobsOf
  <2>3. \A i : QueuedAt(t, i)' <=> i = Len(jobs) + 1
    BY <1>2, <1>3, <1>5, <2>1 DEF QueuedAt, Queued
  <2>4. Queued(t)' BY <1>2, <1>3, <1>5 DEF Queued
  <2>5. ~(TurnJob(t) \in putting' /\ ResumeJob(t) \in putting') BY <1>1, <2>1
  <2> QED BY <1>1, <1>4, <2>1, <2>2, <2>3, <2>4, <2>5 DEF Located, OnePlace
<1>6. CASE j \notin JobsOf(t)
  <2>1. Putting(t)' <=> Putting(t) BY <1>1, <1>6 DEF Putting
  <2>2. \A i : QueuedAt(t, i)' <=> QueuedAt(t, i)
    BY <1>2, <1>3, <1>6 DEF QueuedAt
  <2>3. Queued(t)' <=> Queued(t) BY <2>2 DEF Queued, QueuedAt
  <2>4. ~(TurnJob(t) \in putting' /\ ResumeJob(t) \in putting')
    BY <1>1 DEF TicketInv, OnePlace
  <2>5. \A i, k : QueuedAt(t, i)' /\ QueuedAt(t, k)' => i = k
    BY <2>2 DEF TicketInv, OnePlace, QueuedAt
  <2> QED BY <1>1, <1>4, <2>1, <2>3, <2>4, <2>5 DEF TicketInv, Located, OnePlace
<1> QED BY <1>5, <1>6

\* the worker takes the head of the queue into its hands
LEMMA TakeMoves ==
  ASSUME TypeOK, TicketInv, TakeJob
  PROVE  TicketInv'
<1> SUFFICES ASSUME NEW t \in Task
             PROVE  (state'[t] \in Active <=> Located(t)') /\ OnePlace(t)'
  BY DEF TicketInv
<1>1. /\ pc = "idle" /\ jobs # << >> /\ job' = Head(jobs) /\ jobs' = Tail(jobs)
      /\ pc' = IF job'.kind = "stop" THEN "stopped" ELSE "taken"
      /\ state' = state /\ putting' = putting
  BY DEF TakeJob, tasks
<1>2. jobs \in Seq(Job) BY DEF TypeOK
<1>3. /\ Len(jobs) \in Nat \ {0} /\ Len(jobs') = Len(jobs) - 1
      /\ job' = jobs[1] /\ job' \in Job
      /\ \A i \in 1..Len(jobs') : jobs'[i] = jobs[i + 1] /\ i + 1 \in 1..Len(jobs)
  BY <1>1, <1>2, TailAt
<1>4. Putting(t)' <=> Putting(t) BY <1>1 DEF Putting
<1>5. ~WorkingOn(t) BY <1>1 DEF WorkingOn
<1>6. ~(TurnJob(t) \in putting' /\ ResumeJob(t) \in putting')
  BY <1>1 DEF TicketInv, OnePlace
<1>7. \A i : QueuedAt(t, i)' => QueuedAt(t, i + 1) /\ i \in Nat \ {0}
  BY <1>3 DEF QueuedAt
<1>8. \A i, k : QueuedAt(t, i)' /\ QueuedAt(t, k)' => i = k
  <2> SUFFICES ASSUME NEW i, NEW k, QueuedAt(t, i)', QueuedAt(t, k)' PROVE i = k
    OBVIOUS
  <2>1. QueuedAt(t, i + 1) /\ QueuedAt(t, k + 1) /\ i \in Nat /\ k \in Nat BY <1>7
  <2>2. i + 1 = k + 1 BY <2>1 DEF TicketInv, OnePlace, QueuedAt
  <2> QED BY <2>1, <2>2
<1>9. CASE jobs[1] \in JobsOf(t)
  <2>1. QueuedAt(t, 1) BY <1>3, <1>9 DEF QueuedAt
  <2>2. Queued(t) BY <2>1 DEF Queued, QueuedAt
  <2>3. ~Putting(t) /\ state[t] \in Active BY <2>2 DEF TicketInv, OnePlace, Located
  <2>4. WorkingOn(t)' BY <1>1, <1>3, <1>9 DEF WorkingOn, JobsOf
  <2>5. \A i : ~QueuedAt(t, i)'
    <3> SUFFICES ASSUME NEW i, QueuedAt(t, i)' PROVE FALSE
      OBVIOUS
    <3>1. QueuedAt(t, i + 1) /\ i \in Nat \ {0} BY <1>7
    <3>2. i + 1 = 1 BY <2>1, <3>1 DEF TicketInv, OnePlace, QueuedAt
    <3> QED BY <3>1, <3>2
  <2>6. ~Queued(t)' BY <2>5 DEF Queued, QueuedAt
  <2> QED BY <1>1, <1>4, <1>6, <1>8, <2>3, <2>4, <2>6 DEF Located, OnePlace
<1>10. CASE jobs[1] \notin JobsOf(t)
  <2>1. ~WorkingOn(t)' BY <1>3, <1>10 DEF WorkingOn
  <2>2. Queued(t)' <=> Queued(t)
    <3>1. Queued(t)' => Queued(t) BY <1>3 DEF Queued
    <3>2. ASSUME Queued(t) PROVE Queued(t)'
      <4>1. PICK i \in 1..Len(jobs) : jobs[i] \in JobsOf(t) BY <3>2 DEF Queued
      <4>2. i # 1 BY <1>10, <4>1
      <4>3. i - 1 \in 1..Len(jobs') BY <1>3, <4>2
      <4>4. jobs'[i - 1] = jobs[i] BY <1>3, <4>3
      <4> QED BY <4>1, <4>3, <4>4 DEF Queued
    <3> QED BY <3>1, <3>2
  <2> QED BY <1>1, <1>4, <1>5, <1>6, <1>8, <2>1, <2>2 DEF TicketInv, Located, OnePlace
<1> QED BY <1>9, <1>10

\* the worker puts its job down as the task stops being active
LEMMA WorkerFinishes ==
  ASSUME TypeOK, TicketInv, NEW t \in Task, job \in JobsOf(t), WorkingOn(t),
         NEW s \in TaskState \ Active, state' = [state EXCEPT ![t] = s],
         pc' = "release", job' = job, jobs' = jobs, putting' = putting
  PROVE  TicketInv'
<1> SUFFICES ASSUME NEW u \in Task
             PROVE  (state'[u] \in Active <=> Located(u)') /\ OnePlace(u)'
  BY DEF TicketInv
<1>1. ~WorkingOn(u)' BY DEF WorkingOn
<1>2. Putting(u)' <=> Putting(u) BY DEF Putting
<1>3. /\ Queued(u)' <=> Queued(u)
      /\ \A i : QueuedAt(u, i)' <=> QueuedAt(u, i)
  BY DEF Queued, QueuedAt
<1>4. OnePlace(u)' BY <1>1, <1>2, <1>3 DEF TicketInv, OnePlace
<1>5. CASE u = t
  <2>1. ~Putting(t) /\ ~Queued(t) BY DEF TicketInv, OnePlace
  <2>2. state'[t] = s BY DEF TypeOK
  <2> QED BY <1>1, <1>2, <1>3, <1>4, <1>5, <2>1, <2>2 DEF Located
<1>6. CASE u # t
  <2>1. ~WorkingOn(u) BY <1>6 DEF WorkingOn, JobsOf
  <2>2. state'[u] = state[u] BY <1>6 DEF TypeOK
  <2> QED BY <1>1, <1>2, <1>3, <1>4, <2>1, <2>2 DEF TicketInv, Located
<1> QED BY <1>5, <1>6

LEMMA JobIsOfItsTask ==
  ASSUME TypeOK, job.kind \in {"turn", "resume"}
  PROVE  job.id \in Task /\ job \in JobsOf(job.id)
  BY DEF TypeOK, JobsOf

LEMMA TicketStep ==
  ASSUME TypeOK, JobFits, TicketInv, [Next]_vars
  PROVE  TicketInv'
<1> USE DEF tasks, queue, worker
<1>1. ASSUME NEW t \in Task, Submit(t) PROVE TicketInv'
  <2>1. /\ state[t] \notin Active /\ state' = [state EXCEPT ![t] = "queued"]
        /\ putting' = putting \cup {TurnJob(t)}
        /\ jobs' = jobs /\ pc' = pc /\ job' = job
    BY <1>1 DEF Submit, Active
  <2>2. \A u \in Task : state'[u] \in Active <=> u \in {t} \/ state[u] \in Active
    BY <2>1 DEF TypeOK, Active
  <2>3. /\ TurnJob(t) \in JobsOf(t)
        /\ \A j \in JobsOf(t) : j \in putting' <=> j \in putting \/ j = TurnJob(t)
        /\ \A u \in Task \ {t} : \A j \in JobsOf(u) : j \in putting' <=> j \in putting
    BY <2>1 DEF JobsOf
  <2> QED BY <2>1, <2>2, <2>3, JobDecided
<1>2. ASSUME NEW t \in Task, Approve(t) PROVE TicketInv'
  <2>1. /\ state[t] \notin Active /\ state' = [state EXCEPT ![t] = "running"]
        /\ putting' = putting \cup {ResumeJob(t)}
        /\ jobs' = jobs /\ pc' = pc /\ job' = job
    BY <1>2 DEF Approve, MayApprove, Active
  <2>2. \A u \in Task : state'[u] \in Active <=> u \in {t} \/ state[u] \in Active
    BY <2>1 DEF TypeOK, Active
  <2>3. /\ ResumeJob(t) \in JobsOf(t)
        /\ \A j \in JobsOf(t) : j \in putting' <=> j \in putting \/ j = ResumeJob(t)
        /\ \A u \in Task \ {t} : \A j \in JobsOf(u) : j \in putting' <=> j \in putting
    BY <2>1 DEF JobsOf
  <2> QED BY <2>1, <2>2, <2>3, JobDecided
<1>3. CASE Resume
  <2>1. /\ state' = [t \in Task |-> IF t \in Resumable THEN "queued" ELSE state[t]]
        /\ putting' = putting \cup {ResumeJob(t) : t \in Resumable}
        /\ jobs' = jobs /\ pc' = pc /\ job' = job
    BY <1>3 DEF Resume, ResumeJobs
  <2>2. /\ Resumable \subseteq Task
        /\ \A t \in Resumable : state[t] \notin Active
    BY DEF Resumable, Active
  <2>3. \A u \in Task : state'[u] \in Active <=> u \in Resumable \/ state[u] \in Active
    BY <2>1 DEF Active
  <2>4. \A t \in Resumable :
          /\ ResumeJob(t) \in JobsOf(t)
          /\ \A j \in JobsOf(t) : j \in putting' <=> j \in putting \/ j = ResumeJob(t)
    <3> SUFFICES ASSUME NEW t \in Resumable, NEW j \in JobsOf(t)
                 PROVE  j \in putting' <=> j \in putting \/ j = ResumeJob(t)
      BY DEF JobsOf
    <3>1. \A u \in Resumable : j = ResumeJob(u) => u = t BY DEF JobsOf
    <3> QED BY <2>1, <3>1
  <2>5. \A u \in Task \ Resumable : \A j \in JobsOf(u) : j \in putting' <=> j \in putting
    BY <2>1, <2>2 DEF JobsOf
  <2> QED BY <2>1, <2>2, <2>3, <2>4, <2>5, JobDecided
<1>4. ASSUME NEW t \in Task, Decline(t) PROVE TicketInv'
  <2>1. \A u \in Task : state'[u] \in Active <=> state[u] \in Active
    BY <1>4 DEF Decline, MayDecline, Active, TypeOK
  <2> QED BY <1>4, <2>1, NothingMoves DEF Decline, WorkingOn
<1>5. CASE Pause \/ \E p \in Proposal : Veto(p)
  BY <1>5, NothingMoves DEF Pause, Veto, WorkingOn
<1>6. CASE StopHost \/ Tick \/ \E p \in Proposal : ApproveProposal(p)
  <2>1. /\ \A t \in Task : \A j \in JobsOf(t) : j \in putting' <=> j \in putting
        /\ state' = state /\ jobs' = jobs /\ pc' = pc /\ job' = job
    BY <1>6 DEF StopHost, StopSentinel, Tick, ApproveProposal, JobsOf
  <2> QED BY <2>1, NothingMoves DEF WorkingOn
<1>7. CASE \E j \in Job : Put(j) BY <1>7, PutMoves
<1>8. CASE TakeJob BY <1>8, TakeMoves
<1>9. CASE Release
  BY <1>9, NothingMoves DEF Release, WorkingOn
<1>10. CASE MarkBusy \/ GovernPaused \/ TurnReturns \/ \E a \in Action : GovernHeld(a)
  BY <1>10, NothingMoves DEF MarkBusy, GovernPaused, TurnReturns, GovernHeld, WorkingOn
<1>11. CASE RecordApprovals \/ ResumeWithNote \/ \E a \in Action : ApproveHeld(a)
  BY <1>11, NothingMoves DEF RecordApprovals, ResumeWithNote, ApproveHeld, WorkingOn
<1>12. CASE HandleTurn
  <2>1. job.id \in Task /\ WorkingOn(job.id)
    BY <1>12, JobIsOfItsTask DEF HandleTurn, WorkingOn
  <2>2. state[job.id] \in Active BY <2>1 DEF TicketInv, Located
  <2>3. \A u \in Task : state'[u] \in Active <=> state[u] \in Active
    BY <1>12, <2>2 DEF HandleTurn, Active, TypeOK
  <2> QED BY <1>12, <2>3, NothingMoves DEF HandleTurn, WorkingOn
<1>13. CASE HandleResume
  <2>1. job.id \in Task /\ WorkingOn(job.id)
    BY <1>13, JobIsOfItsTask DEF HandleResume, WorkingOn
  <2>2. state[job.id] \in Active BY <2>1 DEF TicketInv, Located
  <2>3. /\ state' = [state EXCEPT ![job.id] = "running"]
        /\ pc = "dispatch" /\ pc' \in {"turn", "approving"} /\ job' = job
        /\ jobs' = jobs /\ putting' = putting
    BY <1>13, <2>2 DEF HandleResume
  <2>4. \A u \in Task : state'[u] \in Active <=> state[u] \in Active
    BY <2>2, <2>3 DEF Active, TypeOK
  <2> QED BY <2>3, <2>4, NothingMoves DEF WorkingOn
<1>14. CASE AbsorbResult
  <2>1. job.id \in Task /\ job \in JobsOf(job.id) /\ WorkingOn(job.id)
    BY <1>14, JobIsOfItsTask DEF AbsorbResult, WorkingOn, JobFits
  <2>2. StateAfter(turn.stop) \in TaskState \ Active
    BY DEF StateAfter, TaskState, Terminal, Active
  <2> QED BY <1>14, <2>1, <2>2, WorkerFinishes DEF AbsorbResult
<1>15. CASE FailActive \/ AwaitAgain
  <2>1. job.id \in Task /\ job \in JobsOf(job.id) /\ WorkingOn(job.id)
    BY <1>15, JobIsOfItsTask DEF FailActive, AwaitAgain, WorkingOn, JobFits
  <2>2. {"failed", "awaiting_approval"} \subseteq TaskState \ Active
    BY DEF TaskState, Terminal, Active
  <2> QED BY <1>15, <2>1, <2>2, WorkerFinishes DEF FailActive, AwaitAgain
<1>16. CASE HandleApproveProposal \/ CheckStatus \/ GateProposal \/ ExecuteProposal
  <2>1. job.kind = "approve" /\ job' = job
    BY <1>16 DEF HandleApproveProposal, CheckStatus, GateProposal, ExecuteProposal, JobFits
  <2>2. \A t \in Task : ~WorkingOn(t) /\ ~WorkingOn(t)'
    BY <2>1 DEF WorkingOn, JobsOf
  <2> QED
    BY <1>16, <2>2, NothingMoves
    DEF HandleApproveProposal, CheckStatus, GateProposal, ExecuteProposal
<1>17. CASE MarkApproved
  BY <1>17, NothingMoves DEF MarkApproved, WorkingOn
<1>18. CASE RecordApproval \/ HandlePropose \/ Propose \/ RecordProposals
  <2>1. job.kind \notin {"turn", "resume"} /\ job' = job
    BY <1>18 DEF RecordApproval, HandlePropose, Propose, RecordProposals, JobFits
  <2>2. \A t \in Task : ~WorkingOn(t) /\ ~WorkingOn(t)'
    BY <2>1 DEF WorkingOn, JobsOf
  <2> QED
    BY <1>18, <2>2, NothingMoves DEF RecordApproval, HandlePropose, Propose, RecordProposals
<1>19. CASE UNCHANGED vars BY <1>19, NothingMoves DEF vars, WorkingOn
<1> QED
  BY <1>1, <1>2, <1>3, <1>4, <1>5, <1>6, <1>7, <1>8, <1>9, <1>10, <1>11, <1>12,
     <1>13, <1>14, <1>15, <1>16, <1>17, <1>18, <1>19
  DEF Next, Caller, Worker

LEMMA TicketInit == Init => TicketInv
<1> SUFFICES ASSUME Init, NEW t \in Task PROVE (state[t] \in Active <=> Located(t)) /\ OnePlace(t)
  BY DEF TicketInv
<1>1. state[t] \notin Active /\ putting = {} /\ Len(jobs) = 0 /\ pc = "idle"
  BY DEF Init, Active
<1> QED BY <1>1 DEF Located, OnePlace, Putting, Queued, QueuedAt, WorkingOn

LEMMA TicketInvariant == Spec => [](TypeOK /\ JobFits /\ TicketInv)
<1>1. TypeOK /\ JobFits /\ TicketInv /\ [Next]_vars => TicketInv'
  BY TicketStep
<1> QED BY <1>1, TicketInit, TypeCorrect, PTL DEF Spec

(* A task is queued or running exactly when one job of it is somewhere.    *)
THEOREM OneTicket == Spec => []OneTicketPerActiveTask
<1>1. ASSUME TypeOK, TicketInv PROVE OneTicketPerActiveTask
  <2> SUFFICES ASSUME NEW t \in Task
               PROVE  IF state[t] \in Active THEN Cardinality(Tickets(t)) = 1
                                             ELSE Tickets(t) = {}
    BY DEF OneTicketPerActiveTask
  <2>1. \A x : x \in Tickets(t) <=>
            \/ \E j \in putting : j \in JobsOf(t) /\ x = <<"putting", j.kind>>
            \/ \E i \in 1..Len(jobs) : jobs[i] \in JobsOf(t) /\ x = <<"jobs", i>>
            \/ WorkingOn(t) /\ x = <<"worker", 0>>
    <3>1. DOMAIN jobs = 1..Len(jobs) BY <1>1 DEF TypeOK
    <3> QED BY <3>1 DEF Tickets
  <2>2. CASE state[t] \notin Active
    <3>1. ~Putting(t) /\ ~Queued(t) /\ ~WorkingOn(t) BY <1>1, <2>2 DEF TicketInv, Located
    <3>2. \A x : x \notin Tickets(t) BY <2>1, <3>1 DEF Putting, Queued
    <3> QED BY <2>2, <3>2
  <2>3. CASE state[t] \in Active
    <3>1. \E x : Tickets(t) = {x}
      <4>1. Located(t) /\ OnePlace(t) BY <1>1, <2>3 DEF TicketInv
      <4>2. CASE WorkingOn(t)
        <5>1. \A x : x \in Tickets(t) <=> x = <<"worker", 0>>
          BY <2>1, <4>1, <4>2 DEF OnePlace, Putting, Queued
        <5>2. Tickets(t) = {<<"worker", 0>>} BY <5>1
        <5> QED BY <5>2
      <4>3. CASE Putting(t)
        <5>1. PICK j \in putting : j \in JobsOf(t) BY <4>3 DEF Putting
        <5>2. \A k \in putting : k \in JobsOf(t) => k = j
          BY <4>1, <5>1 DEF OnePlace, JobsOf
        <5>3. \A x : x \in Tickets(t) <=> x = <<"putting", j.kind>>
          BY <2>1, <4>1, <4>3, <5>1, <5>2 DEF OnePlace, Queued
        <5>4. Tickets(t) = {<<"putting", j.kind>>} BY <5>3
        <5> QED BY <5>4
      <4>4. CASE Queued(t)
        <5>1. PICK i \in 1..Len(jobs) : jobs[i] \in JobsOf(t) BY <4>4 DEF Queued
        <5>2. \A k \in 1..Len(jobs) : jobs[k] \in JobsOf(t) => k = i
          BY <4>1, <5>1 DEF OnePlace, QueuedAt
        <5>3. \A x : x \in Tickets(t) <=> x = <<"jobs", i>>
          BY <2>1, <4>1, <4>4, <5>1, <5>2 DEF OnePlace, Putting
        <5>4. Tickets(t) = {<<"jobs", i>>} BY <5>3
        <5> QED BY <5>4
      <4> QED BY <4>1, <4>2, <4>3, <4>4 DEF Located
    <3>2. Cardinality(Tickets(t)) = 1 BY <3>1, FS_Singleton
    <3> QED BY <2>3, <3>2
  <2> QED BY <2>2, <2>3
<1> QED BY <1>1, TicketInvariant, PTL

\* the worker writes only the state of a task whose job it holds, an active one
LEMMA WorkerWritesActive ==
  ASSUME TypeOK, TicketInv, job.kind \in {"turn", "resume"},
         pc \notin {"idle", "release", "stopped"}
  PROVE  job.id \in Task /\ state[job.id] \in Active
<1>1. job.id \in Task /\ WorkingOn(job.id) BY JobIsOfItsTask DEF WorkingOn
<1> QED BY <1>1 DEF TicketInv, Located

(* A finished, failed or declined task is never brought back.              *)
THEOREM FinishedStays == Spec => TerminalIsFinal
<1>1. ASSUME TypeOK, JobFits, TicketInv, [Next]_vars, NEW t \in Task, state[t] \in Terminal
      PROVE  state'[t] = state[t]
  <2> USE DEF tasks, queue, worker
  <2>1. state[t] \notin Active /\ state[t] \notin {"absent", "paused", "awaiting_approval"}
    BY <1>1 DEF Terminal, Active
  <2>2. CASE state' = state BY <2>2
  <2>3. ASSUME NEW u \in Task, Submit(u) \/ Decline(u) \/ Approve(u)
        PROVE  state'[t] = state[t]
    BY <1>1, <2>1, <2>3 DEF Submit, Decline, MayDecline, Approve, MayApprove, TypeOK
  <2>4. CASE Resume BY <2>1, <2>4 DEF Resume, Resumable
  <2>5. CASE HandleTurn \/ HandleResume \/ AbsorbResult \/ FailActive \/ AwaitAgain
    <3>1. job.id \in Task /\ state[job.id] \in Active
      BY <1>1, <2>5, WorkerWritesActive
      DEF JobFits, HandleTurn, HandleResume, AbsorbResult, FailActive, AwaitAgain
    <3>2. \E s : state' = [state EXCEPT ![job.id] = s]
      BY <2>5, <3>1 DEF HandleTurn, HandleResume, AbsorbResult, FailActive, AwaitAgain
    <3> QED BY <1>1, <2>1, <3>1, <3>2 DEF TypeOK
  <2>6. CASE Tick \/ \E j \in Job : Put(j) BY <2>2, <2>6 DEF Tick, Put
  <2>7. CASE UNCHANGED vars BY <2>2, <2>7 DEF vars
  <2>8. CASE Pause \/ StopHost \/ \E p \in Proposal : Veto(p) \/ ApproveProposal(p)
    BY <2>2, <2>8 DEF Pause, StopHost, Veto, ApproveProposal
  <2>9. CASE TakeJob \/ MarkBusy \/ Release \/ GovernPaused \/ TurnReturns
             \/ RecordApprovals \/ ResumeWithNote
             \/ \E a \in Action : GovernHeld(a) \/ ApproveHeld(a)
    BY <2>2, <2>9 DEF TakeJob, MarkBusy, Release, GovernPaused, TurnReturns,
                      RecordApprovals, ResumeWithNote, GovernHeld, ApproveHeld
  <2>10. CASE HandleApproveProposal \/ CheckStatus \/ GateProposal \/ ExecuteProposal
              \/ MarkApproved \/ RecordApproval \/ HandlePropose \/ Propose \/ RecordProposals
    BY <2>2, <2>10 DEF HandleApproveProposal, CheckStatus, GateProposal, ExecuteProposal,
                       MarkApproved, RecordApproval, HandlePropose, Propose, RecordProposals
  <2> QED
    BY <1>1, <2>3, <2>4, <2>5, <2>6, <2>7, <2>8, <2>9, <2>10 DEF Next, Caller, Worker
<1>2. TypeOK /\ JobFits /\ TicketInv /\ [Next]_vars =>
        \A t \in Task : state[t] \in Terminal => state'[t] = state[t]
  BY <1>1
<1> QED BY <1>2, TicketInvariant, PTL DEF Spec, TerminalIsFinal

-----------------------------------------------------------------------------
(* What is held by a task that may run has been granted.                   *)

Waiting == {"awaiting_approval", "cancelled"}

GrantInv ==
  /\ NoRunWithoutApproval
  /\ \A p \in Proposal : ApproveJob(p) \in putting => p \in granted
  /\ \A i \in 1..Len(jobs) : jobs[i].kind = "approve" => jobs[i].id \in granted
  /\ job.kind = "approve" => job.id \in granted
  /\ \A t \in Task : state[t] \notin Waiting => held[t] \subseteq granted
  /\ pc = "approving" => todo \subseteq granted

\* a step that runs nothing, hands the worker nothing and frees no task
LEMMA GrantsNothing ==
  ASSUME GrantInv, runs' = runs, granted \subseteq granted',
         \A p \in Proposal :
           ApproveJob(p) \in putting' => ApproveJob(p) \in putting \/ p \in granted',
         jobs' = jobs, job' = job \/ job'.kind # "approve",
         held' = held, \A t \in Task : state'[t] \notin Waiting => state[t] \notin Waiting,
         pc' = "approving" => pc = "approving" /\ todo' \subseteq todo
  PROVE  GrantInv'
  BY DEF GrantInv, NoRunWithoutApproval

LEMMA GrantStep ==
  ASSUME TypeOK, JobFits, TicketInv, GrantInv, [Next]_vars
  PROVE  GrantInv'
<1> USE DEF tasks, queue, worker, deciding, history
<1>1. ASSUME NEW t \in Task, Submit(t) \/ Decline(t) PROVE GrantInv'
  <2>1. \A u \in Task : state'[u] \notin Waiting => state[u] \notin Waiting
    BY <1>1 DEF Submit, Decline, Waiting, TypeOK
  <2> QED BY <1>1, <2>1, GrantsNothing DEF Submit, Decline
<1>2. ASSUME NEW t \in Task, Approve(t) PROVE GrantInv'
  <2>1. \A u \in Task : state'[u] \notin Waiting => held[u] \subseteq granted \cup held[t]
    BY <1>2 DEF Approve, Waiting, TypeOK, GrantInv
  <2> QED BY <1>2, <2>1 DEF Approve, GrantInv, NoRunWithoutApproval
<1>3. CASE Resume
  <2>1. \A t \in Task : state'[t] \notin Waiting => state[t] \notin Waiting
    BY <1>3 DEF Resume, Resumable, Waiting
  <2> QED BY <1>3, <2>1, GrantsNothing DEF Resume, ResumeJobs
<1>4. CASE Pause \/ StopHost \/ Tick \/ \E p \in Proposal : Veto(p) \/ ApproveProposal(p)
  BY <1>4, GrantsNothing DEF Pause, StopHost, StopSentinel, Tick, Veto, ApproveProposal
<1>5. ASSUME NEW j \in Job, Put(j) PROVE GrantInv'
  <2>1. /\ jobs \in Seq(Job) /\ Len(jobs) \in Nat
        /\ putting' = putting \ {j} /\ j \in putting /\ jobs' = Append(jobs, j)
    BY <1>5 DEF TypeOK, Put
  <2>2. /\ Len(jobs') = Len(jobs) + 1 /\ jobs'[Len(jobs) + 1] = j
        /\ \A i \in 1..Len(jobs) : jobs'[i] = jobs[i]
    BY <2>1, AppendAt
  <2>3. j.kind = "approve" => j.id \in granted BY <2>1 DEF GrantInv
  <2>4. \A i \in 1..Len(jobs') : jobs'[i].kind = "approve" => jobs'[i].id \in granted
    <3> SUFFICES ASSUME NEW i \in 1..Len(jobs'), jobs'[i].kind = "approve"
                 PROVE  jobs'[i].id \in granted
      OBVIOUS
    <3>1. CASE i = Len(jobs) + 1 BY <2>2, <2>3, <3>1
    <3>2. CASE i # Len(jobs) + 1
      <4>1. i \in 1..Len(jobs) BY <2>1, <2>2, <3>2
      <4> QED BY <2>2, <4>1 DEF GrantInv
    <3> QED BY <3>1, <3>2
  <2> QED BY <1>5, <2>1, <2>4 DEF Put, GrantInv, NoRunWithoutApproval
<1>6. CASE TakeJob
  <2>1. /\ jobs \in Seq(Job) /\ jobs # << >> /\ job' = Head(jobs) /\ jobs' = Tail(jobs)
        /\ pc' # "approving"
    BY <1>6 DEF TypeOK, TakeJob
  <2>2. /\ Len(jobs) \in Nat \ {0} /\ job' = jobs[1]
        /\ \A i \in 1..Len(jobs') : jobs'[i] = jobs[i + 1] /\ i + 1 \in 1..Len(jobs)
    BY <2>1, TailAt
  <2>3. job'.kind = "approve" => job'.id \in granted BY <2>2 DEF GrantInv
  <2>4. \A i \in 1..Len(jobs') : jobs'[i].kind = "approve" => jobs'[i].id \in granted
    BY <2>2 DEF GrantInv
  <2> QED BY <1>6, <2>1, <2>3, <2>4 DEF TakeJob, GrantInv, NoRunWithoutApproval
<1>7. CASE MarkBusy \/ Release \/ GovernPaused \/ TurnReturns \/ \E a \in Action : GovernHeld(a)
  BY <1>7, GrantsNothing DEF MarkBusy, Release, GovernPaused, TurnReturns, GovernHeld
<1>8. CASE HandleTurn
  <2>1. job.id \in Task /\ WorkingOn(job.id)
    BY <1>8, JobIsOfItsTask DEF HandleTurn, WorkingOn
  <2>2. state[job.id] \notin Waiting BY <2>1 DEF TicketInv, Located, Active, Waiting
  <2>3. \A t \in Task : state'[t] \notin Waiting => state[t] \notin Waiting
    BY <1>8, <2>2 DEF HandleTurn, TypeOK
  <2> QED BY <1>8, <2>3, GrantsNothing DEF HandleTurn
<1>9. CASE AbsorbResult
  <2>1. job.id \in Task /\ WorkingOn(job.id)
    BY <1>9, JobIsOfItsTask DEF AbsorbResult, WorkingOn, JobFits
  <2>2. state[job.id] \notin Waiting BY <2>1 DEF TicketInv, Located, Active, Waiting
  <2>3. /\ held' = [held EXCEPT ![job.id] = HeldAfter(turn.stop)]
        /\ state' = [state EXCEPT ![job.id] = StateAfter(turn.stop)]
    BY <1>9 DEF AbsorbResult
  <2>4. ASSUME NEW t \in Task, state'[t] \notin Waiting PROVE held'[t] \subseteq granted
    <3>1. CASE t # job.id BY <2>1, <2>3, <2>4, <3>1 DEF TypeOK, GrantInv
    <3>2. CASE t = job.id
      <4>1. turn.stop # "held" BY <2>1, <2>3, <2>4, <3>2 DEF TypeOK, StateAfter, Waiting
      <4>2. held'[t] = held[t] BY <2>1, <2>3, <3>2, <4>1 DEF TypeOK, HeldAfter
      <4> QED BY <2>2, <3>2, <4>2 DEF GrantInv
    <3> QED BY <3>1, <3>2
  <2> QED BY <1>9, <2>4 DEF AbsorbResult, GrantInv, NoRunWithoutApproval
<1>10. CASE FailActive
  <2>1. job.id \in Task /\ WorkingOn(job.id)
    BY <1>10, JobIsOfItsTask DEF FailActive, WorkingOn, JobFits
  <2>2. state[job.id] \notin Waiting BY <2>1 DEF TicketInv, Located, Active, Waiting
  <2>3. \A t \in Task : state'[t] \notin Waiting => state[t] \notin Waiting
    BY <1>10, <2>2 DEF FailActive, TypeOK
  <2> QED BY <1>10, <2>3, GrantsNothing DEF FailActive
<1>11. CASE HandleResume
  <2>1. job.id \in Task /\ WorkingOn(job.id)
    BY <1>11, JobIsOfItsTask DEF HandleResume, WorkingOn
  <2>2. state[job.id] \in Active BY <2>1 DEF TicketInv, Located
  <2>3. held[job.id] \subseteq granted BY <2>1, <2>2 DEF GrantInv, Active, Waiting
  <2>4. \A t \in Task : state'[t] \notin Waiting => state[t] \notin Waiting
    BY <1>11, <2>2 DEF HandleResume, Active, Waiting, TypeOK
  <2>5. todo' \subseteq granted BY <1>11, <2>2, <2>3 DEF HandleResume
  <2> QED BY <1>11, <2>4, <2>5 DEF HandleResume, GrantInv, NoRunWithoutApproval
<1>12. ASSUME NEW a \in Action, ApproveHeld(a) PROVE GrantInv'
  <2>1. a \in granted /\ todo' \subseteq granted BY <1>12 DEF ApproveHeld, GrantInv
  <2>2. runs' = runs \/ runs' = [runs EXCEPT ![a] = @ + 1] BY <1>12 DEF ApproveHeld
  <2>3. NoRunWithoutApproval'
    BY <1>12, <2>1, <2>2 DEF ApproveHeld, TypeOK, GrantInv, NoRunWithoutApproval
  <2> QED BY <1>12, <2>1, <2>3 DEF ApproveHeld, GrantInv
<1>13. CASE RecordApprovals
  <2>1. \A t \in Task : held'[t] \subseteq held[t]
    BY <1>13 DEF RecordApprovals, Remaining, TypeOK
  <2>2. \A t \in Task : state'[t] \notin Waiting => held'[t] \subseteq granted
    BY <1>13, <2>1 DEF RecordApprovals, GrantInv
  <2> QED BY <1>13, <2>2 DEF RecordApprovals, GrantInv, NoRunWithoutApproval
<1>14. CASE AwaitAgain
  <2>1. \A t \in Task : state'[t] \notin Waiting => state[t] \notin Waiting
    BY <1>14 DEF AwaitAgain, Waiting, TypeOK
  <2> QED BY <1>14, <2>1, GrantsNothing DEF AwaitAgain
<1>15. CASE ResumeWithNote BY <1>15, GrantsNothing DEF ResumeWithNote
<1>16. CASE ExecuteProposal
  <2>1. job.id \in granted BY <1>16 DEF ExecuteProposal, JobFits, GrantInv
  <2>2. runs' = runs \/ runs' = [runs EXCEPT ![job.id] = @ + 1] BY <1>16 DEF ExecuteProposal
  <2>3. NoRunWithoutApproval'
    BY <1>16, <2>1, <2>2 DEF ExecuteProposal, TypeOK, GrantInv, NoRunWithoutApproval
  <2> QED BY <1>16, <2>3 DEF ExecuteProposal, GrantInv
<1>17. CASE HandleApproveProposal \/ CheckStatus \/ GateProposal \/ MarkApproved \/ RecordApproval
  BY <1>17, GrantsNothing
  DEF HandleApproveProposal, CheckStatus, GateProposal, MarkApproved, RecordApproval
<1>18. CASE HandlePropose \/ Propose \/ RecordProposals
  BY <1>18, GrantsNothing DEF HandlePropose, Propose, RecordProposals
<1>19. CASE UNCHANGED vars BY <1>19, GrantsNothing DEF vars
<1> QED
  BY <1>1, <1>2, <1>3, <1>4, <1>5, <1>6, <1>7, <1>8, <1>9, <1>10, <1>11, <1>12,
     <1>13, <1>14, <1>15, <1>16, <1>17, <1>18, <1>19
  DEF Next, Caller, Worker

(* Nothing held for the human is executed unless the human approved it.    *)
THEOREM ApprovedBeforeRun == Spec => []NoRunWithoutApproval
<1>1. Init => GrantInv
  <2> SUFFICES ASSUME Init PROVE GrantInv
    OBVIOUS
  <2>1. /\ putting = {} /\ Len(jobs) = 0 /\ job = Stop /\ pc = "idle"
        /\ \A t \in Task : held[t] = {}
        /\ \A d \in Action \cup Proposal : runs[d] = 0
    BY DEF Init
  <2> QED BY <2>1 DEF GrantInv, NoRunWithoutApproval
<1>2. TypeOK /\ JobFits /\ TicketInv /\ GrantInv /\ [Next]_vars => GrantInv'
  BY GrantStep
<1>3. GrantInv => NoRunWithoutApproval
  BY DEF GrantInv
<1> QED BY <1>1, <1>2, <1>3, TicketInvariant, PTL DEF Spec

-----------------------------------------------------------------------------
(* The Host implements Approval, through the refinement mapping Promise.   *)
(* What the mapping needs is beyond the tickets: a turn that has not begun *)
(* leaves its task queued and holding nothing (FreshInv), only the task    *)
(* whose turn minted a decision holds it (HeldInv), and nothing is         *)
(* approved, vetoed or consumed of a proposal that was never shown         *)
(* (SurfacedInv).                                                          *)

Decided == Action \cup Proposal

\* an approval of p is somewhere: being put, queued, or in the worker's hands
ApprovalOf(p) ==
  \/ ApproveJob(p) \in putting
  \/ \E i \in 1..Len(jobs) : jobs[i] = ApproveJob(p)
  \/ job = ApproveJob(p)

\* the turn a submission asked for has not begun
TurnAhead(t) ==
  \/ TurnJob(t) \in putting
  \/ \E i \in 1..Len(jobs) : jobs[i] = TurnJob(t)
  \/ job = TurnJob(t) /\ pc \in {"taken", "dispatch"}

FreshInv == \A t \in Task : TurnAhead(t) => state[t] = "queued"

HeldInv ==
  /\ \A a \in Action : a \in consumed => owner[a] # NoId
  /\ \A a \in Action : owner[a] # NoId => state[owner[a]] # "absent"
  /\ \A t \in Task : \A a \in held[t] : owner[a] = t
  /\ \A t \in Task : state[t] \notin {"awaiting_approval", "running", "cancelled"} => held[t] = {}
  /\ pc \in {"turn", "absorb", "note"} => held[job.id] = {}
  /\ pc \in {"turn", "absorb"} => \A a \in turn.held : owner[a] = job.id
  /\ pc = "approving" => todo \subseteq held[job.id]
  /\ ran \subseteq consumed

SurfacedInv ==
  /\ \A p \in Proposal : p \in consumed \/ ApprovalOf(p) => proposal[p] # "absent"
  /\ \A p \in Proposal : p \in vetoed => p \in consumed /\ proposal[p] \in {"vetoed", "approved"}
  /\ \A p \in Proposal : proposal[p] = "vetoed" => p \in vetoed
  /\ pc \in {"idle", "taken", "dispatch", "proposing"} => todo = {}
  /\ pc = "index" => \A p \in todo : p \in Proposal /\ proposal[p] = "absent"

LEMMA JobIsRecord == ASSUME NEW j \in Job PROVE j = [kind |-> j.kind, id |-> j.id]
  OBVIOUS

LEMMA HeldInit == Init => HeldInv
<1> SUFFICES ASSUME Init PROVE HeldInv
  OBVIOUS
<1>1. \A a \in Action : owner[a] = NoId
  BY DEF Init
<1>2. \A t \in Task : held[t] = {}
  BY DEF Init
<1>3. pc = "idle" /\ consumed = {} /\ ran = {}
  BY DEF Init
<1> QED
  BY <1>1, <1>2, <1>3 DEF HeldInv

LEMMA FreshInit == Init => FreshInv
<1> SUFFICES ASSUME Init, NEW t \in Task PROVE ~TurnAhead(t)
  BY DEF FreshInv
<1>1. Len(jobs) = 0 /\ putting = {} /\ pc = "idle"
  BY DEF Init
<1> QED
  BY <1>1 DEF TurnAhead

LEMMA SurfacedInit == Init => SurfacedInv
<1> SUFFICES ASSUME Init PROVE SurfacedInv
  OBVIOUS
<1>1. \A p \in Proposal : proposal[p] = "absent"
  BY DEF Init
<1>2. \A p \in Proposal : ~ApprovalOf(p)
  <2>1. Len(jobs) = 0 /\ putting = {} /\ job.kind = "stop"
    BY DEF Init
  <2> QED
    BY <2>1 DEF ApprovalOf
<1> QED
  BY <1>1, <1>2 DEF Init, SurfacedInv

-----------------------------------------------------------------------------
LEMMA FreshStep ==
  ASSUME TypeOK, JobFits, TicketInv, FreshInv, [Next]_vars
  PROVE  FreshInv'
<1> USE DEF tasks, queue, worker, deciding, history
<1>1. ASSUME NEW t \in Task, TurnAhead(t) PROVE state[t] \in Active
  <2>1. TurnJob(t) \in JobsOf(t)
    BY DEF JobsOf
  <2> QED
    BY <1>1, <2>1 DEF TurnAhead, TicketInv, Located, Putting, Queued, WorkingOn
<1>2. ASSUME NEW t \in Task, Submit(t) \/ Decline(t) \/ Approve(t) PROVE FreshInv'
  <2>1. \A u \in Task : TurnAhead(u)' => TurnAhead(u) \/ (u = t /\ state'[t] = "queued")
    BY <1>2 DEF Submit, Decline, Approve, TurnAhead, TypeOK
  <2>2. ~TurnAhead(t)
    BY <1>1, <1>2 DEF Submit, Decline, Approve, MayDecline, MayApprove, Active
  <2>3. \A u \in Task \ {t} : state'[u] = state[u]
    BY <1>2 DEF Submit, Decline, Approve, TypeOK
  <2> QED
    BY <2>1, <2>2, <2>3 DEF FreshInv
<1>3. CASE Resume
  <2>1. \A u \in Task : TurnAhead(u)' => TurnAhead(u)
    BY <1>3 DEF Resume, ResumeJobs, TurnAhead
  <2> QED
    BY <1>3, <2>1 DEF Resume, FreshInv
<1>4. CASE Pause \/ StopHost \/ Tick \/ \E p \in Proposal : Veto(p) \/ ApproveProposal(p)
  <2>1. \A u \in Task : TurnJob(u) \in putting' => TurnJob(u) \in putting
    BY <1>4 DEF Pause, StopHost, StopSentinel, Tick, Veto, ApproveProposal
  <2>2. state' = state /\ jobs' = jobs /\ job' = job /\ pc' = pc
    BY <1>4 DEF Pause, StopHost, Tick, Veto, ApproveProposal
  <2> QED
    BY <2>1, <2>2 DEF FreshInv, TurnAhead
<1>5. ASSUME NEW j \in Job, Put(j) PROVE FreshInv'
  <2>1. /\ jobs \in Seq(Job) /\ jobs' = Append(jobs, j) /\ j \in putting /\ putting' = putting \ {j}
        /\ UNCHANGED <<state, job, pc>>
    BY <1>5 DEF Put, TypeOK
  <2> QED
    BY <2>1, AppendAt DEF FreshInv, TurnAhead
<1>6. CASE TakeJob
  <2>1. /\ jobs \in Seq(Job) /\ jobs # << >> /\ job' = Head(jobs) /\ jobs' = Tail(jobs)
        /\ UNCHANGED <<state, putting>>
    BY <1>6 DEF TakeJob, TypeOK
  <2> QED
    BY <2>1, TailAt DEF FreshInv, TurnAhead
<1>7. CASE HandleTurn \/ AbsorbResult \/ FailActive \/ HandleResume \/ AwaitAgain
  <2>1. job.id \in Task /\ WorkingOn(job.id)
    BY <1>7, JobIsOfItsTask
    DEF HandleTurn, AbsorbResult, FailActive, HandleResume, AwaitAgain, WorkingOn, JobFits
  <2>2. /\ putting' = putting /\ jobs' = jobs /\ pc' \notin {"taken", "dispatch"}
        /\ \A u \in Task \ {job.id} : state'[u] = state[u]
    BY <1>7, <2>1 DEF HandleTurn, AbsorbResult, FailActive, HandleResume, AwaitAgain, TypeOK
  <2>3. \A u \in Task : TurnAhead(u)' => TurnAhead(u)
    BY <2>2 DEF TurnAhead
  <2>4. ASSUME NEW u \in Task, u = job.id PROVE ~(TurnAhead(u)')
    <3>1. TurnJob(u) \in JobsOf(u)
      BY DEF JobsOf
    <3>2. ~Putting(u) /\ ~Queued(u)
      BY <2>1, <2>4 DEF TicketInv, OnePlace
    <3>3. TurnJob(u) \notin putting /\ \A i \in 1..Len(jobs) : jobs[i] # TurnJob(u)
      BY <3>1, <3>2 DEF Putting, Queued
    <3> QED
      BY <2>2, <3>3 DEF TurnAhead
  <2>5. ASSUME NEW u \in Task, TurnAhead(u)' PROVE state'[u] = "queued"
    <3>1. u # job.id
      BY <2>4, <2>5
    <3>2. TurnAhead(u)
      BY <2>3, <2>5
    <3> QED
      BY <2>2, <3>1, <3>2 DEF FreshInv
  <2> QED
    BY <2>5 DEF FreshInv
<1>8. CASE \/ MarkBusy \/ Release \/ GovernPaused \/ TurnReturns \/ RecordApprovals \/ ResumeWithNote
           \/ (\E a \in Action : GovernHeld(a) \/ ApproveHeld(a))
           \/ HandleApproveProposal \/ CheckStatus \/ GateProposal \/ ExecuteProposal
           \/ MarkApproved \/ RecordApproval \/ HandlePropose \/ Propose \/ RecordProposals
  <2>1. /\ UNCHANGED <<state, putting, jobs>>
        /\ pc' \in {"taken", "dispatch"} => pc \in {"taken", "dispatch"} /\ job' = job
    BY <1>8 DEF MarkBusy, Release, GovernPaused, TurnReturns, RecordApprovals, ResumeWithNote, StartTurn,
       GovernHeld, ApproveHeld, HandleApproveProposal, CheckStatus, GateProposal, ExecuteProposal,
       MarkApproved, RecordApproval, HandlePropose, Propose, RecordProposals
  <2> QED
    BY <2>1 DEF FreshInv, TurnAhead
<1>9. CASE UNCHANGED vars
  BY <1>9 DEF vars, FreshInv, TurnAhead
<1> QED
  BY <1>2, <1>3, <1>4, <1>5, <1>6, <1>7, <1>8, <1>9 DEF Next, Caller, Worker

LEMMA HeldStep ==
  ASSUME TypeOK, JobFits, TicketInv, FreshInv, HeldInv, [Next]_vars
  PROVE  HeldInv'
<1> USE HostAssumption DEF tasks, queue, worker, deciding, history
<1>1. ASSUME NEW t \in Task, Submit(t) \/ Decline(t) \/ Approve(t) PROVE HeldInv'
  <2>1. /\ held' = held /\ owner' = owner /\ consumed' = consumed /\ ran' = ran
        /\ pc' = pc /\ job' = job /\ turn' = turn /\ todo' = todo
        /\ \A u \in Task \ {t} : state'[u] = state[u]
        /\ state'[t] \in {"queued", "cancelled", "running"}
        /\ state'[t] = "queued" => state[t] = "absent"
    BY <1>1 DEF Submit, Decline, Approve, TypeOK
  <2>2. \A a \in Action : owner[a] # NoId => owner[a] \in Task
    BY DEF TypeOK
  <2> QED
    BY <2>1, <2>2 DEF HeldInv
<1>2. CASE Resume
  BY <1>2 DEF Resume, Resumable, HeldInv, TypeOK
<1>3. CASE Pause \/ StopHost \/ Tick \/ (\E p \in Proposal : ApproveProposal(p)) \/ \E j \in Job : Put(j)
  BY <1>3 DEF Pause, StopHost, Tick, ApproveProposal, Put, HeldInv
<1>4. ASSUME NEW p \in Proposal, Veto(p) PROVE HeldInv'
  BY <1>4 DEF Veto, HeldInv
<1>5. CASE TakeJob \/ MarkBusy \/ Release
  BY <1>5 DEF TakeJob, MarkBusy, Release, HeldInv
<1>6. CASE HandleTurn
  <2>1. job.id \in Task /\ WorkingOn(job.id)
    BY <1>6, JobIsOfItsTask DEF HandleTurn, WorkingOn
  <2>2. state[job.id] = "queued"
    <3>1. job = TurnJob(job.id) /\ pc = "dispatch"
      BY <1>6, JobIsRecord DEF HandleTurn, TypeOK
    <3>2. TurnAhead(job.id)
      BY <3>1 DEF TurnAhead
    <3> QED
      BY <2>1, <3>2 DEF FreshInv
  <2>3. held[job.id] = {}
    BY <2>1, <2>2 DEF HeldInv
  <2>4. /\ state' = [state EXCEPT ![job.id] = "running"] /\ turn'.held = {}
        /\ UNCHANGED <<held, owner, consumed, ran, job>> /\ pc' = "turn"
    BY <1>6 DEF HandleTurn, StartTurn, NoTurn
  <2> QED
    BY <2>1, <2>2, <2>3, <2>4 DEF HeldInv, TypeOK
<1>7. ASSUME NEW a \in Action, GovernHeld(a) PROVE HeldInv'
  <2>1. job.id \in Task /\ WorkingOn(job.id)
    BY <1>7, JobIsOfItsTask DEF GovernHeld, WorkingOn, JobFits
  <2>2. /\ pc = "turn" /\ pc' = pc /\ job' = job /\ owner[a] = NoId /\ owner' = [owner EXCEPT ![a] = job.id]
        /\ turn' = [turn EXCEPT !.held = turn.held \cup {a}]
        /\ UNCHANGED <<state, held, consumed, ran, todo>>
    BY <1>7 DEF GovernHeld
  <2>3. owner'[a] = job.id /\ \A b \in Action \ {a} : owner'[b] = owner[b]
    BY <2>2 DEF TypeOK
  <2>4. turn'.held = turn.held \cup {a} /\ turn.held \subseteq Action
    BY <2>2 DEF TypeOK, TurnType
  <2>5. job.id # NoId /\ state[job.id] # "absent"
    BY <2>1 DEF TicketInv, Located, Active
  <2>6. \A t \in Task : a \notin held[t]
    BY <2>2 DEF HeldInv
  <2> QED
    BY <2>1, <2>2, <2>3, <2>4, <2>5, <2>6 DEF HeldInv, TypeOK
<1>8. CASE GovernPaused
  BY <1>8 DEF GovernPaused, HeldInv, TypeOK, TurnType
<1>9. CASE TurnReturns
  BY <1>9 DEF TurnReturns, HeldInv, TypeOK, TurnType
<1>10. CASE AbsorbResult
  BY <1>10, JobType DEF AbsorbResult, HeldAfter, StateAfter, HeldInv, TypeOK, TurnType, JobFits
<1>11. CASE FailActive
  BY <1>11, JobType DEF FailActive, HeldInv, TypeOK, JobFits
<1>12. ASSUME NEW a \in Action, ApproveHeld(a) PROVE HeldInv'
  BY <1>12, JobType DEF ApproveHeld, HeldInv, TypeOK, JobFits
<1>13. CASE HandleResume
  <2>1. job.id \in Task /\ WorkingOn(job.id)
    BY <1>13, JobIsOfItsTask DEF HandleResume, WorkingOn
  <2>2. /\ state' = [state EXCEPT ![job.id] = "running"]
        /\ UNCHANGED <<held, owner, consumed, ran, job>>
    BY <1>13, <2>1 DEF HandleResume, TicketInv, Located
  <2>3. \/ pc' = "turn" /\ held[job.id] = {} /\ turn' = NoTurn
        \/ pc' = "approving" /\ todo' = held[job.id]
    BY <1>13, <2>1 DEF HandleResume, StartTurn, TicketInv, Located
  <2> QED
    BY <2>1, <2>2, <2>3 DEF NoTurn, HeldInv, TypeOK
<1>14. CASE RecordApprovals
  BY <1>14, JobType DEF RecordApprovals, Remaining, HeldInv, TypeOK, JobFits
<1>15. CASE AwaitAgain
  BY <1>15, JobType DEF AwaitAgain, HeldInv, TypeOK, JobFits
<1>16. CASE ResumeWithNote
  BY <1>16 DEF ResumeWithNote, StartTurn, NoTurn, HeldInv
<1>17. CASE HandleApproveProposal \/ CheckStatus \/ ExecuteProposal \/ MarkApproved \/ RecordApproval
            \/ HandlePropose \/ Propose \/ RecordProposals
  BY <1>17 DEF HandleApproveProposal, CheckStatus, ExecuteProposal, MarkApproved, RecordApproval,
                HandlePropose, Propose, RecordProposals, HeldInv
<1>18. CASE GateProposal
  BY <1>18, JobType DEF GateProposal, HeldInv, TypeOK, JobFits
<1>19. CASE UNCHANGED vars
  BY <1>19 DEF vars, HeldInv
<1> QED
  BY <1>1, <1>2, <1>3, <1>4, <1>5, <1>6, <1>7, <1>8, <1>9, <1>10, <1>11, <1>12,
     <1>13, <1>14, <1>15, <1>16, <1>17, <1>18, <1>19
  DEF Next, Caller, Worker

LEMMA SurfacedStep ==
  ASSUME TypeOK, JobFits, SurfacedInv, [Next]_vars
  PROVE  SurfacedInv'
<1> USE HostAssumption DEF tasks, queue, worker, deciding, history
<1>1. CASE (\E t \in Task : Submit(t) \/ Decline(t) \/ Approve(t)) \/ Resume \/ Pause \/ StopHost \/ Tick
  <2>1. \A p \in Proposal : ApproveJob(p) \in putting' <=> ApproveJob(p) \in putting
    <3>1. CASE \E t \in Task : Submit(t) \/ Decline(t) \/ Approve(t)
      BY <3>1 DEF Submit, Decline, Approve
    <3>2. CASE Resume
      BY <3>2 DEF Resume, ResumeJobs
    <3>3. CASE Pause \/ StopHost \/ Tick
      BY <3>3 DEF Pause, StopHost, StopSentinel, Tick
    <3> QED
      BY <1>1, <3>1, <3>2, <3>3
  <2>2. jobs' = jobs /\ job' = job
    BY <1>1 DEF Submit, Decline, Approve, Resume, Pause, StopHost, Tick
  <2>3. \A p \in Proposal : ApprovalOf(p)' <=> ApprovalOf(p)
    BY <2>1, <2>2 DEF ApprovalOf
  <2> QED
    BY <1>1, <2>3 DEF Submit, Decline, Approve, Resume, Pause, StopHost, Tick, SurfacedInv
<1>2. ASSUME NEW p \in Proposal, Veto(p) PROVE SurfacedInv'
  <2>1. \A q \in Proposal : ApprovalOf(q)' <=> ApprovalOf(q)
    BY <1>2 DEF Veto, ApprovalOf
  <2> QED
    BY <1>2, <2>1 DEF Veto, SurfacedInv, TypeOK
<1>3. ASSUME NEW p \in Proposal, ApproveProposal(p) PROVE SurfacedInv'
  <2>1. \A q \in Proposal : ApprovalOf(q)' => ApprovalOf(q) \/ q = p
    <3>1. /\ jobs' = jobs /\ job' = job
          /\ \A q \in Proposal : ApproveJob(q) \in putting' => ApproveJob(q) \in putting \/ q = p
      BY <1>3 DEF ApproveProposal
    <3> QED
      BY <3>1 DEF ApprovalOf
  <2> QED
    BY <1>3, <2>1 DEF ApproveProposal, SurfacedInv
<1>4. ASSUME NEW j \in Job, Put(j) PROVE SurfacedInv'
  <2>1. jobs \in Seq(Job) /\ jobs' = Append(jobs, j) /\ j \in putting /\ putting' = putting \ {j} /\ job' = job
    BY <1>4 DEF Put, TypeOK
  <2>2. \A q \in Proposal : ApprovalOf(q)' => ApprovalOf(q)
    BY <2>1, AppendAt DEF ApprovalOf
  <2> QED
    BY <1>4, <2>2 DEF Put, SurfacedInv
<1>5. CASE TakeJob
  <2>1. jobs \in Seq(Job) /\ jobs # << >> /\ job' = Head(jobs) /\ jobs' = Tail(jobs) /\ putting' = putting
    BY <1>5 DEF TakeJob, TypeOK
  <2>2. \A q \in Proposal : ApprovalOf(q)' => ApprovalOf(q)
    BY <2>1, TailAt DEF ApprovalOf
  <2> QED
    BY <1>5, <2>2 DEF TakeJob, SurfacedInv
<1>6. CASE \/ MarkBusy \/ Release \/ HandleTurn \/ GovernPaused \/ TurnReturns \/ AbsorbResult \/ FailActive
           \/ HandleResume \/ RecordApprovals \/ AwaitAgain \/ ResumeWithNote
           \/ HandleApproveProposal \/ CheckStatus \/ ExecuteProposal \/ RecordApproval
           \/ HandlePropose \/ UNCHANGED vars
  <2>1. \A q \in Proposal : ApprovalOf(q)' => ApprovalOf(q)
    <3>1. jobs' = jobs /\ putting' = putting /\ (job' = job \/ job' = Stop)
      BY <1>6 DEF MarkBusy, Release, HandleTurn, GovernPaused, TurnReturns, AbsorbResult, FailActive,
         HandleResume, RecordApprovals, AwaitAgain, ResumeWithNote, HandleApproveProposal, CheckStatus,
         ExecuteProposal, RecordApproval, HandlePropose, vars
    <3> QED
      BY <3>1 DEF ApprovalOf
  <2>2. proposal' = proposal /\ consumed' = consumed /\ vetoed' = vetoed
    BY <1>6 DEF MarkBusy, Release, HandleTurn, GovernPaused, TurnReturns, AbsorbResult, FailActive,
       HandleResume, RecordApprovals, AwaitAgain, ResumeWithNote, HandleApproveProposal, CheckStatus,
       ExecuteProposal, RecordApproval, HandlePropose, vars
  <2>3. /\ pc' \in {"idle", "taken", "dispatch", "proposing"} => todo' = {}
        /\ pc' = "index" => pc = "index" /\ todo' = todo
    BY <1>6 DEF MarkBusy, Release, HandleTurn, GovernPaused, TurnReturns, AbsorbResult, FailActive,
       HandleResume, RecordApprovals, AwaitAgain, ResumeWithNote, HandleApproveProposal, CheckStatus,
       ExecuteProposal, RecordApproval, HandlePropose, vars, SurfacedInv
  <2> QED
    BY <2>1, <2>2, <2>3 DEF SurfacedInv
<1>7. ASSUME NEW a \in Action, GovernHeld(a) \/ ApproveHeld(a) PROVE SurfacedInv'
  <2>1. \A q \in Proposal : ApprovalOf(q)' <=> ApprovalOf(q)
    BY <1>7 DEF GovernHeld, ApproveHeld, ApprovalOf
  <2>2. \A q \in Proposal : q \in consumed' <=> q \in consumed
    BY <1>7 DEF GovernHeld, ApproveHeld
  <2> QED
    BY <1>7, <2>1, <2>2 DEF GovernHeld, ApproveHeld, SurfacedInv
<1>8. CASE GateProposal
  <2>1. \A q \in Proposal : ApprovalOf(q)' <=> ApprovalOf(q)
    BY <1>8 DEF GateProposal, ApprovalOf
  <2>2. job \in Job /\ job.kind = "approve"
    BY <1>8 DEF GateProposal, TypeOK, JobFits
  <2>3. job.id \in Proposal /\ job = ApproveJob(job.id)
    BY <2>2, JobIsRecord, JobType
  <2>4. ApprovalOf(job.id)
    BY <2>3 DEF ApprovalOf
  <2> QED
    BY <1>8, <2>1, <2>3, <2>4 DEF GateProposal, SurfacedInv
<1>9. CASE MarkApproved
  <2>1. \A q \in Proposal : ApprovalOf(q)' <=> ApprovalOf(q)
    BY <1>9 DEF MarkApproved, ApprovalOf
  <2> QED
    BY <1>9, <2>1 DEF MarkApproved, SurfacedInv, TypeOK
<1>10. CASE Propose
  <2>1. \A q \in Proposal : ApprovalOf(q)' <=> ApprovalOf(q)
    BY <1>10 DEF Propose, ApprovalOf
  <2>2. \A p \in todo' : p \in Proposal /\ proposal[p] = "absent"
    BY <1>10 DEF Propose, SurfacedInv
  <2> QED
    BY <1>10, <2>1, <2>2 DEF Propose, SurfacedInv
<1>11. CASE RecordProposals
  <2>1. \A q \in Proposal : ApprovalOf(q)' <=> ApprovalOf(q)
    BY <1>11 DEF RecordProposals, ApprovalOf
  <2> QED
    BY <1>11, <2>1 DEF RecordProposals, SurfacedInv
<1> QED
  BY <1>1, <1>2, <1>3, <1>4, <1>5, <1>6, <1>7, <1>8, <1>9, <1>10, <1>11 DEF Next, Caller, Worker

-----------------------------------------------------------------------------
\* the two halves of Promise, and what they owe to which variables

LEMMA PromiseAt ==
  /\ \A p \in Proposal : Promise[p] = ProposalPromise(p) /\ Promise'[p] = ProposalPromise(p)'
  /\ \A a \in Action : Promise[a] = ActionPromise(a) /\ Promise'[a] = ActionPromise(a)'
  BY HostAssumption DEF Promise

LEMMA Becomes ==
  ASSUME NEW S \in SUBSET Decided, NEW from, NEW to,
         \A d \in S : Promise[d] \in from,
         \A d \in Decided : Promise'[d] = IF d \in S THEN to ELSE Promise[d]
  PROVE  A!Become(S, from, to)
<1>1. Promise' = [d \in Decided |-> Promise'[d]]
  BY DEF Promise, Decided
<1>2. Promise' = [d \in Decided |-> IF d \in S THEN to ELSE Promise[d]]
  BY <1>1
<1> QED
  BY <1>2 DEF A!Become, Decided

LEMMA ActionsBecome ==
  ASSUME NEW S \in SUBSET Action, NEW from, NEW to,
         \A a \in S : ActionPromise(a) \in from,
         \A a \in Action : ActionPromise(a)' = IF a \in S THEN to ELSE ActionPromise(a),
         \A p \in Proposal : ProposalPromise(p)' = ProposalPromise(p)
  PROVE  A!Become(S, from, to)
<1>1. S \in SUBSET Decided
  BY DEF Decided
<1>2. \A d \in S : Promise[d] \in from
  BY PromiseAt
<1>3. \A d \in Decided : Promise'[d] = IF d \in S THEN to ELSE Promise[d]
  BY PromiseAt, HostAssumption DEF Decided
<1> QED
  BY <1>1, <1>2, <1>3, Becomes

LEMMA ProposalsBecome ==
  ASSUME NEW S \in SUBSET Proposal, NEW from, NEW to,
         \A p \in S : ProposalPromise(p) \in from,
         \A p \in Proposal : ProposalPromise(p)' = IF p \in S THEN to ELSE ProposalPromise(p),
         \A a \in Action : ActionPromise(a)' = ActionPromise(a)
  PROVE  A!Become(S, from, to)
<1>1. S \in SUBSET Decided
  BY DEF Decided
<1>2. \A d \in S : Promise[d] \in from
  BY PromiseAt
<1>3. \A d \in Decided : Promise'[d] = IF d \in S THEN to ELSE Promise[d]
  BY PromiseAt, HostAssumption DEF Decided
<1> QED
  BY <1>1, <1>2, <1>3, Becomes

LEMMA PromiseKept ==
  ASSUME \A a \in Action : ActionPromise(a)' = ActionPromise(a),
         \A p \in Proposal : ProposalPromise(p)' = ProposalPromise(p)
  PROVE  Promise' = Promise
<1>1. Promise' = [d \in Decided |-> Promise'[d]] /\ Promise = [d \in Decided |-> Promise[d]]
  BY DEF Promise, Decided
<1>2. \A d \in Decided : Promise'[d] = Promise[d]
  BY PromiseAt DEF Decided
<1> QED
  BY <1>1, <1>2

\* the worker holds an approval of a proposal it has not yet finished with
Gating == {"taken", "dispatch", "check", "gate", "execute", "mark"}

LEMMA ProposalsKept ==
  ASSUME proposal' = proposal, vetoed' = vetoed, jobs' = jobs,
         \A p \in Proposal : /\ p \in consumed' <=> p \in consumed
                             /\ runs'[p] = runs[p]
                             /\ ApproveJob(p) \in putting' <=> ApproveJob(p) \in putting,
         \/ job' = job /\ pc' = pc
         \/ job' = job /\ pc = "taken" /\ pc' = "dispatch"
         \/ pc \notin Gating /\ pc' \notin Gating
         \/ job.kind # "approve" /\ job'.kind # "approve"
  PROVE  \A p \in Proposal : ProposalPromise(p)' = ProposalPromise(p)
<1> SUFFICES ASSUME NEW p \in Proposal PROVE ProposalPromise(p)' = ProposalPromise(p)
  OBVIOUS
<1>1. /\ Approving(p)' <=> Approving(p)
      /\ (pc = "execute" /\ job = ApproveJob(p))' <=> (pc = "execute" /\ job = ApproveJob(p))
      /\ (pc = "mark" /\ job = ApproveJob(p))' <=> (pc = "mark" /\ job = ApproveJob(p))
  BY DEF Approving, Gating
<1> QED
  BY <1>1 DEF ProposalPromise

LEMMA ActionsKept ==
  ASSUME owner \in [Action -> Task \cup {NoId}], owner' = owner,
         \A a \in Action : a \in consumed' <=> a \in consumed,
         \A a \in Action : owner[a] # NoId /\ a \notin consumed =>
           /\ state'[owner[a]] \in Terminal <=> state[owner[a]] \in Terminal
           /\ InTurn(a)' <=> InTurn(a)
           /\ a \in held'[owner[a]] <=> a \in held[owner[a]]
           /\ a \in held[owner[a]] =>
                (state'[owner[a]] \in Active <=> state[owner[a]] \in Active)
  PROVE  \A a \in Action : ActionPromise(a)' = ActionPromise(a)
  BY DEF ActionPromise

LEMMA InTurnKept ==
  ASSUME owner' = owner,
         \/ job' = job /\ pc' = pc /\ turn'.held = turn.held
         \/ pc \notin {"turn", "absorb"} /\ pc' \notin {"turn", "absorb"}
         \/ pc \notin {"turn", "absorb"} /\ turn'.held = {}
         \/ job' = job /\ pc = "turn" /\ pc' = "absorb" /\ turn'.held = turn.held
  PROVE  \A a \in Action : InTurn(a)' <=> InTurn(a)
  BY DEF InTurn, WorkingOn

\* a step on which no task, decision or turn moves
LEMMA ActionsStill ==
  ASSUME owner \in [Action -> Task \cup {NoId}], owner' = owner, state' = state, held' = held,
         \A a \in Action : a \in consumed' <=> a \in consumed,
         \/ job' = job /\ pc' = pc /\ turn'.held = turn.held
         \/ pc \notin {"turn", "absorb"} /\ pc' \notin {"turn", "absorb"}
         \/ pc \notin {"turn", "absorb"} /\ turn'.held = {}
         \/ job' = job /\ pc = "turn" /\ pc' = "absorb" /\ turn'.held = turn.held
  PROVE  \A a \in Action : ActionPromise(a)' = ActionPromise(a)
<1>1. \A a \in Action : InTurn(a)' <=> InTurn(a)
  BY InTurnKept
<1> QED
  BY <1>1, ActionsKept

-----------------------------------------------------------------------------
PromiseInv ==
  /\ TypeOK /\ JobFits /\ TicketInv /\ SingleUseInv
  /\ FreshInv /\ HeldInv /\ SurfacedInv

LEMMA PromiseHolds == Spec => []PromiseInv
<1>1. Init => FreshInv /\ HeldInv /\ SurfacedInv
  BY FreshInit, HeldInit, SurfacedInit
<1>2. TypeOK /\ JobFits /\ TicketInv /\ FreshInv /\ HeldInv /\ SurfacedInv /\ [Next]_vars
        => FreshInv' /\ HeldInv' /\ SurfacedInv'
  BY FreshStep, HeldStep, SurfacedStep
<1> QED
  BY <1>1, <1>2, TicketInvariant, SingleUseInvariant, PTL DEF Spec, PromiseInv

\* what the callers and the ticker do to the promise
LEMMA CallersKeepIt ==
  ASSUME PromiseInv, PromiseInv', Caller \/ Tick
  PROVE  A!Next \/ UNCHANGED A!vars
<1> USE HostAssumption DEF tasks, queue, worker, deciding, history
<1>1. /\ owner \in [Action -> Task \cup {NoId}] /\ state \in [Task -> TaskState]
      /\ held \in [Task -> SUBSET Action]
      /\ proposal \in [Proposal -> ProposalStatus]
  BY DEF PromiseInv, TypeOK
<1>2. \A a \in Action : owner[a] # NoId => owner[a] \in Task
  BY <1>1
<1>3. ASSUME NEW t \in Task, Submit(t) PROVE UNCHANGED A!vars
  <2>1. \A p \in Proposal : ProposalPromise(p)' = ProposalPromise(p)
    BY <1>3, ProposalsKept DEF Submit
  <2>2. \A a \in Action : owner[a] # NoId => owner[a] # t
    BY <1>3 DEF Submit, PromiseInv, HeldInv
  <2>3. \A u \in Task \ {t} : state'[u] = state[u]
    BY <1>1, <1>3 DEF Submit
  <2>4. \A a \in Action : InTurn(a)' <=> InTurn(a)
    BY <1>3, InTurnKept DEF Submit
  <2>5. \A a \in Action : ActionPromise(a)' = ActionPromise(a)
    BY <1>1, <1>2, <1>3, <2>2, <2>3, <2>4, ActionsKept DEF Submit
  <2> QED
    BY <1>3, <2>1, <2>5, PromiseKept DEF Submit, A!vars
<1>4. ASSUME NEW t \in Task, Decline(t) PROVE A!Next
  <2> DEFINE S == {a \in held[t] : a \notin consumed}
  <2>1. /\ S \in SUBSET Action /\ \A a \in S : owner[a] = t
        /\ state[t] = "awaiting_approval" /\ state' = [state EXCEPT ![t] = "cancelled"]
    BY <1>1, <1>4 DEF Decline, MayDecline, PromiseInv, HeldInv
  <2>2. \A a \in Action : owner[a] = t => ~InTurn(a)
    BY <2>1 DEF InTurn, PromiseInv, TicketInv, Located, Active
  <2>3. \A p \in Proposal : ProposalPromise(p)' = ProposalPromise(p)
    BY <1>4, ProposalsKept DEF Decline
  <2>4. \A a \in Action : InTurn(a)' <=> InTurn(a)
    BY <1>4, InTurnKept DEF Decline
  <2>5. \A a \in S : ActionPromise(a) = "held"
    BY <2>1, <2>2 DEF ActionPromise, Active, Terminal
  <2>6. ASSUME NEW a \in Action PROVE ActionPromise(a)' = IF a \in S THEN "retired" ELSE ActionPromise(a)
    <3>1. CASE owner[a] = t
      BY <1>1, <1>4, <2>1, <2>2, <2>4, <3>1 DEF Decline, ActionPromise, Active, Terminal
    <3>2. CASE owner[a] # t
      BY <1>1, <1>2, <1>4, <2>1, <2>4, <3>2 DEF Decline, ActionPromise
    <3> QED
      BY <3>1, <3>2
  <2>7. A!Become(S, {"held", "approved", "spent"}, "retired")
    BY <2>1, <2>3, <2>5, <2>6, ActionsBecome
  <2> QED
    BY <1>4, <2>1, <2>7 DEF Decline, A!Next, A!Retire
<1>5. ASSUME NEW t \in Task, Approve(t) PROVE A!Next
  <2> DEFINE S == {a \in held[t] : a \notin consumed}
  <2>1. /\ S \in SUBSET Action /\ \A a \in S : owner[a] = t
        /\ state[t] = "awaiting_approval" /\ state' = [state EXCEPT ![t] = "running"]
    BY <1>1, <1>5 DEF Approve, MayApprove, PromiseInv, HeldInv
  <2>2. \A a \in Action : owner[a] = t => ~InTurn(a)
    BY <2>1 DEF InTurn, PromiseInv, TicketInv, Located, Active
  <2>3. \A p \in Proposal : ProposalPromise(p)' = ProposalPromise(p)
    BY <1>5, ProposalsKept DEF Approve
  <2>4. \A a \in Action : InTurn(a)' <=> InTurn(a)
    BY <1>5, InTurnKept DEF Approve
  <2>5. \A a \in S : ActionPromise(a) = "held"
    BY <2>1, <2>2 DEF ActionPromise, Active, Terminal
  <2>6. ASSUME NEW a \in Action PROVE ActionPromise(a)' = IF a \in S THEN "approved" ELSE ActionPromise(a)
    <3>1. CASE owner[a] = t
      BY <1>1, <1>5, <2>1, <2>2, <2>4, <3>1 DEF Approve, ActionPromise, Active, Terminal
    <3>2. CASE owner[a] # t
      BY <1>1, <1>2, <1>5, <2>1, <2>4, <3>2 DEF Approve, ActionPromise
    <3> QED
      BY <3>1, <3>2
  <2>7. A!Become(S, {"held"}, "approved")
    BY <2>1, <2>3, <2>5, <2>6, ActionsBecome
  <2> QED
    BY <1>5, <2>1, <2>7 DEF Approve, A!Next, A!Approve
<1>6. CASE Resume
  <2>1. \A p \in Proposal : ProposalPromise(p)' = ProposalPromise(p)
    <3>1. \A p \in Proposal : ApproveJob(p) \in putting' <=> ApproveJob(p) \in putting
      BY <1>6 DEF Resume, ResumeJobs
    <3> QED
      BY <1>6, <3>1, ProposalsKept DEF Resume
  <2>2. \A a \in Action : InTurn(a)' <=> InTurn(a)
    BY <1>6, InTurnKept DEF Resume
  <2>3. \A u \in Task : /\ state'[u] \in Terminal <=> state[u] \in Terminal
                        /\ held[u] # {} => state'[u] = state[u]
    BY <1>6 DEF Resume, Resumable, PromiseInv, HeldInv, Terminal
  <2>4. \A a \in Action : ActionPromise(a)' = ActionPromise(a)
    BY <1>1, <1>2, <1>6, <2>2, <2>3, ActionsKept DEF Resume
  <2> QED
    BY <1>6, <2>1, <2>4, PromiseKept DEF Resume, A!vars
<1>7. CASE Pause \/ StopHost \/ Tick
  <2>1. \A p \in Proposal : ProposalPromise(p)' = ProposalPromise(p)
    <3>1. \A p \in Proposal : ApproveJob(p) \in putting' <=> ApproveJob(p) \in putting
      BY <1>7 DEF Pause, StopHost, StopSentinel, Tick
    <3> QED
      BY <1>7, <3>1, ProposalsKept DEF Pause, StopHost, Tick
  <2>2. \A a \in Action : ActionPromise(a)' = ActionPromise(a)
    BY <1>1, <1>7, ActionsStill DEF Pause, StopHost, Tick
  <2> QED
    BY <1>7, <2>1, <2>2, PromiseKept DEF Pause, StopHost, Tick, A!vars
<1>8. ASSUME NEW p \in Proposal, Veto(p) PROVE A!Next \/ UNCHANGED A!vars
  <2>1. \A a \in Action : ActionPromise(a)' = ActionPromise(a)
    BY <1>1, <1>8, ActionsStill DEF Veto
  <2>2. \A q \in Proposal : Approving(q)' <=> Approving(q)
    BY <1>8 DEF Veto, Approving
  <2>3. \A q \in Proposal \ {p} : ProposalPromise(q)' = ProposalPromise(q)
    BY <1>1, <1>8, <2>2 DEF Veto, ProposalPromise
  <2>4. proposal[p] = "proposed" /\ p \notin vetoed
    BY <1>8 DEF Veto, PromiseInv, SurfacedInv
  <2>5. CASE runs[p] > 0 \/ (pc = "execute" /\ job = ApproveJob(p))
    <3>1. ProposalPromise(p)' = ProposalPromise(p)
      BY <1>1, <1>8, <2>4, <2>5 DEF Veto, ProposalPromise
    <3>2. \A q \in Proposal : ProposalPromise(q)' = ProposalPromise(q)
      BY <2>3, <3>1
    <3> QED
      BY <1>8, <2>1, <3>2, PromiseKept DEF Veto, A!vars
  <2>6. CASE ~(runs[p] > 0 \/ (pc = "execute" /\ job = ApproveJob(p)))
    <3>1. ProposalPromise(p)' = "retired" /\ ProposalPromise(p) \in {"held", "approved", "spent"}
      BY <1>1, <1>8, <2>4, <2>6 DEF Veto, ProposalPromise
    <3>2. \A q \in Proposal : ProposalPromise(q)' = IF q \in {p} THEN "retired" ELSE ProposalPromise(q)
      BY <2>3, <3>1
    <3>3. {p} \in SUBSET Proposal
      OBVIOUS
    <3>4. A!Become({p}, {"held", "approved", "spent"}, "retired")
      BY <2>1, <3>1, <3>2, <3>3, ProposalsBecome
    <3> QED
      BY <1>8, <3>3, <3>4 DEF Veto, A!Next, A!Retire
  <2> QED
    BY <2>5, <2>6
<1>9. ASSUME NEW p \in Proposal, ApproveProposal(p) PROVE A!Next \/ UNCHANGED A!vars
  <2>1. \A a \in Action : ActionPromise(a)' = ActionPromise(a)
    BY <1>1, <1>9, ActionsStill DEF ApproveProposal
  <2>2. Approving(p)' /\ \A q \in Proposal \ {p} : Approving(q)' <=> Approving(q)
    <3>1. /\ jobs' = jobs /\ job' = job /\ pc' = pc /\ ApproveJob(p) \in putting'
          /\ \A q \in Proposal \ {p} : ApproveJob(q) \in putting' <=> ApproveJob(q) \in putting
      BY <1>9 DEF ApproveProposal
    <3> QED
      BY <3>1 DEF Approving
  <2>3. \A q \in Proposal \ {p} : ProposalPromise(q)' = ProposalPromise(q)
    BY <1>9, <2>2 DEF ApproveProposal, ProposalPromise
  <2>4. \/ ProposalPromise(p)' = ProposalPromise(p)
        \/ ProposalPromise(p) = "held" /\ ProposalPromise(p)' = "approved"
    BY <1>9, <2>2 DEF ApproveProposal, ProposalPromise
  <2>5. CASE ProposalPromise(p)' = ProposalPromise(p)
    <3>1. \A q \in Proposal : ProposalPromise(q)' = ProposalPromise(q)
      BY <2>3, <2>5
    <3> QED
      BY <1>9, <2>1, <3>1, PromiseKept DEF ApproveProposal, A!vars
  <2>6. CASE ProposalPromise(p) = "held" /\ ProposalPromise(p)' = "approved"
    <3>1. \A q \in Proposal : ProposalPromise(q)' = IF q \in {p} THEN "approved" ELSE ProposalPromise(q)
      BY <2>3, <2>6
    <3>2. {p} \in SUBSET Proposal
      OBVIOUS
    <3>3. A!Become({p}, {"held"}, "approved")
      BY <2>1, <2>6, <3>1, <3>2, ProposalsBecome
    <3> QED
      BY <1>9, <3>2, <3>3 DEF ApproveProposal, A!Next, A!Approve
  <2> QED
    BY <2>4, <2>5, <2>6
<1> QED
  BY <1>3, <1>4, <1>5, <1>6, <1>7, <1>8, <1>9 DEF Caller

\* what the worker does to the promise while it runs a task
LEMMA TurnKeepsIt ==
  ASSUME PromiseInv, PromiseInv',
         \/ TakeJob \/ MarkBusy \/ Release
         \/ HandleTurn \/ GovernPaused \/ TurnReturns \/ AbsorbResult \/ FailActive
         \/ \E a \in Action : GovernHeld(a)
         \/ HandleResume \/ RecordApprovals \/ ResumeWithNote
         \/ \E j \in Job : Put(j)
  PROVE  A!Next \/ UNCHANGED A!vars
<1> USE HostAssumption DEF tasks, queue, worker, deciding, history
<1>1. /\ owner \in [Action -> Task \cup {NoId}] /\ state \in [Task -> TaskState]
      /\ held \in [Task -> SUBSET Action] /\ turn \in TurnType /\ turn.held \in SUBSET Action
      /\ jobs \in Seq(Job) /\ job \in Job
  BY DEF PromiseInv, TypeOK, TurnType
<1>2. \A a \in Action : owner[a] # NoId => owner[a] \in Task
  BY <1>1
<1>3. CASE TakeJob
  <2>1. /\ pc = "idle" /\ job' = Head(jobs) /\ jobs' = Tail(jobs) /\ jobs # << >>
        /\ pc' = IF job'.kind = "stop" THEN "stopped" ELSE "taken"
        /\ UNCHANGED <<proposal, vetoed, consumed, runs, putting, owner, state, held, turn>>
    BY <1>3 DEF TakeJob
  <2>2. /\ Len(jobs) \in Nat \ {0} /\ Len(jobs') = Len(jobs) - 1 /\ job' = jobs[1]
        /\ \A i \in 1..Len(jobs') : jobs'[i] = jobs[i + 1] /\ i + 1 \in 1..Len(jobs)
    BY <1>1, <2>1, TailAt
  <2>3. DOMAIN jobs = 1..Len(jobs) /\ DOMAIN jobs' = 1..Len(jobs')
    BY <1>1, <2>1
  <2>4. ASSUME NEW p \in Proposal PROVE Approving(p)' <=> Approving(p)
    <3>1. ASSUME NEW i \in 1..Len(jobs), jobs[i] = ApproveJob(p) PROVE Approving(p)'
      <4>1. CASE i = 1
        BY <2>1, <2>2, <3>1, <4>1 DEF Approving
      <4>2. CASE i # 1
        <5>1. i - 1 \in 1..Len(jobs')
          BY <2>2, <4>2
        <5>2. jobs'[i - 1] = jobs[i]
          BY <2>2, <5>1
        <5> QED
          BY <2>3, <3>1, <5>1, <5>2 DEF Approving
      <4> QED
        BY <4>1, <4>2
    <3>2. ASSUME Approving(p)' PROVE Approving(p)
      <4>1. CASE job' = ApproveJob(p)
        <5>1. 1 \in DOMAIN jobs /\ jobs[1] = ApproveJob(p)
          BY <2>2, <2>3, <4>1
        <5> QED
          BY <5>1 DEF Approving
      <4>2. CASE job' # ApproveJob(p)
        BY <2>1, <2>2, <2>3, <3>2, <4>2 DEF Approving
      <4> QED
        BY <4>1, <4>2
    <3>3. Approving(p) => ApproveJob(p) \in putting \/ \E i \in 1..Len(jobs) : jobs[i] = ApproveJob(p)
      BY <2>1, <2>3 DEF Approving
    <3>4. ApproveJob(p) \in putting => Approving(p)'
      BY <2>1 DEF Approving
    <3> QED
      BY <3>1, <3>2, <3>3, <3>4
  <2>5. \A p \in Proposal : ProposalPromise(p)' = ProposalPromise(p)
    BY <2>1, <2>4 DEF ProposalPromise
  <2>6. \A a \in Action : ActionPromise(a)' = ActionPromise(a)
    BY <1>1, <2>1, ActionsStill
  <2> QED
    BY <2>1, <2>5, <2>6, PromiseKept DEF A!vars
<1>4. ASSUME NEW j \in Job, Put(j) PROVE UNCHANGED A!vars
  <2>1. /\ jobs' = Append(jobs, j) /\ j \in putting /\ putting' = putting \ {j}
        /\ UNCHANGED <<proposal, vetoed, consumed, runs, owner, state, held, turn, pc, job>>
    BY <1>4 DEF Put
  <2>2. /\ Len(jobs) \in Nat /\ Len(jobs') = Len(jobs) + 1 /\ jobs'[Len(jobs) + 1] = j
        /\ \A i \in 1..Len(jobs) : jobs'[i] = jobs[i]
    BY <1>1, <2>1, AppendAt
  <2>3. DOMAIN jobs = 1..Len(jobs) /\ DOMAIN jobs' = 1..Len(jobs')
    BY <1>1, <2>1
  <2>4. ASSUME NEW p \in Proposal PROVE Approving(p)' <=> Approving(p)
    <3>1. (\E i \in DOMAIN jobs' : jobs'[i] = ApproveJob(p))
            <=> (\E i \in DOMAIN jobs : jobs[i] = ApproveJob(p)) \/ j = ApproveJob(p)
      BY <2>2, <2>3
    <3> QED
      BY <2>1, <3>1 DEF Approving
  <2>5. \A p \in Proposal : ProposalPromise(p)' = ProposalPromise(p)
    BY <2>1, <2>4 DEF ProposalPromise
  <2>6. \A a \in Action : ActionPromise(a)' = ActionPromise(a)
    BY <1>1, <2>1, ActionsStill
  <2> QED
    BY <2>1, <2>5, <2>6, PromiseKept DEF A!vars
<1>5. CASE MarkBusy \/ Release \/ GovernPaused \/ TurnReturns
  <2>1. \A p \in Proposal : ProposalPromise(p)' = ProposalPromise(p)
    BY <1>5, ProposalsKept DEF MarkBusy, Release, GovernPaused, TurnReturns, Gating
  <2>2. turn'.held = turn.held \/ turn'.held = {}
    BY <1>1, <1>5 DEF MarkBusy, Release, GovernPaused, TurnReturns, NoTurn, TurnType
  <2>3. (GovernPaused \/ TurnReturns) => turn'.held = turn.held
    BY <1>1 DEF GovernPaused, TurnReturns, TurnType
  <2>4. \A a \in Action : ActionPromise(a)' = ActionPromise(a)
    BY <1>1, <1>5, <2>3, ActionsStill DEF MarkBusy, Release, GovernPaused, TurnReturns
  <2> QED
    BY <1>5, <2>1, <2>4, PromiseKept DEF MarkBusy, Release, GovernPaused, TurnReturns, A!vars
<1>6. CASE HandleTurn
  <2>1. job.id \in Task /\ WorkingOn(job.id)
    BY <1>6, JobIsOfItsTask DEF HandleTurn, WorkingOn, PromiseInv
  <2>2. state[job.id] = "queued"
    <3>1. job = TurnJob(job.id) /\ pc = "dispatch"
      BY <1>1, <1>6, JobIsRecord DEF HandleTurn
    <3> QED
      BY <2>1, <3>1 DEF PromiseInv, FreshInv, TurnAhead
  <2>3. \A p \in Proposal : ProposalPromise(p)' = ProposalPromise(p)
    BY <1>6, ProposalsKept DEF HandleTurn
  <2>4. turn'.held = {}
    BY <1>6 DEF HandleTurn, StartTurn, NoTurn
  <2>5. \A a \in Action : InTurn(a)' <=> InTurn(a)
    BY <1>6, <2>4, InTurnKept DEF HandleTurn
  <2>6. \A u \in Task : /\ state'[u] \in Terminal <=> state[u] \in Terminal
                        /\ state'[u] \in Active <=> state[u] \in Active
    BY <1>1, <1>6, <2>1, <2>2 DEF HandleTurn, Terminal, Active
  <2>7. \A a \in Action : ActionPromise(a)' = ActionPromise(a)
    BY <1>1, <1>2, <1>6, <2>5, <2>6, ActionsKept DEF HandleTurn
  <2> QED
    BY <1>6, <2>3, <2>7, PromiseKept DEF HandleTurn, A!vars
<1>7. ASSUME NEW a \in Action, GovernHeld(a) PROVE A!Next
  <2>1. job.id \in Task /\ WorkingOn(job.id)
    BY <1>7, JobIsOfItsTask DEF GovernHeld, WorkingOn, PromiseInv, JobFits
  <2>2. /\ pc = "turn" /\ owner[a] = NoId /\ owner' = [owner EXCEPT ![a] = job.id]
        /\ turn'.held = turn.held \cup {a} /\ state[job.id] \in Active
        /\ UNCHANGED <<state, held, consumed, job, pc, runs>>
    BY <1>1, <1>7, <2>1 DEF GovernHeld, TurnType, PromiseInv, TicketInv, Located
  <2>3. \A p \in Proposal : ProposalPromise(p)' = ProposalPromise(p)
    BY <1>7, ProposalsKept DEF GovernHeld
  <2>4. a \notin consumed /\ job.id # NoId
    BY <2>1, <2>2 DEF PromiseInv, HeldInv
  <2>5. owner'[a] = job.id /\ \A b \in Action \ {a} : owner'[b] = owner[b]
    BY <1>1, <2>2
  <2>6. ActionPromise(a) = "none"
    BY <2>2 DEF ActionPromise
  <2>7. ActionPromise(a)' = "held"
    BY <2>1, <2>2, <2>4, <2>5 DEF ActionPromise, InTurn, WorkingOn, Terminal, Active
  <2>8. ASSUME NEW b \in Action \ {a} PROVE ActionPromise(b)' = ActionPromise(b)
    <3>1. InTurn(b)' <=> InTurn(b)
      BY <2>2, <2>5 DEF InTurn, WorkingOn
    <3> QED
      BY <2>2, <2>5, <3>1 DEF ActionPromise
  <2>9. \A b \in Action : ActionPromise(b)' = IF b \in {a} THEN "held" ELSE ActionPromise(b)
    BY <2>7, <2>8
  <2>10. {a} \in SUBSET Action
    OBVIOUS
  <2>11. A!Become({a}, {"none"}, "held")
    BY <2>3, <2>6, <2>9, <2>10, ActionsBecome
  <2> QED
    BY <2>2, <2>10, <2>11 DEF A!Next, A!Hold
<1>8. CASE AbsorbResult \/ FailActive
  <2> DEFINE S == {a \in turn.held : a \notin consumed}
  <2>1. job.id \in Task /\ WorkingOn(job.id)
    BY <1>8, JobIsOfItsTask DEF AbsorbResult, FailActive, WorkingOn, PromiseInv, JobFits
  <2>2. /\ state[job.id] \in Active /\ held[job.id] = {} /\ pc \in {"turn", "absorb"}
        /\ \A a \in turn.held : owner[a] = job.id
    BY <1>8, <2>1 DEF AbsorbResult, FailActive, PromiseInv, TicketInv, Located, HeldInv
  <2>3. /\ UNCHANGED <<owner, consumed, runs, job>> /\ pc' = "release"
        /\ \A u \in Task \ {job.id} : state'[u] = state[u] /\ held'[u] = held[u]
    BY <1>1, <1>8 DEF AbsorbResult, FailActive
  <2>4. \A p \in Proposal : ProposalPromise(p)' = ProposalPromise(p)
    <3>1. pc \notin Gating /\ pc' \notin Gating
      BY <2>2, <2>3 DEF Gating
    <3> QED
      BY <1>8, <3>1, ProposalsKept DEF AbsorbResult, FailActive
  <2>5. \A a \in Action : ~InTurn(a)' /\ (owner[a] # job.id => ~InTurn(a))
    BY <2>3 DEF InTurn, WorkingOn, JobsOf
  <2>6. \A a \in Action : owner[a] # job.id => ActionPromise(a)' = ActionPromise(a)
    BY <1>2, <2>3, <2>5 DEF ActionPromise
  <2>7. \A a \in Action : owner[a] = job.id /\ a \notin consumed =>
          ActionPromise(a) = IF a \in turn.held THEN "held" ELSE "retired"
    BY <2>1, <2>2 DEF ActionPromise, InTurn, Terminal, Active
  <2>8. CASE AbsorbResult /\ turn.stop = "held"
    <3>1. held'[job.id] = turn.held /\ state'[job.id] = "awaiting_approval"
      BY <1>1, <2>1, <2>8 DEF AbsorbResult, HeldAfter, StateAfter
    <3>2. \A a \in Action : owner[a] = job.id => ActionPromise(a)' = ActionPromise(a)
      BY <2>1, <2>3, <2>5, <2>7, <3>1 DEF ActionPromise, Terminal, Active
    <3>3. \A a \in Action : ActionPromise(a)' = ActionPromise(a)
      BY <2>6, <3>2
    <3> QED
      BY <2>3, <2>4, <3>3, PromiseKept DEF A!vars
  <2>9. CASE FailActive \/ (AbsorbResult /\ turn.stop # "held")
    <3>1. held'[job.id] = {}
      BY <1>1, <2>1, <2>2, <2>9 DEF AbsorbResult, FailActive, HeldAfter
    <3>2. \A a \in Action : owner[a] = job.id /\ a \notin consumed => ActionPromise(a)' = "retired"
      BY <2>1, <2>3, <2>5, <3>1 DEF ActionPromise
    <3>3. \A a \in Action : owner[a] = job.id /\ a \in consumed => ActionPromise(a)' = ActionPromise(a)
      BY <2>3 DEF ActionPromise
    <3>4. S \in SUBSET Action /\ \A a \in S : owner[a] = job.id /\ ActionPromise(a) = "held"
      BY <1>1, <2>2, <2>7
    <3>5. \A a \in Action : ActionPromise(a)' = IF a \in S THEN "retired" ELSE ActionPromise(a)
      BY <2>2, <2>6, <2>7, <3>2, <3>3
    <3>6. A!Become(S, {"held", "approved", "spent"}, "retired")
      BY <2>4, <3>4, <3>5, ActionsBecome
    <3> QED
      BY <2>3, <3>4, <3>6 DEF A!Next, A!Retire
  <2> QED
    BY <1>8, <2>8, <2>9
<1>9. CASE HandleResume
  <2>1. job.id \in Task /\ WorkingOn(job.id)
    BY <1>9, JobIsOfItsTask DEF HandleResume, WorkingOn, PromiseInv
  <2>2. state[job.id] \in Active
    BY <2>1 DEF PromiseInv, TicketInv, Located
  <2>3. \A p \in Proposal : ProposalPromise(p)' = ProposalPromise(p)
    BY <1>9, ProposalsKept DEF HandleResume
  <2>4. turn'.held = {} \/ pc' = "approving"
    BY <1>9, <2>2 DEF HandleResume, StartTurn, NoTurn
  <2>5. \A a \in Action : InTurn(a)' <=> InTurn(a)
    BY <1>9, <2>4, InTurnKept DEF HandleResume
  <2>6. \A u \in Task : /\ state'[u] \in Terminal <=> state[u] \in Terminal
                        /\ state'[u] \in Active <=> state[u] \in Active
    BY <1>1, <1>9, <2>1, <2>2 DEF HandleResume, Terminal, Active
  <2>7. \A a \in Action : ActionPromise(a)' = ActionPromise(a)
    BY <1>1, <1>2, <1>9, <2>5, <2>6, ActionsKept DEF HandleResume
  <2> QED
    BY <1>9, <2>3, <2>7, PromiseKept DEF HandleResume, A!vars
<1>10. CASE RecordApprovals
  <2>1. job.id \in Task
    BY <1>10, JobIsOfItsTask DEF RecordApprovals, PromiseInv, JobFits
  <2>2. \A p \in Proposal : ProposalPromise(p)' = ProposalPromise(p)
    BY <1>10, ProposalsKept DEF RecordApprovals, Gating
  <2>3. \A a \in Action : InTurn(a)' <=> InTurn(a)
    BY <1>10, InTurnKept DEF RecordApprovals
  <2>4. \A u \in Task : \A a \in Action \ consumed : a \in held'[u] <=> a \in held[u]
    BY <1>1, <1>10, <2>1 DEF RecordApprovals, Remaining, PromiseInv, HeldInv
  <2>5. \A a \in Action : ActionPromise(a)' = ActionPromise(a)
    BY <1>1, <1>2, <1>10, <2>3, <2>4, ActionsKept DEF RecordApprovals
  <2> QED
    BY <1>10, <2>2, <2>5, PromiseKept DEF RecordApprovals, A!vars
<1>11. CASE ResumeWithNote
  <2>1. \A p \in Proposal : ProposalPromise(p)' = ProposalPromise(p)
    BY <1>11, ProposalsKept DEF ResumeWithNote, Gating
  <2>2. turn'.held = {}
    BY <1>11 DEF ResumeWithNote, StartTurn, NoTurn
  <2>3. \A a \in Action : ActionPromise(a)' = ActionPromise(a)
    BY <1>1, <1>11, <2>2, ActionsStill DEF ResumeWithNote
  <2> QED
    BY <1>11, <2>1, <2>3, PromiseKept DEF ResumeWithNote, A!vars
<1> QED
  BY <1>3, <1>4, <1>5, <1>6, <1>7, <1>8, <1>9, <1>10, <1>11

\* what the worker does to the promise while it approves held decisions
LEMMA ApprovingKeepsIt ==
  ASSUME PromiseInv, PromiseInv', AwaitAgain \/ \E a \in Action : ApproveHeld(a)
  PROVE  A!Next \/ UNCHANGED A!vars
<1> USE HostAssumption DEF tasks, queue, worker, deciding, history
<1>1. /\ owner \in [Action -> Task \cup {NoId}] /\ state \in [Task -> TaskState]
      /\ held \in [Task -> SUBSET Action] /\ job \in Job
      /\ runs \in [Action \cup Proposal -> Nat]
  BY DEF PromiseInv, TypeOK
<1>2. job.id \in Task /\ WorkingOn(job.id) /\ state[job.id] \in Active
  <2>1. job.kind = "resume" /\ pc \in {"approving", "await"}
    BY DEF AwaitAgain, ApproveHeld, PromiseInv, JobFits
  <2>2. job.id \in Task /\ WorkingOn(job.id)
    BY <2>1, JobIsOfItsTask DEF WorkingOn, PromiseInv
  <2> QED
    BY <2>2 DEF PromiseInv, TicketInv, Located
<1>3. \A a \in Action : ~InTurn(a) /\ ~InTurn(a)'
  BY DEF AwaitAgain, ApproveHeld, InTurn
<1>4. CASE AwaitAgain
  <2> DEFINE S == {a \in held[job.id] : a \notin consumed}
  <2>1. /\ S \in SUBSET Action /\ \A a \in S : owner[a] = job.id
        /\ state' = [state EXCEPT ![job.id] = "awaiting_approval"]
        /\ UNCHANGED <<owner, consumed, runs, held>>
    BY <1>1, <1>2, <1>4 DEF AwaitAgain, PromiseInv, HeldInv
  <2>2. \A p \in Proposal : ProposalPromise(p)' = ProposalPromise(p)
    BY <1>4, ProposalsKept DEF AwaitAgain, Gating
  <2>3. \A a \in S : ActionPromise(a) = "approved"
    BY <1>2, <1>3, <2>1 DEF ActionPromise, Active, Terminal
  <2>4. ASSUME NEW a \in Action PROVE ActionPromise(a)' = IF a \in S THEN "held" ELSE ActionPromise(a)
    <3>1. CASE owner[a] = job.id
      BY <1>1, <1>2, <1>3, <2>1, <3>1 DEF ActionPromise, Active, Terminal
    <3>2. CASE owner[a] # job.id
      BY <1>1, <1>3, <2>1, <3>2 DEF ActionPromise
    <3> QED
      BY <3>1, <3>2
  <2>5. A!Become(S, {"approved"}, "held")
    BY <2>1, <2>2, <2>3, <2>4, ActionsBecome
  <2> QED
    BY <2>1, <2>5 DEF A!Next, A!Refuse
<1>5. ASSUME NEW a \in Action, ApproveHeld(a) PROVE A!Next \/ UNCHANGED A!vars
  <2>1. /\ a \in held[job.id] /\ owner[a] = job.id
        /\ UNCHANGED <<owner, state, held, job, pc>>
    BY <1>1, <1>2, <1>5 DEF ApproveHeld, PromiseInv, HeldInv
  <2>2. CASE UNCHANGED <<consumed, runs>>
    <3>1. \A p \in Proposal : ProposalPromise(p)' = ProposalPromise(p)
      BY <1>5, <2>2, ProposalsKept DEF ApproveHeld
    <3>2. \A b \in Action : ActionPromise(b)' = ActionPromise(b)
      BY <1>1, <1>5, <2>1, <2>2, ActionsStill DEF ApproveHeld
    <3> QED
      BY <2>2, <3>1, <3>2, PromiseKept DEF A!vars
  <2>3. CASE ~UNCHANGED <<consumed, runs>>
    <3>1. /\ a \notin consumed /\ consumed' = consumed \cup {a}
          /\ runs' = runs \/ runs' = [runs EXCEPT ![a] = @ + 1]
      BY <1>5, <2>3 DEF ApproveHeld, Spent
    <3>2. runs[a] = 0
      BY <3>1 DEF PromiseInv, SingleUseInv
    <3>3. runs' = runs \/ runs' = [runs EXCEPT ![a] = 1]
      BY <1>1, <3>1, <3>2
    <3>4. \A p \in Proposal : runs'[p] = runs[p]
      BY <1>1, <3>3
    <3>5. \A p \in Proposal : ProposalPromise(p)' = ProposalPromise(p)
      BY <1>5, <3>1, <3>4, ProposalsKept DEF ApproveHeld
    <3>6. ActionPromise(a) = "approved" /\ ActionPromise(a)' = "spent"
      BY <1>2, <1>3, <2>1, <3>1 DEF ActionPromise, Active, Terminal
    <3>7. \A b \in Action : ActionPromise(b)' = IF b \in {a} THEN "spent" ELSE ActionPromise(b)
      BY <1>3, <2>1, <3>1, <3>6 DEF ActionPromise
    <3>8. {a} \in SUBSET Action
      OBVIOUS
    <3>9. A!Become({a}, {"approved"}, "spent")
      BY <3>5, <3>6, <3>7, <3>8, ActionsBecome
    <3> QED
      BY <3>2, <3>3, <3>9 DEF A!Next, A!Spend, A!Run
  <2> QED
    BY <2>2, <2>3
<1> QED
  BY <1>4, <1>5

\* what the worker does to the promise while it works on proposals
LEMMA ProposalsKeepIt ==
  ASSUME PromiseInv, PromiseInv',
         \/ HandleApproveProposal \/ CheckStatus \/ GateProposal \/ ExecuteProposal
         \/ MarkApproved \/ RecordApproval
         \/ HandlePropose \/ Propose \/ RecordProposals
  PROVE  A!Next \/ UNCHANGED A!vars
<1> USE HostAssumption DEF tasks, queue, worker, deciding, history
<1>1. /\ owner \in [Action -> Task \cup {NoId}] /\ job \in Job
      /\ proposal \in [Proposal -> ProposalStatus]
      /\ runs \in [Action \cup Proposal -> Nat]
  BY DEF PromiseInv, TypeOK
<1>2. \A a \in Action : ActionPromise(a)' = ActionPromise(a)
  <2>1. \A a \in Action : a \in consumed' <=> a \in consumed
    <3>1. CASE GateProposal
      <4>1. job.id \in Proposal
        BY <1>1, <3>1, JobType DEF GateProposal, PromiseInv, JobFits
      <4> QED
        BY <3>1, <4>1 DEF GateProposal
    <3>2. CASE ~GateProposal
      BY <3>2 DEF HandleApproveProposal, CheckStatus, ExecuteProposal, MarkApproved, RecordApproval,
                   HandlePropose, Propose, RecordProposals
    <3> QED
      BY <3>1, <3>2
  <2>2. pc \notin {"turn", "absorb"} /\ pc' \notin {"turn", "absorb"} /\ UNCHANGED <<owner, state, held>>
    BY DEF HandleApproveProposal, CheckStatus, GateProposal, ExecuteProposal, MarkApproved,
       RecordApproval, HandlePropose, Propose, RecordProposals
  <2> QED
    BY <1>1, <2>1, <2>2, ActionsStill
<1>3. CASE RecordApproval \/ HandlePropose \/ Propose
  <2>1. \A p \in Proposal : ProposalPromise(p)' = ProposalPromise(p)
    BY <1>3, ProposalsKept DEF RecordApproval, HandlePropose, Propose, Gating
  <2> QED
    BY <1>2, <1>3, <2>1, PromiseKept DEF RecordApproval, HandlePropose, Propose, A!vars
<1>4. CASE RecordProposals
  <2>1. /\ todo \in SUBSET Proposal /\ \A p \in todo : proposal[p] = "absent"
        /\ proposal' = [p \in Proposal |-> IF p \in todo THEN "proposed" ELSE proposal[p]]
        /\ pc = "index" /\ pc' = "release"
        /\ UNCHANGED <<vetoed, consumed, runs, putting, jobs, job>>
    BY <1>4 DEF RecordProposals, PromiseInv, SurfacedInv
  <2>2. \A p \in Proposal : Approving(p)' <=> Approving(p)
    BY <2>1 DEF Approving
  <2>3. ASSUME NEW p \in todo PROVE ProposalPromise(p) = "none" /\ ProposalPromise(p)' = "held"
    <3>1. /\ p \in Proposal /\ p \notin consumed /\ p \notin vetoed /\ ~ApprovalOf(p)
      BY <2>1 DEF PromiseInv, SurfacedInv
    <3>2. runs[p] = 0 /\ ~Approving(p)
      <4>1. DOMAIN jobs = 1..Len(jobs)
        BY DEF PromiseInv, TypeOK
      <4> QED
        BY <3>1, <4>1 DEF PromiseInv, SingleUseInv, Approving, ApprovalOf
    <3> QED
      BY <2>1, <2>2, <3>1, <3>2 DEF ProposalPromise
  <2>4. \A p \in Proposal \ todo : ProposalPromise(p)' = ProposalPromise(p)
    BY <2>1, <2>2 DEF ProposalPromise
  <2>5. \A p \in Proposal : ProposalPromise(p)' = IF p \in todo THEN "held" ELSE ProposalPromise(p)
    BY <2>3, <2>4
  <2>6. A!Become(todo, {"none"}, "held")
    BY <1>2, <2>1, <2>3, <2>5, ProposalsBecome
  <2> QED
    BY <2>1, <2>6 DEF A!Next, A!Hold
<1>5. CASE HandleApproveProposal \/ CheckStatus \/ GateProposal \/ ExecuteProposal \/ MarkApproved
  <2>1. /\ job.id \in Proposal /\ job = ApproveJob(job.id)
    <3>1. job.kind = "approve"
      BY <1>5 DEF HandleApproveProposal, CheckStatus, GateProposal, ExecuteProposal, MarkApproved,
         PromiseInv, JobFits
    <3> QED
      BY <1>1, <3>1, JobType, JobIsRecord
  <2>2. PICK p \in Proposal : p = job.id /\ job = ApproveJob(p)
    BY <2>1
  <2>3. /\ proposal[p] # "absent" /\ (proposal[p] = "vetoed" => p \in vetoed)
        /\ p \in vetoed => p \in consumed
        /\ p \notin consumed => runs[p] = 0
        /\ runs[p] \in Nat
    BY <1>1, <2>2 DEF PromiseInv, SurfacedInv, ApprovalOf, SingleUseInv
  <2>4. UNCHANGED <<vetoed, putting, jobs, job>>
    BY <1>5 DEF HandleApproveProposal, CheckStatus, GateProposal, ExecuteProposal, MarkApproved
  <2>5. \A q \in Proposal \ {p} : /\ job # ApproveJob(q) /\ (Approving(q)' <=> Approving(q))
    BY <2>2, <2>4 DEF Approving
  <2>6. \A q \in Proposal \ {p} : ProposalPromise(q)' = ProposalPromise(q)
    <3>1. \A q \in Proposal \ {p} : /\ proposal'[q] = proposal[q] /\ runs'[q] = runs[q]
                                    /\ q \in consumed' <=> q \in consumed
      BY <1>1, <1>5, <2>2
      DEF HandleApproveProposal, CheckStatus, GateProposal, ExecuteProposal, MarkApproved
    <3> QED
      BY <2>4, <2>5, <3>1 DEF ProposalPromise
  <2>7. ASSUME ProposalPromise(p)' = ProposalPromise(p) PROVE Promise' = Promise
    <3>1. \A q \in Proposal : ProposalPromise(q)' = ProposalPromise(q)
      BY <2>6, <2>7
    <3> QED
      BY <1>2, <3>1, PromiseKept
  <2>8. ASSUME NEW from, NEW to, ProposalPromise(p) \in from, ProposalPromise(p)' = to
        PROVE  A!Become({p}, from, to)
    <3>1. \A q \in Proposal : ProposalPromise(q)' = IF q \in {p} THEN to ELSE ProposalPromise(q)
      BY <2>6, <2>8
    <3>2. {p} \in SUBSET Proposal
      OBVIOUS
    <3> QED
      BY <1>2, <2>8, <3>1, <3>2, ProposalsBecome
  <2>9. ASSUME ProposalPromise(p) = "approved", ProposalPromise(p)' = "spent"
        PROVE  A!Become({p}, {"approved"}, "spent")
    <3>1. ProposalPromise(p) \in {"approved"}
      BY <2>9
    <3> QED
      BY <2>8, <2>9, <3>1
  <2>10. CASE HandleApproveProposal \/ CheckStatus
    <3>1. /\ pc \in {"dispatch", "check"}
          /\ pc' = "release" \/ pc' = "record" => proposal[p] # "proposed"
          /\ pc' \in {"check", "gate", "release", "record"}
          /\ UNCHANGED <<proposal, consumed, runs>>
      BY <2>2, <2>10 DEF HandleApproveProposal, CheckStatus
    <3>2. CASE proposal[p] = "proposed"
      <4>1. Approving(p) /\ Approving(p)'
        BY <2>2, <2>4, <3>1, <3>2 DEF Approving
      <4>2. ProposalPromise(p)' = ProposalPromise(p)
        BY <2>4, <3>1, <4>1 DEF ProposalPromise
      <4> QED
        BY <2>7, <3>1, <4>2 DEF A!vars
    <3>3. CASE proposal[p] # "proposed"
      <4>1. p \in vetoed \/ proposal[p] = "approved"
        BY <1>1, <2>3, <3>3 DEF ProposalStatus
      <4>2. ProposalPromise(p)' = ProposalPromise(p)
        BY <2>3, <2>4, <3>1, <4>1 DEF ProposalPromise
      <4> QED
        BY <2>7, <3>1, <4>2 DEF A!vars
    <3> QED
      BY <3>2, <3>3
  <2>11. CASE GateProposal
    <3>1. pc = "gate" /\ UNCHANGED <<proposal, runs>> /\ Approving(p)
      BY <2>2, <2>11 DEF GateProposal, Approving
    <3>2. ProposalPromise(p) \in {"spent", "retired", "approved"}
      BY <2>3, <3>1 DEF ProposalPromise
    <3>3. CASE pc' = "mark" /\ consumed' = consumed
      <4>1. \/ ProposalPromise(p)' = ProposalPromise(p)
            \/ ProposalPromise(p) = "approved" /\ ProposalPromise(p)' = "spent"
        BY <2>2, <2>3, <2>4, <3>1, <3>3 DEF ProposalPromise
      <4>2. CASE ProposalPromise(p)' = ProposalPromise(p)
        BY <2>7, <3>1, <4>2 DEF A!vars
      <4>3. CASE ProposalPromise(p) = "approved" /\ ProposalPromise(p)' = "spent"
        BY <3>1, <4>3, <2>9 DEF A!Next, A!Spend
      <4> QED
        BY <4>1, <4>2, <4>3
    <3>4. CASE pc' = "record" /\ consumed' = consumed /\ p \notin consumed
      <4>1. \/ ProposalPromise(p)' = ProposalPromise(p)
            \/ ProposalPromise(p) = "approved" /\ ProposalPromise(p)' = "held"
        BY <2>2, <2>3, <2>4, <3>1, <3>4 DEF ProposalPromise
      <4>2. CASE ProposalPromise(p)' = ProposalPromise(p)
        BY <2>7, <3>1, <4>2 DEF A!vars
      <4>3. CASE ProposalPromise(p) = "approved" /\ ProposalPromise(p)' = "held"
        <5>1. A!Become({p}, {"approved"}, "held")
          BY <2>8, <4>3
        <5>2. {p} \in SUBSET (Action \cup Proposal)
          OBVIOUS
        <5> QED
          BY <3>1, <5>1, <5>2 DEF A!Next, A!Refuse
      <4> QED
        BY <4>1, <4>2, <4>3
    <3>5. CASE pc' = "execute" /\ consumed' = consumed \cup {p} /\ p \notin consumed
      <4>1. \/ ProposalPromise(p)' = ProposalPromise(p)
            \/ ProposalPromise(p) = "approved" /\ ProposalPromise(p)' = "spent"
        BY <2>2, <2>3, <2>4, <3>1, <3>5 DEF ProposalPromise
      <4>2. CASE ProposalPromise(p)' = ProposalPromise(p)
        BY <2>7, <3>1, <4>2 DEF A!vars
      <4>3. CASE ProposalPromise(p) = "approved" /\ ProposalPromise(p)' = "spent"
        BY <3>1, <4>3, <2>9 DEF A!Next, A!Spend
      <4> QED
        BY <4>1, <4>2, <4>3
    <3> QED
      BY <2>2, <2>11, <3>3, <3>4, <3>5 DEF GateProposal, Spent
  <2>12. CASE ExecuteProposal
    <3>1. /\ pc = "execute" /\ pc' \in {"record", "mark"} /\ UNCHANGED <<proposal, consumed>>
          /\ p \in consumed /\ runs[p] = 0
          /\ runs' = runs \/ runs' = [runs EXCEPT ![p] = @ + 1]
      BY <2>2, <2>12 DEF ExecuteProposal, PromiseInv, SingleUseInv
    <3>2. ProposalPromise(p) = "spent"
      BY <2>2, <2>3, <3>1 DEF ProposalPromise
    <3>3. CASE runs' = runs
      <4>1. ProposalPromise(p)' \in {"spent", "retired"}
        BY <2>3, <2>4, <3>1, <3>3 DEF ProposalPromise
      <4>2. CASE ProposalPromise(p)' = "spent"
        BY <2>7, <3>2, <3>3, <4>2 DEF A!vars
      <4>3. CASE ProposalPromise(p)' = "retired"
        <5>1. A!Become({p}, {"held", "approved", "spent"}, "retired")
          BY <2>8, <3>2, <4>3
        <5>2. {p} \in SUBSET (Action \cup Proposal)
          OBVIOUS
        <5> QED
          BY <3>3, <5>1, <5>2 DEF A!Next, A!Retire
      <4> QED
        BY <4>1, <4>2, <4>3
    <3>4. CASE runs' # runs
      <4>1. runs' = [runs EXCEPT ![p] = 1] /\ runs'[p] = 1
        BY <1>1, <3>1, <3>4
      <4>2. ProposalPromise(p)' = "spent"
        BY <2>3, <3>1, <4>1 DEF ProposalPromise
      <4>3. Promise' = Promise /\ Promise[p] = "spent"
        BY <2>7, <3>2, <4>2, PromiseAt
      <4> QED
        BY <3>1, <4>1, <4>3 DEF A!Next, A!RunSpent, A!Run
    <3> QED
      BY <3>3, <3>4
  <2>13. CASE MarkApproved
    <3>1. pc = "mark" /\ pc' = "record" /\ proposal'[p] = "approved" /\ UNCHANGED <<consumed, runs>>
      BY <1>1, <2>2, <2>13 DEF MarkApproved
    <3>2. ProposalPromise(p)' = ProposalPromise(p)
      BY <2>2, <2>3, <2>4, <3>1 DEF ProposalPromise
    <3> QED
      BY <2>7, <3>1, <3>2 DEF A!vars
  <2> QED
    BY <1>5, <2>10, <2>11, <2>12, <2>13
<1> QED
  BY <1>3, <1>4, <1>5

(* The Host keeps its promise: every step of callers, ticker and worker is *)
(* a step of Approval, or one the human's view does not see.               *)
THEOREM HostKeepsItsPromise == Spec => ImplementsApproval
<1>1. Init => A!Init
  <2> SUFFICES ASSUME Init PROVE A!Init
    OBVIOUS
  <2>1. \A p \in Proposal : ProposalPromise(p) = "none"
    BY DEF Init, ProposalPromise
  <2>2. \A a \in Action : ActionPromise(a) = "none"
    BY DEF Init, ActionPromise
  <2>3. Promise = [d \in Action \cup Proposal |-> "none"]
    BY <2>1, <2>2 DEF Promise
  <2> QED
    BY <2>3 DEF Init, A!Init
<1>2. PromiseInv /\ PromiseInv' /\ [Next]_vars => [A!Next]_(A!vars)
  <2> SUFFICES ASSUME PromiseInv, PromiseInv', [Next]_vars PROVE A!Next \/ UNCHANGED A!vars
    OBVIOUS
  <2>1. CASE UNCHANGED vars
    <3>1. Promise' = Promise
      BY <2>1 DEF vars, tasks, queue, worker, deciding, history, Promise, ProposalPromise, ActionPromise,
         Approving, InTurn, WorkingOn
    <3> QED
      BY <2>1, <3>1 DEF vars, deciding, A!vars
  <2> QED
    BY <2>1, CallersKeepIt, TurnKeepsIt, ApprovingKeepsIt, ProposalsKeepIt DEF Next, Worker
<1> QED
  BY <1>1, <1>2, PromiseHolds, PTL DEF Spec, ImplementsApproval, A!Spec

-----------------------------------------------------------------------------
(* Without pauses, nothing held is dropped.                                *)

UnpausedInv == paused = FALSE /\ turn.paused = FALSE /\ turn.stop # "paused"

LEMMA UnpausedStep ==
  ASSUME ~CanPause, TypeOK, UnpausedInv, [Next]_vars
  PROVE  UnpausedInv'
<1> USE DEF tasks, queue, worker
<1>1. turn \in TurnType
  BY DEF TypeOK
<1>2. CASE Caller \/ Tick \/ \E j \in Job : Put(j)
  BY <1>2 DEF Caller, Submit, Decline, Approve, Pause, Resume, StopHost, Veto, ApproveProposal,
     Tick, Put, UnpausedInv
<1>3. CASE TurnReturns
  BY <1>1, <1>3 DEF TurnReturns, TurnType, UnpausedInv
<1>4. CASE Worker /\ ~TurnReturns
  BY <1>1, <1>4
  DEF Worker, TakeJob, MarkBusy, Release, HandleTurn, GovernPaused, AbsorbResult, FailActive, GovernHeld,
      ApproveHeld, HandleResume, RecordApprovals, AwaitAgain, ResumeWithNote, StartTurn, NoTurn, TurnType,
      HandleApproveProposal, CheckStatus, GateProposal, ExecuteProposal, MarkApproved, RecordApproval,
      HandlePropose, Propose, RecordProposals, UnpausedInv
<1>5. CASE UNCHANGED vars
  BY <1>5 DEF vars, UnpausedInv
<1> QED
  BY <1>2, <1>3, <1>4, <1>5 DEF Next

\* where a held decision that was neither consumed nor lost still is
Kept(a) ==
  \/ owner[a] = NoId \/ a \in consumed
  \/ state[owner[a]] \in Terminal
  \/ a \in held[owner[a]]
  \/ WorkingOn(owner[a]) /\ pc \in {"turn", "absorb"} /\ a \in turn.held

KeptInv == \A a \in Action : Kept(a)

LEMMA KeptStep ==
  ASSUME PromiseInv, PromiseInv', UnpausedInv, KeptInv, [Next]_vars
  PROVE  KeptInv'
<1> USE HostAssumption DEF tasks, queue, worker, deciding, history
<1>1. /\ owner \in [Action -> Task \cup {NoId}] /\ state \in [Task -> TaskState]
      /\ held \in [Task -> SUBSET Action] /\ turn \in TurnType /\ job \in Job
      /\ \A a \in Action : owner[a] # NoId => owner[a] \in Task
  BY DEF PromiseInv, TypeOK
<1>2. ASSUME consumed \subseteq consumed', owner' = owner,
             \A t \in Task : state[t] \in Terminal => state'[t] \in Terminal,
             \A t \in Task : \A a \in held[t] : a \in held'[t] \/ a \in consumed',
             \/ job' = job /\ pc' = pc /\ turn'.held = turn.held
             \/ pc \notin {"turn", "absorb"}
             \/ job' = job /\ pc = "turn" /\ pc' = "absorb" /\ turn'.held = turn.held
      PROVE  KeptInv'
  BY <1>1, <1>2 DEF KeptInv, Kept, WorkingOn
<1>3. CASE Caller \/ Tick \/ \E j \in Job : Put(j)
  <2>1. \A t \in Task : state[t] \in Terminal => state'[t] \in Terminal
    BY <1>1, <1>3 DEF Caller, Submit, Decline, Approve, Pause, Resume, Resumable, StopHost, Veto,
       ApproveProposal, Tick, Put, MayDecline, MayApprove, Terminal
  <2> QED
    BY <1>2, <1>3, <2>1 DEF Caller, Submit, Decline, Approve, Pause, Resume, StopHost, Veto,
       ApproveProposal, Tick, Put
<1>4. CASE TakeJob \/ MarkBusy \/ Release \/ GovernPaused \/ TurnReturns
  BY <1>1, <1>2, <1>4 DEF TakeJob, MarkBusy, Release, GovernPaused, TurnReturns, TurnType
<1>5. CASE HandleTurn \/ HandleResume \/ AwaitAgain
  <2>1. job.id \in Task /\ WorkingOn(job.id)
    BY <1>5, JobIsOfItsTask DEF HandleTurn, HandleResume, AwaitAgain, WorkingOn, PromiseInv, JobFits
  <2>2. state[job.id] \notin Terminal
    BY <2>1 DEF PromiseInv, TicketInv, Located, Active, Terminal
  <2>3. \A t \in Task : state[t] \in Terminal => state'[t] \in Terminal
    BY <1>1, <1>5, <2>2 DEF HandleTurn, HandleResume, AwaitAgain
  <2> QED
    BY <1>2, <1>5, <2>3 DEF HandleTurn, HandleResume, AwaitAgain
<1>6. ASSUME NEW a \in Action, GovernHeld(a) PROVE KeptInv'
  <2>1. job.id \in Task /\ WorkingOn(job.id)
    BY <1>6, JobIsOfItsTask DEF GovernHeld, WorkingOn, PromiseInv, JobFits
  <2>2. /\ pc = "turn" /\ owner' = [owner EXCEPT ![a] = job.id]
        /\ turn'.held = turn.held \cup {a}
        /\ UNCHANGED <<state, held, consumed, job, pc>>
    BY <1>1, <1>6 DEF GovernHeld, TurnType
  <2>3. owner'[a] = job.id /\ \A b \in Action \ {a} : owner'[b] = owner[b]
    BY <1>1, <2>2
  <2>4. Kept(a)'
    BY <2>1, <2>2, <2>3 DEF Kept, WorkingOn
  <2>5. \A b \in Action \ {a} : Kept(b)'
    BY <2>2, <2>3 DEF KeptInv, Kept, WorkingOn
  <2> QED
    BY <2>4, <2>5 DEF KeptInv
<1>7. CASE AbsorbResult \/ FailActive
  <2>1. job.id \in Task /\ WorkingOn(job.id)
    BY <1>7, JobIsOfItsTask DEF AbsorbResult, FailActive, WorkingOn, PromiseInv, JobFits
  <2>2. /\ UNCHANGED <<owner, consumed, job>>
        /\ \A u \in Task \ {job.id} : state'[u] = state[u] /\ held'[u] = held[u]
    BY <1>1, <1>7 DEF AbsorbResult, FailActive
  <2>3. \/ state'[job.id] \in Terminal
        \/ state'[job.id] = "awaiting_approval" /\ held'[job.id] = turn.held
    <3>1. CASE FailActive
      BY <1>1, <2>1, <3>1 DEF FailActive, Terminal
    <3>2. CASE AbsorbResult
      <4>1. /\ state'[job.id] = StateAfter(turn.stop) /\ held'[job.id] = HeldAfter(turn.stop)
        BY <1>1, <2>1, <3>2 DEF AbsorbResult
      <4>2. turn.stop \in {"none", "final", "empty", "max_iterations", "held"}
        BY <1>1 DEF UnpausedInv, TurnType
      <4> QED
        BY <4>1, <4>2 DEF StateAfter, HeldAfter, Terminal
    <3> QED
      BY <1>7, <3>1, <3>2
  <2>4. held[job.id] = {}
    BY <1>7 DEF AbsorbResult, FailActive, PromiseInv, HeldInv
  <2>5. ASSUME NEW a \in Action, owner[a] = job.id PROVE Kept(a)'
    <3>1. state[job.id] \notin Terminal
      BY <2>1 DEF PromiseInv, TicketInv, Located, Active, Terminal
    <3>2. a \in consumed \/ a \in turn.held
      BY <2>1, <2>4, <2>5, <3>1 DEF KeptInv, Kept
    <3> QED
      BY <2>2, <2>3, <2>5, <3>2 DEF Kept
  <2>6. ASSUME NEW a \in Action, owner[a] # job.id PROVE Kept(a)'
    <3>1. ~WorkingOn(owner[a])
      BY <2>6 DEF WorkingOn, JobsOf
    <3> QED
      BY <1>1, <2>2, <2>6, <3>1 DEF KeptInv, Kept
  <2> QED
    BY <2>5, <2>6 DEF KeptInv
<1>8. ASSUME NEW a \in Action, ApproveHeld(a) PROVE KeptInv'
  BY <1>2, <1>8 DEF ApproveHeld
<1>9. CASE RecordApprovals
  <2>1. \A t \in Task : \A a \in held[t] : a \in held'[t] \/ a \in consumed'
    BY <1>1, <1>9 DEF RecordApprovals, Remaining, PromiseInv, HeldInv
  <2> QED
    BY <1>2, <1>9, <2>1 DEF RecordApprovals
<1>10. CASE \/ ResumeWithNote
            \/ HandleApproveProposal \/ CheckStatus \/ GateProposal \/ ExecuteProposal
            \/ MarkApproved \/ RecordApproval \/ HandlePropose \/ Propose \/ RecordProposals
  BY <1>2, <1>10
  DEF ResumeWithNote, HandleApproveProposal, CheckStatus, GateProposal, ExecuteProposal, MarkApproved,
      RecordApproval, HandlePropose, Propose, RecordProposals
<1>11. CASE UNCHANGED vars
  BY <1>2, <1>11 DEF vars
<1> QED
  BY <1>3, <1>4, <1>5, <1>6, <1>7, <1>8, <1>9, <1>10, <1>11 DEF Next, Worker

(* A host that is never paused drops no held decision: it stays with its   *)
(* task until it is consumed or the task ends.                             *)
THEOREM HeldStays == ASSUME ~CanPause PROVE Spec => []HeldNotDropped
<1>1. Init => UnpausedInv /\ KeptInv
  BY DEF Init, NoTurn, UnpausedInv, KeptInv, Kept
<1>2. TypeOK /\ UnpausedInv /\ [Next]_vars => UnpausedInv'
  BY UnpausedStep
<1>3. PromiseInv /\ PromiseInv' /\ UnpausedInv /\ KeptInv /\ [Next]_vars => KeptInv'
  BY KeptStep
<1>4. PromiseInv => TypeOK
  BY DEF PromiseInv
<1>5. KeptInv => HeldNotDropped
  BY DEF KeptInv, Kept, HeldNotDropped
<1> QED
  BY <1>1, <1>2, <1>3, <1>4, <1>5, PromiseHolds, PTL DEF Spec

-----------------------------------------------------------------------------
(* Proposals do not stack.  The ticker's pass of the propose channel is in *)
(* one place from the tick to the end of the pass, and from the tick on    *)
(* nothing is proposed and no second tick comes: first because of          *)
(* _propose_pending, then because the worker is busy.                      *)

PassQueued == \E i \in 1..Len(jobs) : jobs[i] = ProposeJob

PassInHand == job = ProposeJob /\ pc \in {"taken", "dispatch"}

PassAhead == ProposeJob \in putting \/ PassQueued \/ PassInHand

OnePass ==
  /\ ProposeJob \in putting => ~PassQueued /\ ~PassInHand
  /\ PassQueued => ~PassInHand
  /\ \A i, k \in 1..Len(jobs) : jobs[i] = ProposeJob /\ jobs[k] = ProposeJob => i = k

StackInv ==
  /\ OnePass
  /\ PassAhead => pending
  /\ pc \in {"proposing", "index"} => ~PassAhead
  /\ PassAhead \/ pc \in {"proposing", "index"} => \A p \in Proposal : proposal[p] # "proposed"
  /\ pc \notin {"idle", "taken", "stopped"} => busy
  /\ pc = "index" => \A p, q \in todo : p = q
  /\ \A p, q \in Proposal : proposal[p] = "proposed" /\ proposal[q] = "proposed" => p = q

LEMMA StackStep ==
  ASSUME TypeOK, JobFits, SurfacedInv, StackInv, [Next]_vars
  PROVE  StackInv'
<1> USE HostAssumption DEF tasks, queue, worker, deciding, history
<1>1. ASSUME jobs' = jobs, ProposeJob \in putting' <=> ProposeJob \in putting,
             PassInHand' <=> PassInHand
      PROVE  OnePass' /\ (PassAhead' <=> PassAhead)
  BY <1>1 DEF StackInv, OnePass, PassAhead, PassQueued
<1>2. ASSUME jobs' = jobs, ProposeJob \in putting' <=> ProposeJob \in putting, pending' = pending,
             \/ job' = job /\ pc' = pc
             \/ job' = job /\ pc = "taken" /\ pc' = "dispatch"
             \/ ~PassInHand /\ pc' \notin {"idle", "taken", "dispatch"}
             \/ pc = "release" /\ pc' = "idle",
             pc' \in {"proposing", "index"} => pc' = pc,
             pc' = "index" => todo' = todo,
             pc' \notin {"idle", "taken", "stopped"} => busy',
             \A p \in Proposal : proposal'[p] = "proposed" => proposal[p] = "proposed"
      PROVE  StackInv'
  <2>1. PassInHand' <=> PassInHand
    BY <1>2 DEF PassInHand
  <2>2. OnePass' /\ (PassAhead' <=> PassAhead)
    BY <1>1, <1>2, <2>1
  <2> QED
    BY <1>2, <2>2 DEF StackInv
<1>3. CASE Caller
  <2>1. ProposeJob \in putting' <=> ProposeJob \in putting
    BY <1>3 DEF Caller, Submit, Decline, Approve, Pause, Resume, ResumeJobs, StopHost, StopSentinel,
       Veto, ApproveProposal
  <2>2. \A p \in Proposal : proposal'[p] = "proposed" => proposal[p] = "proposed"
    <3>1. CASE \E p \in Proposal : Veto(p)
      BY <3>1 DEF Veto, TypeOK
    <3>2. CASE ~(\E p \in Proposal : Veto(p))
      BY <1>3, <3>2 DEF Caller, Submit, Decline, Approve, Pause, Resume, StopHost, ApproveProposal
    <3> QED
      BY <3>1, <3>2
  <2>3. UNCHANGED <<jobs, job, pc, todo, busy, pending>>
    BY <1>3 DEF Caller, Submit, Decline, Approve, Pause, Resume, StopHost, Veto, ApproveProposal
  <2> QED
    BY <1>2, <2>1, <2>2, <2>3 DEF StackInv
<1>4. CASE Tick
  <2>1. /\ ~busy /\ ~pending /\ \A p \in Proposal : proposal[p] # "proposed"
        /\ pending' = TRUE /\ putting' = putting \cup {ProposeJob}
        /\ UNCHANGED <<proposal, busy, jobs, job, pc, todo>>
    BY <1>4 DEF Tick, ShouldPropose
  <2>2. ~PassAhead /\ pc \notin {"proposing", "index"}
    BY <2>1 DEF StackInv
  <2>3. ~PassQueued' /\ ~PassInHand'
    BY <2>1, <2>2 DEF PassAhead, PassQueued, PassInHand
  <2>4. OnePass'
    BY <2>3 DEF OnePass, PassQueued
  <2> QED
    BY <2>1, <2>2, <2>4 DEF StackInv
<1>5. ASSUME NEW j \in Job, Put(j) PROVE StackInv'
  <2>1. /\ jobs \in Seq(Job) /\ jobs' = Append(jobs, j) /\ j \in putting /\ putting' = putting \ {j}
        /\ UNCHANGED <<proposal, pending, busy, pc, job, todo>>
    BY <1>5 DEF Put, TypeOK
  <2>2. /\ Len(jobs) \in Nat /\ Len(jobs') = Len(jobs) + 1 /\ jobs'[Len(jobs) + 1] = j
        /\ \A i \in 1..Len(jobs) : jobs'[i] = jobs[i]
    BY <2>1, AppendAt
  <2>3. PassQueued' <=> PassQueued \/ j = ProposeJob
    BY <2>2 DEF PassQueued
  <2>4. PassInHand' <=> PassInHand
    BY <2>1 DEF PassInHand
  <2>5. PassAhead' <=> PassAhead
    BY <2>1, <2>3, <2>4 DEF PassAhead
  <2>6. \A i, k \in 1..Len(jobs') : jobs'[i] = ProposeJob /\ jobs'[k] = ProposeJob => i = k
    <3>1. CASE j = ProposeJob
      <4>1. \A i \in 1..Len(jobs) : jobs[i] # ProposeJob
        BY <2>1, <3>1 DEF StackInv, OnePass, PassQueued
      <4> QED
        BY <2>2, <3>1, <4>1
    <3>2. CASE j # ProposeJob
      BY <2>2, <3>2 DEF StackInv, OnePass
    <3> QED
      BY <3>1, <3>2
  <2>7. OnePass'
    BY <2>1, <2>3, <2>4, <2>6 DEF StackInv, OnePass
  <2> QED
    BY <2>1, <2>5, <2>7 DEF StackInv
<1>6. CASE TakeJob
  <2>1. /\ jobs \in Seq(Job) /\ jobs # << >> /\ pc = "idle" /\ job' = Head(jobs) /\ jobs' = Tail(jobs)
        /\ pc' = IF job'.kind = "stop" THEN "stopped" ELSE "taken"
        /\ UNCHANGED <<proposal, pending, busy, putting, todo>>
    BY <1>6 DEF TakeJob, TypeOK
  <2>2. /\ Len(jobs) \in Nat \ {0} /\ Len(jobs') = Len(jobs) - 1 /\ job' = jobs[1]
        /\ \A i \in 1..Len(jobs') : jobs'[i] = jobs[i + 1] /\ i + 1 \in 1..Len(jobs)
    BY <2>1, TailAt
  <2>3. ~PassInHand
    BY <2>1 DEF PassInHand
  <2>4. PassInHand' <=> jobs[1] = ProposeJob
    BY <2>1, <2>2 DEF PassInHand
  <2>5. PassQueued' => PassQueued /\ jobs[1] # ProposeJob
    <3> SUFFICES ASSUME NEW i \in 1..Len(jobs'), jobs'[i] = ProposeJob
                 PROVE  PassQueued /\ jobs[1] # ProposeJob
      BY DEF PassQueued
    <3>1. jobs[i + 1] = ProposeJob /\ i + 1 \in 1..Len(jobs) /\ i + 1 # 1 /\ 1 \in 1..Len(jobs)
      BY <2>2
    <3> QED
      BY <3>1 DEF PassQueued, StackInv, OnePass
  <2>6. jobs[1] = ProposeJob => PassQueued
    BY <2>2 DEF PassQueued
  <2>7. \A i, k \in 1..Len(jobs') : jobs'[i] = ProposeJob /\ jobs'[k] = ProposeJob => i = k
    <3> SUFFICES ASSUME NEW i \in 1..Len(jobs'), NEW k \in 1..Len(jobs'),
                        jobs'[i] = ProposeJob, jobs'[k] = ProposeJob
                 PROVE  i = k
      OBVIOUS
    <3>1. i + 1 = k + 1
      BY <2>2 DEF StackInv, OnePass
    <3> QED
      BY <3>1
  <2>8. OnePass'
    BY <2>1, <2>4, <2>5, <2>6, <2>7 DEF StackInv, OnePass
  <2>9. PassAhead' => PassAhead
    BY <2>1, <2>4, <2>5, <2>6 DEF PassAhead
  <2> QED
    BY <2>1, <2>8, <2>9 DEF StackInv
<1>7. CASE MarkBusy \/ Release
  BY <1>2, <1>7 DEF MarkBusy, Release, StackInv
<1>8. CASE HandlePropose
  <2>1. /\ PassInHand /\ pc' = "proposing" /\ UNCHANGED <<proposal, busy, jobs, putting, job, todo>>
    <3>1. job = ProposeJob
      BY <1>8, JobIsRecord, JobType DEF HandlePropose, TypeOK
    <3> QED
      BY <1>8, <3>1 DEF HandlePropose, PassInHand
  <2>2. ~PassAhead' /\ OnePass'
    BY <2>1 DEF StackInv, OnePass, PassAhead, PassQueued, PassInHand
  <2>3. \A p \in Proposal : proposal[p] # "proposed"
    BY <2>1 DEF StackInv, PassAhead
  <2>4. busy
    BY <1>8 DEF HandlePropose, StackInv
  <2> QED
    BY <2>1, <2>2, <2>3, <2>4 DEF StackInv
<1>9. CASE Propose
  <2>1. /\ pc = "proposing" /\ pc' = "index" /\ UNCHANGED <<proposal, busy, jobs, putting, job, pending>>
        /\ todo = {} /\ \A p, q \in todo' : p = q
    BY <1>9 DEF Propose, SurfacedInv
  <2>2. OnePass' /\ (PassAhead' <=> PassAhead)
    BY <1>1, <2>1 DEF PassInHand
  <2> QED
    BY <2>1, <2>2 DEF StackInv
<1>10. CASE RecordProposals
  <2>1. /\ pc = "index" /\ pc' = "release" /\ UNCHANGED <<busy, jobs, putting, job, pending>>
        /\ proposal' = [p \in Proposal |-> IF p \in todo THEN "proposed" ELSE proposal[p]]
    BY <1>10 DEF RecordProposals
  <2>2. OnePass' /\ (PassAhead' <=> PassAhead)
    BY <1>1, <2>1 DEF PassInHand
  <2>3. \A p \in Proposal : proposal'[p] = "proposed" => p \in todo
    BY <2>1 DEF StackInv
  <2> QED
    BY <2>1, <2>2, <2>3 DEF StackInv
<1>11. CASE \/ HandleTurn \/ GovernPaused \/ TurnReturns \/ AbsorbResult \/ FailActive
            \/ (\E a \in Action : GovernHeld(a) \/ ApproveHeld(a))
            \/ HandleResume \/ RecordApprovals \/ AwaitAgain \/ ResumeWithNote
            \/ HandleApproveProposal \/ CheckStatus \/ GateProposal \/ ExecuteProposal
            \/ MarkApproved \/ RecordApproval
  <2>1. /\ UNCHANGED <<jobs, putting, pending, busy, job>>
        /\ ~PassInHand /\ pc \notin {"idle", "taken", "stopped"}
        /\ pc' \notin {"idle", "taken", "dispatch", "stopped", "proposing", "index"}
    BY <1>11
    DEF HandleTurn, GovernPaused, TurnReturns, AbsorbResult, FailActive, GovernHeld, ApproveHeld, HandleResume,
        StartTurn, RecordApprovals, AwaitAgain, ResumeWithNote, HandleApproveProposal, CheckStatus,
        GateProposal, ExecuteProposal, MarkApproved, RecordApproval, PassInHand
  <2>2. \A p \in Proposal : proposal'[p] = "proposed" => proposal[p] = "proposed"
    BY <1>11
    DEF HandleTurn, GovernPaused, TurnReturns, AbsorbResult, FailActive, GovernHeld, ApproveHeld, HandleResume,
        RecordApprovals, AwaitAgain, ResumeWithNote, HandleApproveProposal, CheckStatus,
        GateProposal, ExecuteProposal, MarkApproved, RecordApproval, TypeOK
  <2>3. busy'
    BY <2>1 DEF StackInv
  <2> QED
    BY <1>2, <2>1, <2>2, <2>3
<1>12. CASE UNCHANGED vars
  BY <1>2, <1>12 DEF vars, StackInv
<1> QED
  BY <1>3, <1>4, <1>5, <1>6, <1>7, <1>8, <1>9, <1>10, <1>11, <1>12 DEF Next, Worker

(* At most one proposal waits for the human, however ticks, jobs and       *)
(* approvals interleave.                                                   *)
THEOREM OneProposalWaits == Spec => []NoStackedProposals
<1>1. Init => StackInv
  <2> SUFFICES ASSUME Init PROVE StackInv
    OBVIOUS
  <2>1. Len(jobs) = 0 /\ putting = {} /\ pc = "idle" /\ \A p \in Proposal : proposal[p] = "absent"
    BY DEF Init
  <2> QED
    BY <2>1 DEF StackInv, OnePass, PassAhead, PassQueued, PassInHand
<1>2. TypeOK /\ JobFits /\ SurfacedInv /\ StackInv /\ [Next]_vars => StackInv'
  BY StackStep
<1>3. PromiseInv => TypeOK /\ JobFits /\ SurfacedInv
  BY DEF PromiseInv
<1>4. ASSUME StackInv PROVE NoStackedProposals
  <2> DEFINE Proposed == {p \in Proposal : proposal[p] = "proposed"}
  <2>1. CASE Proposed = {}
    BY <2>1, FS_EmptySet DEF NoStackedProposals
  <2>2. CASE Proposed # {}
    <3>1. PICK p \in Proposed : TRUE
      BY <2>2
    <3>2. Proposed = {p}
      BY <1>4, <3>1 DEF StackInv
    <3>3. Cardinality(Proposed) = 1
      BY <3>2, FS_Singleton
    <3> QED
      BY <3>3 DEF NoStackedProposals
  <2> QED
    BY <2>1, <2>2
<1> QED
  BY <1>1, <1>2, <1>3, <1>4, PromiseHolds, PTL DEF Spec
=============================================================================
