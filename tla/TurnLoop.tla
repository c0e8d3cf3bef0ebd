------------------------------- MODULE TurnLoop -------------------------------
(***************************************************************************)
(* The loops that ask a model: a user's turn (run_turn and                 *)
(* _complete_actionable in collaborator/loop.py) and a researched proposal *)
(* pass (collaborator/research.py).  Both are bounded, retry what is       *)
(* silent or cut off, and must lose nothing the model asked for.           *)
(*                                                                         *)
(* The gate's answer to an intent is any status, "paused" when the session *)
(* is: which one is module Seam's subject, what the Host makes of the end  *)
(* of a turn is module Host's, what becomes of a candidate is Proposals'.  *)
(*                                                                         *)
(* Abstracted: the conversation is the message being dealt with; the       *)
(* temperature and the budget of a retry only change what the model may    *)
(* answer, and it may answer anything; what research reads is data for the *)
(* next prompt and is not followed.                                        *)
(***************************************************************************)
EXTENDS ToolCall, FiniteSets

CONSTANTS
  Message,         \* what the model may answer
  MaxIterations,   \* run_turn's max_iterations
  EmptyRetries,    \* run_turn's empty_retries
  ResearchBudget,  \* session.research_budget
  None

ASSUME TurnLoopAssumption ==
  /\ MaxIterations \in Nat \ {0} /\ EmptyRetries \in Nat /\ ResearchBudget \in Nat
  /\ None \notin Message /\ Message \subseteq MessageType

VARIABLES
  phase,      \* what the worker is at
  paused,     \* session.paused
  iteration,  \* of the turn, from 1
  attempt,    \* of this completion, from 0
  msg,        \* the last completion, or None
  todo,       \* its intents that are not governed yet
  governed,   \* those that are
  shown,      \* its attempts that are in the turn's ambiguous
  outcomes,   \* statuses of this iteration's decisions
  decisions,  \* statuses of the turn's decisions
  stopped,    \* TurnResult.stopped, or "raised"
  steps       \* research steps taken

turn == <<iteration, attempt, msg, todo, governed, shown, outcomes, decisions, stopped>>
vars == <<phase, paused, turn, steps>>

Trust == {"local_only", "read_only_research", "web_research", "sandboxed_creation"}

\* the loop takes a failure and a notice like a denial
Status == {"ran", "held", "denied"}

Init ==
  /\ phase = "idle" /\ paused = FALSE
  /\ iteration = 0 /\ attempt = 0 /\ msg = None /\ todo = <<>> /\ governed = {}
  /\ shown = {} /\ outcomes = {} /\ decisions = {} /\ stopped = "none" /\ steps = 0

-----------------------------------------------------------------------------
(* A turn *)

StartTurn ==
  /\ phase = "idle" /\ phase' = "ask" /\ iteration' = 1
  /\ UNCHANGED <<paused, attempt, msg, todo, governed, shown, outcomes, decisions, stopped, steps>>

Truncated(m) == m.finish = "length"

\* it did something, tried something or said something
Actionable(m) == ParseMessage(m).intents # <<>> \/ ParseMessage(m).ambiguous # {} \/ m.content.kind # "none"

\* asked again: silence, or a completion cut off before it made a call
AskedAgain(m) == (Truncated(m) /\ ParseMessage(m).intents = <<>>) \/ ~Actionable(m)

LastAttempt == attempt = EmptyRetries

Counted_Silence(m) == IF Truncated(m) THEN attempt ELSE attempt + 1
Counted(m) == attempt + 1

Retry(m) ==
  /\ AskedAgain(m) /\ ~LastAttempt
  /\ attempt' = Counted(m)
  /\ UNCHANGED <<phase, shown, todo, governed, stopped>>

GiveUp(m) ==
  /\ AskedAgain(m) /\ LastAttempt /\ ~Actionable(m)
  /\ phase' = "over" /\ stopped' = "empty"
  /\ UNCHANGED <<attempt, shown, todo, governed>>

\* what it tried is shown; without a call it is the answer
Accept(m) ==
  /\ ~AskedAgain(m) \/ (LastAttempt /\ Actionable(m))
  /\ LET parsed == ParseMessage(m)
         final  == parsed.intents = <<>>
     IN  /\ shown' = parsed.ambiguous /\ todo' = parsed.intents /\ governed' = {}
         /\ phase' = IF final THEN "over" ELSE "govern"
         /\ stopped' = IF final THEN "final" ELSE stopped
  /\ attempt' = 0

Answer ==
  /\ phase = "ask"
  /\ msg' \in Message
  /\ Retry(msg') \/ GiveUp(msg') \/ Accept(msg')
  /\ UNCHANGED <<paused, iteration, outcomes, decisions, steps>>

\* every intent is governed, also after one that was held or paused
GovernAction(status) ==
  /\ phase = "govern" /\ todo # <<>>
  /\ status = "paused" <=> paused
  /\ governed' = governed \cup {Head(todo)} /\ todo' = Tail(todo)
  /\ outcomes' = outcomes \cup {status} /\ decisions' = decisions \cup {status}
  /\ UNCHANGED <<phase, paused, iteration, attempt, msg, shown, stopped, steps>>

\* why the turn stops after an iteration, if it does
Why_Ran ==
  CASE "ran" \in outcomes -> "none"
    [] "ran" \notin outcomes /\ "paused" \in outcomes -> "paused"
    [] "ran" \notin outcomes /\ "paused" \notin outcomes /\ "held" \in outcomes -> "held"
    [] OTHER -> "none"
Why ==
  CASE "paused" \in outcomes -> "paused"
    [] "paused" \notin outcomes /\ "held" \in outcomes -> "held"
    [] "paused" \notin outcomes /\ "held" \notin outcomes /\ iteration = MaxIterations -> "max_iterations"
    [] OTHER -> "none"

\* the results go back to the model
FeedBack ==
  /\ phase = "govern" /\ todo = <<>>
  /\ stopped' = Why
  /\ IF Why # "none" THEN phase' = "over" /\ UNCHANGED <<iteration, outcomes>>
     ELSE phase' = "ask" /\ iteration' = iteration + 1 /\ outcomes' = {}
  /\ UNCHANGED <<paused, attempt, msg, todo, governed, shown, decisions, steps>>

\* the client, the gate, of a turn or of a candidate, or a request of research that
\* is no object: what the job did until then is lost with its result
Raise ==
  /\ phase \in {"ask", "govern", "propose"} \cup Trust
  /\ phase' = "over" /\ stopped' = "raised"
  /\ UNCHANGED <<paused, iteration, attempt, msg, todo, governed, shown, outcomes, decisions, steps>>

-----------------------------------------------------------------------------
(* A researched proposal pass *)

StartPropose(trust) ==
  /\ phase = "idle"
  /\ phase' = IF trust = "local_only" THEN "propose" ELSE trust
  /\ UNCHANGED <<paused, turn, steps>>

Researching == phase \in Trust

\* a file, a directory, a page or a refusal
Read ==
  /\ Researching /\ steps < ResearchBudget /\ steps' = steps + 1
  /\ UNCHANGED <<phase, paused, turn>>

\* the budget is spent, or the model is done, fails or answers no object
EndResearch ==
  /\ Researching /\ phase' = "propose"
  /\ UNCHANGED <<paused, turn, steps>>

\* one answer, one candidate at most
Propose ==
  /\ phase = "propose" /\ phase' = "over"
  /\ UNCHANGED <<paused, turn, steps>>

-----------------------------------------------------------------------------
Return ==
  /\ phase = "over" /\ phase' = "idle"
  /\ UNCHANGED paused
  /\ iteration' = 0 /\ attempt' = 0 /\ msg' = None /\ todo' = <<>> /\ governed' = {}
  /\ shown' = {} /\ outcomes' = {} /\ decisions' = {} /\ stopped' = "none" /\ steps' = 0

PauseOrResume == paused' = ~paused /\ UNCHANGED <<phase, turn, steps>>

Work ==
  \/ Answer
  \/ \E status \in Status \cup {"paused"} : GovernAction(status)
  \/ FeedBack \/ Raise
  \/ Read \/ EndResearch \/ Propose \/ Return

Next == StartTurn \/ (\E trust \in Trust : StartPropose(trust)) \/ Work \/ PauseOrResume

\* the worker keeps working, and a model answers or its client raises; nobody
\* has to start a job, or to resume a session
Spec == Init /\ [][Next]_vars /\ WF_vars(Work)

-----------------------------------------------------------------------------

\* the calls found first take precedence over what only a look at the whole
\* content finds
Overruled(m) ==
  IF Structured(m).intents \o Marked(m.content).intents = <<>> THEN {}
  ELSE IF Whole(m.content) THEN Attempts("content", m.content.forms) ELSE Opening(m.content)

\* what the parser leaves in the text: asides, markers without JSON, and whatever
\* stands behind a fence that was cut off
LeftInText(m) ==
  {a \in Attempts("content", m.content.forms) :
     m.content.kind = "cut_fence" \/ m.content.forms[a[2]] \in {"bare", "aside"}}

GoneOn == msg # None /\ stopped \notin {"empty", "raised"} /\ phase \in {"ask", "over"} /\ attempt = 0

\* Whatever the model tried in a completion the loop went on from was governed
\* or is shown, unless a call found before it overruled it or the parser took it for
\* prose; and a completion it asked again for held no whole call but as prose or
\* in a batch that is not whole: beside these named losses neither a retry nor a
\* parse loses work (parse_message, _complete_actionable, the loop over the
\* intents).
NothingDropped ==
  /\ GoneOn => Tried(msg) \subseteq governed \cup shown \cup Overruled(msg) \cup LeftInText(msg)
  /\ phase = "ask" /\ attempt > 0 =>
       \A a \in Tried(msg) \ LeftInText(msg) :
         FormOf(msg, a) = "call" => Whole(msg.content) /\ Len(msg.content.forms) > 1

\* no run checks these, for the code refutes them: tool-shaped JSON in the middle
\* of a sentence is shown; a marker is never passed by in silence
AsideIsShown ==
  GoneOn => \A a \in Attempts("content", msg.content.forms) : FormOf(msg, a) = "aside" => a \in shown
MarkerIsShown ==
  GoneOn => \A a \in Attempts("content", msg.content.forms) : FormOf(msg, a) = "bare" => a \in shown

\* The reason a turn gives for its end is what happened in it: one that is
\* final made no call and left nothing waiting, one that waits has something to
\* wait for.  It is what the Host relies on (TurnReturns in module Host).
StoppedSaysWhy ==
  phase = "over" =>
    /\ stopped = "final"  => decisions \subseteq {"ran", "denied"} /\ ParseMessage(msg).intents = <<>> /\ Actionable(msg)
    /\ stopped = "paused" <=> ("paused" \in decisions /\ stopped # "raised")
    /\ "held" \in decisions => stopped \in {"held", "paused", "raised"}
    /\ stopped = "held"   => "held" \in decisions
    /\ stopped = "max_iterations" => todo = <<>> /\ iteration = MaxIterations

\* Every turn and every pass ends, whatever the model answers: retries, steps
\* and iterations are bounded together.
JobEnds == phase # "idle" ~> phase = "idle"

\* A completion that is still cut off after the last retry is no finished turn.
FinalIsWhole == phase = "over" /\ stopped = "final" => ~Truncated(msg)

\* A call that is cut off behind an open fence is shown as well.
CutFenceIsShown ==
  phase = "over" /\ stopped = "final" /\ msg.content.kind = "cut_fence" => shown # {}
=============================================================================
