-------------------------------- MODULE Surface --------------------------------
(***************************************************************************)
(* The local web surface (collaborator/surface.py): the threading server   *)
(* with its bounded number of handlers, the routes with the checks each    *)
(* makes in its order, and the script of the page that shows the Host.     *)
(* A connection carries one request and has a handler thread of its own;   *)
(* one action is one step of a handler that the others can see.            *)
(*                                                                         *)
(* Abstracted: secrets (a header either carries the right one or not),     *)
(* bodies (how many parts are still to come, and whether the whole parses) *)
(* and the Host, of which this module keeps how many tasks were submitted  *)
(* (they are numbered in that order) and how many are not over yet; module *)
(* Host has the rest.                                                      *)
(***************************************************************************)
EXTENDS Naturals, FiniteSets

CONSTANTS
  Conn,            \* connections the clients may have open at once
  MaxTasks,        \* bound: tasks a run may submit
  MaxConnections,  \* handler threads
  MaxPending,      \* tasks that are not over
  BodyCap,         \* parts a body may have
  None

ASSUME SurfaceAssumption ==
  /\ MaxTasks \in Nat /\ None \notin Nat
  /\ MaxConnections \in Nat \ {0} /\ MaxPending \in Nat \ {0} /\ BodyCap \in Nat

VARIABLES
  serving,    \* SalSurface._serving
  slots,      \* the free handlers (_conn_sem)
  conn,       \* of each connection: where its handler is, and with what
  reply,      \* the answer the page has not received yet
  loads,      \* how many times the bootstrap token was exchanged
  submitted,  \* tasks in the Host's registry
  open,       \* those of them that are not over
  strayed,    \* did a request without the session reach the Host?
  echo, mine  \* pendingEcho and pendingTaskId of the page

host == <<submitted, open, strayed>>
page == <<echo, mine>>
vars == <<serving, slots, conn, reply, loads, host, page>>

\* the page; another holder of its session; any other client
Who == {"page", "tab", "stranger"}
Route == {"root", "state", "submit", "control", "unknown"}
Closed == [stage |-> "closed", who |-> "stranger", route |-> "unknown", left |-> 0]

Stage == {"closed", "head", "body"}
ConnType == [stage : Stage, who : Who, route : Route, left : 0..BodyCap]

Error == [kind |-> "error", n |-> 0]
Accepted(t) == [kind |-> "task", n |-> t]
Snapshot(tasks) == [kind |-> "state", n |-> tasks]

TypeOK ==
  /\ serving \in BOOLEAN /\ slots \in 0..MaxConnections /\ loads \in Nat
  /\ conn \in [Conn -> ConnType]
  /\ reply \in [Conn -> {None} \cup [kind : {"error", "task", "state"}, n : 0..MaxTasks]]
  /\ submitted \in 0..MaxTasks /\ open \in 0..submitted /\ strayed \in BOOLEAN
  /\ echo \in BOOLEAN /\ mine \in 1..MaxTasks \cup {None}

Init ==
  /\ serving = TRUE
  /\ slots = MaxConnections
  /\ conn = [c \in Conn |-> Closed]
  /\ reply = [c \in Conn |-> None]
  /\ loads = 0
  /\ submitted = 0 /\ open = 0 /\ strayed = FALSE
  /\ echo = FALSE /\ mine = None

-----------------------------------------------------------------------------
(* The server *)

Shutdown ==
  /\ serving' = FALSE
  /\ UNCHANGED <<slots, conn, reply, loads, host, page>>

Free(c) == serving /\ conn[c] = Closed /\ reply[c] = None

\* process_request: a connection with no handler free is dropped
Admit_Regardless(c, who, route) ==
  /\ conn' = [conn EXCEPT ![c] = [stage |-> "head", who |-> who, route |-> route, left |-> 0]]
  /\ slots' = IF slots > 0 THEN slots - 1 ELSE 0
Admit(c, who, route) ==
  /\ slots > 0
  /\ conn' = [conn EXCEPT ![c] = [stage |-> "head", who |-> who, route |-> route, left |-> 0]]
  /\ slots' = slots - 1

\* a handler that has answered, or given up, ends and gives its slot back
Respond(c, answer) ==
  /\ conn' = [conn EXCEPT ![c] = Closed]
  /\ slots' = slots + 1
  /\ reply' = [reply EXCEPT ![c] = IF conn[c].who = "page" THEN answer ELSE None]

\* the socket's timeout; the page's own requests arrive at once
TimesOut_HeadersOnly(c) ==
  /\ conn[c].stage = "head" /\ conn[c].who # "page"
  /\ Respond(c, Error)
  /\ UNCHANGED <<serving, loads, host, page>>
TimesOut(c) ==
  /\ conn[c].stage = "head" \/ conn[c].left > 0
  /\ conn[c].who # "page"
  /\ Respond(c, Error)
  /\ UNCHANGED <<serving, loads, host, page>>

-----------------------------------------------------------------------------
(* The checks of a request's headers *)

\* plain: no upgrade, and for this host; ours: the origin is the page's or absent
Headers == [plain : BOOLEAN, cookie : BOOLEAN, csrf : BOOLEAN, ours : BOOLEAN]

\* the session's cookie may come with a request its page never made; the token
\* in the page's own header cannot
CanSend(who, h) ==
  /\ who = "page" => h.plain /\ h.cookie /\ h.csrf /\ h.ours
  /\ h.csrf => who # "stranger"
  /\ h.cookie => loads > 0

GuardCommon(h) == h.plain

GuardAuthed_OneFactor(h) == GuardCommon(h) /\ h.cookie /\ h.ours
GuardAuthed(h) == GuardCommon(h) /\ h.cookie /\ h.csrf /\ h.ours

\* the right token, once
ConsumeBootstrap_Twice(candidate) == candidate
ConsumeBootstrap(candidate) == loads = 0 /\ candidate

-----------------------------------------------------------------------------
(* The routes *)

\* the first line of a request tells its route
Arrives(c, route) == conn[c].stage = "head" /\ (conn[c].who = "page" => conn[c].route = route)

Reaches(c) == strayed' = (strayed \/ conn[c].who = "stranger")

RouteRoot(c, h, candidate) ==
  /\ Arrives(c, "root")
  /\ loads' = IF GuardCommon(h) /\ ~h.cookie /\ ConsumeBootstrap(candidate) THEN loads + 1 ELSE loads
  /\ Respond(c, Error)
  /\ UNCHANGED <<serving, host, page>>

RouteState(c, h) ==
  /\ Arrives(c, "state")
  /\ \/ /\ GuardAuthed(h)
        /\ Reaches(c)
        /\ Respond(c, Snapshot(submitted))
     \/ /\ ~GuardAuthed(h)
        /\ Respond(c, Error) /\ UNCHANGED strayed
  /\ UNCHANGED <<serving, loads, submitted, open, page>>

\* /submit counts the pending tasks before it reads the body
Busy == open >= MaxPending

\* bound: requests that will be tasks
Room == submitted + Cardinality({c \in Conn : conn[c].stage = "body" /\ conn[c].route = "submit"}) < MaxTasks

ToBody(c, route) ==
  \E n \in 0..BodyCap :
    /\ conn[c].who = "page" => n = 0
    /\ conn' = [conn EXCEPT ![c].stage = "body", ![c].left = n, ![c].route = route]
    /\ UNCHANGED <<reply, slots>>

RouteWithBody(c, route, h, lengthOk) ==
  /\ Arrives(c, route)
  /\ LET goesOn == GuardAuthed(h) /\ (route = "submit" => ~Busy /\ Room) /\ lengthOk
     IN  IF goesOn THEN ToBody(c, route) ELSE Respond(c, Error)
  /\ UNCHANGED <<serving, loads, host, page>>

\* a part of the body; each starts the timeout again
Receive(c) ==
  /\ conn[c].stage = "body" /\ conn[c].left > 0
  /\ conn' = [conn EXCEPT ![c].left = @ - 1]
  /\ UNCHANGED <<serving, slots, reply, loads, host, page>>

Read(c, route) == conn[c].stage = "body" /\ conn[c].left = 0 /\ conn[c].route = route

\* no object, no text: nothing reaches the Host
BadPayload(c) ==
  /\ conn[c].stage = "body" /\ conn[c].left = 0
  /\ conn[c].who # "page"
  /\ Respond(c, Error)
  /\ UNCHANGED <<serving, loads, host, page>>

Submit(c) ==
  /\ Read(c, "submit")
  /\ submitted' = submitted + 1 /\ open' = open + 1
  /\ Reaches(c)
  /\ Respond(c, Accepted(submitted'))
  /\ UNCHANGED <<serving, loads, page>>

\* pause, resume, the dial, a leash, approve, decline, approve_proposal, veto:
\* of all that, a declined task is over
Control(c, declined) ==
  /\ Read(c, "control")
  /\ declined <= open
  /\ open' = open - declined
  /\ Reaches(c)
  /\ Respond(c, Error)
  /\ UNCHANGED <<serving, loads, submitted, page>>

NoRoute(c) ==
  /\ Arrives(c, "unknown")
  /\ Respond(c, Error)
  /\ UNCHANGED <<serving, loads, host, page>>

-----------------------------------------------------------------------------
(* The clients *)

Visit(c, who) ==
  /\ Free(c) /\ who # "page" /\ (who = "tab" => loads > 0)
  /\ Admit(c, who, "unknown")
  /\ UNCHANGED <<serving, reply, loads, host, page>>

\* the poll that repeats, or one on the occasion of a change; one that is dropped
\* changes nothing, and is tried again
Poll(c) ==
  /\ Free(c) /\ loads > 0
  /\ Admit(c, "page", "state")
  /\ UNCHANGED <<serving, reply, loads, host, page>>

\* the button, which is disabled until the answer, or the Enter key, which is not:
\* messages may be in flight together, and share the one echo; a request that is
\* dropped fails
Send(c) ==
  /\ Free(c) /\ loads > 0
  /\ \/ Admit(c, "page", "submit") /\ UNCHANGED reply
     \/ slots = 0 /\ reply' = [reply EXCEPT ![c] = Error] /\ UNCHANGED <<slots, conn>>
  /\ echo' = TRUE /\ mine' = None
  /\ UNCHANGED <<serving, loads, host>>

\* render(), or what follows an answer to a message; answers come in any order
Render(c) ==
  /\ reply[c] # None /\ reply[c].kind = "state"
  /\ LET landed == mine # None /\ mine <= reply[c].n
     IN  echo' = (echo /\ ~landed) /\ mine' = IF landed THEN None ELSE mine
  /\ reply' = [reply EXCEPT ![c] = None]
  /\ UNCHANGED <<serving, slots, conn, loads, host>>

Answered_KeepsEcho(c) ==
  /\ reply[c] # None /\ reply[c].kind # "state"
  /\ IF reply[c].kind = "task" THEN mine' = reply[c].n /\ UNCHANGED echo
     ELSE UNCHANGED <<mine, echo>>
  /\ reply' = [reply EXCEPT ![c] = None]
  /\ UNCHANGED <<serving, slots, conn, loads, host>>
Answered(c) ==
  /\ reply[c] # None /\ reply[c].kind # "state"
  /\ IF reply[c].kind = "task" THEN mine' = reply[c].n /\ UNCHANGED echo
     ELSE echo' = FALSE /\ UNCHANGED mine
  /\ reply' = [reply EXCEPT ![c] = None]
  /\ UNCHANGED <<serving, slots, conn, loads, host>>

\* the Host's worker, at its own pace
Finish ==
  /\ open > 0
  /\ open' = open - 1
  /\ UNCHANGED <<serving, slots, conn, reply, loads, submitted, strayed, page>>

-----------------------------------------------------------------------------

Handle(c) ==
  \/ \E h \in Headers :
       /\ conn[c].stage = "head" /\ CanSend(conn[c].who, h)
       /\ \/ \E candidate \in BOOLEAN : RouteRoot(c, h, candidate)
          \/ RouteState(c, h)
          \/ \E route \in {"submit", "control"}, ok \in {TRUE, conn[c].who = "page"} : RouteWithBody(c, route, h, ok)
  \/ NoRoute(c) \/ Receive(c) \/ BadPayload(c)
  \/ Submit(c)
  \/ \E declined \in {0, 1} : Control(c, declined)

Next ==
  \/ \E c \in Conn : \/ Handle(c) \/ TimesOut(c)
                     \/ Poll(c) \/ Send(c) \/ Render(c) \/ Answered(c)
                     \/ \E who \in Who : Visit(c, who)
  \/ Finish
  \/ Shutdown

\* the page's requests are there; of the others' a body that is complete
Arrived(c) == conn[c].who = "page" \/ (conn[c].stage = "body" /\ conn[c].left = 0)

\* Handlers run, timeouts fire, the browser hands the page its answers, and the
\* page polls: it is heard when a handler stays free, for a poll that finds none is
\* dropped and no queue keeps its turn.  Nobody has to send anything more.
Fairness ==
  /\ \A c \in Conn :
       /\ WF_vars(Arrived(c) /\ Handle(c)) /\ WF_vars(TimesOut(c))
       /\ WF_vars(Render(c)) /\ WF_vars(Answered(c))
  /\ WF_vars(\E c \in Conn : Poll(c))

Spec == Init /\ [][Next]_vars /\ Fairness

-----------------------------------------------------------------------------

\* The Host never has more tasks that are not over than the cap and one less
\* than the handlers together: /submit counts before it reads the body, and what
\* bounds the requests between the count and the task is the pool of handlers
\* alone (_route_submit, process_request).
PendingBounded == open <= MaxPending + MaxConnections - 1

\* The launch link is exchanged for the session once, and only what holds the
\* session and its page's token reaches the Host, even when both come apart on
\* connections in flight together (_consume_bootstrap, _guard_authed).
OneDoor == loads <= 1 /\ ~strayed

\* the other clients, from some time on, leave the page a handler
LeaveRoom == <>[][\A c \in Conn, who \in Who : Visit(c, who) => slots > 1]_vars

\* A message the page shows as being sent ends as a task the page shows or back
\* in its box, whatever messages are in flight with it, in whatever order answers
\* arrive, and whatever connections the other clients have filled the pool with
\* before: the timeouts empty it again, however slowly they send.  It is promised
\* once they stop taking the last handler, no earlier (send, render, the timeouts
\* and the slots).
EchoEnds == LeaveRoom => (echo ~> (~echo \/ ~serving))

\* no run checks these two, for the code refutes them: clients that rotate their
\* connections may drop every poll, and with two messages in flight the landing, or
\* the failure, of one ends the echo of the other
EchoEndsRegardless == echo ~> (~echo \/ ~serving)
EchoWhileSending == (\E c \in Conn : conn[c].who = "page" /\ conn[c].route = "submit") => echo
=============================================================================
