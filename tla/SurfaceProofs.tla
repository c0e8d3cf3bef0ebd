----------------------------- MODULE SurfaceProofs -----------------------------
(***************************************************************************)
(* Theorems about the surface, for any number of connections, handlers and *)
(* pending tasks and whatever its clients send.                            *)
(***************************************************************************)
EXTENDS Surface, FiniteSetTheorems, TLAPS

\* connections a handler works on, and those of them between the count and the task
Handled == {c \in Conn : conn[c].stage # "closed"}
Submitting == {c \in Conn : conn[c].stage = "body" /\ conn[c].route = "submit"}

ConnFits == conn \in [Conn -> ConnType] /\ \A c \in Conn : conn[c].stage = "closed" => conn[c] = Closed

\* every slot is free or held by one connection
SlotsInv == slots \in Nat /\ IsFiniteSet(Handled) /\ slots + Cardinality(Handled) = MaxConnections

Limit == MaxPending + MaxConnections - 1

\* what is pending, and what will be without another count
LimitInv == open \in Nat /\ open + Cardinality(Submitting) <= Limit

ServerInv == ConnFits /\ SlotsInv /\ LimitInv

\* past the headers there are no strangers
DoorInv ==
  /\ loads \in Nat /\ OneDoor
  /\ \A c \in Conn : conn[c].stage = "body" => conn[c].who # "stranger"

LEMMA ConnTyped ==
  ASSUME ConnFits, NEW c \in Conn
  PROVE  /\ conn[c] \in ConnType /\ conn[c].stage \in Stage /\ conn[c].who \in Who
         /\ conn[c].route \in Route /\ conn[c].left \in 0..BodyCap
         /\ (conn[c].stage = "head" \/ conn[c].left > 0 \/ conn[c].stage = "body" => c \in Handled)
BY SurfaceAssumption DEF ConnFits, ConnType, Closed, Handled, Stage

LEMMA SubmittingIsHandled ==
  ASSUME SlotsInv
  PROVE  /\ Submitting \subseteq Handled /\ IsFiniteSet(Submitting)
         /\ Cardinality(Submitting) \in Nat /\ Cardinality(Handled) \in Nat
         /\ Cardinality(Submitting) <= Cardinality(Handled)
<1>1. Submitting \subseteq Handled
  BY DEF Submitting, Handled
<1> QED
  BY <1>1, FS_Subset, FS_CardinalityType DEF SlotsInv

-----------------------------------------------------------------------------
(* What the ends of a handler do to its slot and to what is pending *)

LEMMA InitServer == Init => ServerInv /\ DoorInv
<1> SUFFICES ASSUME Init PROVE ServerInv /\ DoorInv
  OBVIOUS
<1>1. ConnFits
  BY SurfaceAssumption DEF Init, ConnFits, ConnType, Closed, Stage, Who, Route
<1>2. Handled = {} /\ Submitting = {}
  BY DEF Init, Handled, Submitting, Closed
<1>3. Cardinality({}) = 0 /\ IsFiniteSet({})
  BY FS_EmptySet
<1>4. SlotsInv /\ LimitInv
  BY <1>2, <1>3, SurfaceAssumption DEF Init, SlotsInv, LimitInv, Limit
<1>5. DoorInv
  BY DEF Init, DoorInv, OneDoor, Closed
<1> QED
  BY <1>1, <1>4, <1>5 DEF ServerInv

LEMMA Admission ==
  ASSUME ServerInv, DoorInv, NEW c \in Conn, NEW who \in Who, NEW route \in Route,
         Free(c), Admit(c, who, route), UNCHANGED <<loads, host>>
  PROVE  ServerInv' /\ DoorInv'
<1>1. conn'[c] = [stage |-> "head", who |-> who, route |-> route, left |-> 0]
      /\ \A d \in Conn \ {c} : conn'[d] = conn[d]
  BY DEF Admit, ServerInv, ConnFits
<1>2. ConnFits'
  <2>1. conn'[c] \in ConnType
    BY <1>1, SurfaceAssumption DEF ConnType, Stage
  <2> QED
    BY <1>1, <2>1 DEF Admit, ServerInv, ConnFits
<1>3. c \notin Handled /\ Handled' = Handled \cup {c} /\ Submitting' = Submitting
  BY <1>1 DEF Free, Closed, Handled, Submitting
<1>4. SlotsInv'
  <2>1. IsFiniteSet(Handled \cup {c}) /\ Cardinality(Handled \cup {c}) = Cardinality(Handled) + 1
    BY <1>3, FS_AddElement DEF ServerInv, SlotsInv
  <2>2. IsFiniteSet(Handled') /\ Cardinality(Handled') = Cardinality(Handled) + 1
    BY <1>3, <2>1
  <2>3. slots > 0 /\ slots' = slots - 1
    BY DEF Admit
  <2> QED
    BY <2>2, <2>3, SubmittingIsHandled DEF ServerInv, SlotsInv
<1>5. LimitInv'
  BY <1>3 DEF ServerInv, LimitInv, Limit, host
<1>6. DoorInv'
  BY <1>1 DEF DoorInv, OneDoor, host
<1> QED
  BY <1>2, <1>4, <1>5, <1>6 DEF ServerInv

\* whatever a handler answers
Ends(c) == conn' = [conn EXCEPT ![c] = Closed] /\ slots' = slots + 1

\* the slot is given back; what was to be a task may be one now
LEMMA Answering ==
  ASSUME ServerInv, NEW c \in Handled, Ends(c),
         open' \in Nat, open' + Cardinality(Submitting \ {c}) <= Limit
  PROVE  ServerInv'
<1>1. conn'[c] = Closed /\ \A d \in Conn \ {c} : conn'[d] = conn[d]
  BY DEF Ends, ServerInv, ConnFits, Handled
<1>2. ConnFits'
  <2>1. Closed \in ConnType
    BY SurfaceAssumption DEF Closed, ConnType, Stage, Who, Route
  <2> QED
    BY <1>1, <2>1 DEF Ends, ServerInv, ConnFits
<1>3. Handled' = Handled \ {c} /\ Submitting' = Submitting \ {c}
  BY <1>1 DEF Closed, Handled, Submitting
<1>4. SlotsInv'
  <2>1. IsFiniteSet(Handled \ {c}) /\ Cardinality(Handled \ {c}) = Cardinality(Handled) - 1
    BY FS_RemoveElement DEF ServerInv, SlotsInv
  <2>2. IsFiniteSet(Handled') /\ Cardinality(Handled') = Cardinality(Handled) - 1
    BY <1>3, <2>1
  <2> QED
    BY <2>2, SubmittingIsHandled DEF ServerInv, SlotsInv, Ends
<1>5. LimitInv'
  BY <1>3 DEF LimitInv, Limit
<1> QED
  BY <1>2, <1>4, <1>5 DEF ServerInv

LEMMA LessSubmitting ==
  ASSUME ServerInv, NEW c
  PROVE  Cardinality(Submitting \ {c}) \in Nat
         /\ Cardinality(Submitting \ {c}) = Cardinality(Submitting) - (IF c \in Submitting THEN 1 ELSE 0)
BY SubmittingIsHandled, FS_RemoveElement, FS_CardinalityType DEF ServerInv

\* an answer that makes no task
LEMMA AnsweringOnly ==
  ASSUME ServerInv, NEW c \in Handled, Ends(c), open' \in Nat, open' <= open
  PROVE  ServerInv'
<1>1. open' + Cardinality(Submitting \ {c}) <= Limit
  BY LessSubmitting, SubmittingIsHandled, SurfaceAssumption DEF ServerInv, LimitInv, Limit
<1> QED
  BY <1>1, Answering

\* an answer opens no door
LEMMA AnsweringCloses ==
  ASSUME ConnFits, DoorInv, NEW c \in Conn, Ends(c),
         loads' \in Nat, loads' <= 1, ~strayed'
  PROVE  DoorInv'
BY DEF ConnFits, DoorInv, OneDoor, Ends, Closed

-----------------------------------------------------------------------------
(* The steps of a handler *)

LEMMA RouteRootStep ==
  ASSUME ServerInv, DoorInv, NEW c \in Conn, NEW h \in Headers, NEW candidate \in BOOLEAN,
         RouteRoot(c, h, candidate)
  PROVE  ServerInv' /\ DoorInv'
<1>1. c \in Handled /\ Ends(c) /\ open' = open /\ strayed' = strayed
  BY ConnTyped DEF Respond, Ends, RouteRoot, Arrives, host, ServerInv
<1>2. loads' \in Nat /\ loads' <= 1
  BY DEF RouteRoot, ConsumeBootstrap, DoorInv, OneDoor
<1>3. ServerInv'
  BY <1>1, AnsweringOnly DEF ServerInv, LimitInv
<1> QED
  BY <1>1, <1>2, <1>3, AnsweringCloses DEF ServerInv, DoorInv, OneDoor

LEMMA RouteStateStep ==
  ASSUME ServerInv, DoorInv, NEW c \in Conn, NEW h \in Headers, CanSend(conn[c].who, h), RouteState(c, h)
  PROVE  ServerInv' /\ DoorInv'
<1>1. c \in Handled /\ open' = open /\ loads' = loads /\ ~strayed'
  <2>1. GuardAuthed(h) => conn[c].who # "stranger"
    BY DEF GuardAuthed, CanSend
  <2>2. ~strayed'
    BY <2>1, Zenon DEF RouteState, Reaches, DoorInv, OneDoor
  <2> QED
    BY <2>2, ConnTyped DEF RouteState, Arrives, ServerInv
<1>2. Ends(c)
  BY DEF RouteState, Respond, Ends
<1>3. ServerInv'
  BY <1>1, <1>2, AnsweringOnly DEF ServerInv, LimitInv
<1> QED
  BY <1>1, <1>2, <1>3, AnsweringCloses DEF ServerInv, DoorInv, OneDoor

LEMMA RouteWithBodyStep ==
  ASSUME ServerInv, DoorInv, NEW c \in Conn, NEW route \in {"submit", "control"}, NEW h \in Headers,
         NEW ok \in BOOLEAN, CanSend(conn[c].who, h), RouteWithBody(c, route, h, ok)
  PROVE  ServerInv' /\ DoorInv'
<1>1. c \in Handled /\ conn[c].stage = "head" /\ open' = open /\ loads' = loads /\ strayed' = strayed
  BY ConnTyped DEF RouteWithBody, Arrives, host, ServerInv
<1>2. CASE Ends(c)
  <2>1. ServerInv'
    BY <1>1, <1>2, AnsweringOnly DEF ServerInv, LimitInv
  <2> QED
    BY <1>1, <1>2, <2>1, AnsweringCloses DEF ServerInv, DoorInv, OneDoor
<1>3. CASE GuardAuthed(h) /\ (route = "submit" => ~Busy) /\ ToBody(c, route)
  <2>1. PICK n \in 0..BodyCap :
          conn' = [conn EXCEPT ![c].stage = "body", ![c].left = n, ![c].route = route] /\ slots' = slots
    BY <1>3 DEF ToBody
  <2>2. conn'[c] = [stage |-> "body", who |-> conn[c].who, route |-> route, left |-> n]
        /\ \A d \in Conn \ {c} : conn'[d] = conn[d]
    BY <2>1, ConnTyped DEF ServerInv, ConnFits, ConnType
  <2>3. ConnFits'
    <3>1. conn'[c] \in ConnType
      BY <2>2, ConnTyped DEF ServerInv, ConnType, Stage, Route
    <3> QED
      BY <2>1, <2>2, <3>1 DEF ServerInv, ConnFits
  <2>4. Handled' = Handled /\ Submitting' = IF route = "submit" THEN Submitting \cup {c} ELSE Submitting
    BY <1>1, <2>2 DEF Handled, Submitting
  <2>5. SlotsInv'
    BY <2>1, <2>4 DEF ServerInv, SlotsInv
  <2>6. LimitInv'
    <3>1. CASE route # "submit"
      BY <1>1, <2>4, <3>1 DEF ServerInv, LimitInv, Limit
    <3>2. CASE route = "submit"
      <4>1. Cardinality(Submitting') \in Nat /\ Cardinality(Submitting') <= MaxConnections
        BY <2>5, SubmittingIsHandled, FS_Subset, FS_CardinalityType, <2>4, <1>1, SurfaceAssumption
        DEF ServerInv, SlotsInv, Submitting, Handled
      <4>2. open < MaxPending
        BY <1>3, <3>2, SurfaceAssumption DEF Busy, ServerInv, LimitInv
      <4> QED
        BY <1>1, <4>1, <4>2, SurfaceAssumption DEF ServerInv, LimitInv, Limit
    <3> QED
      BY <3>1, <3>2
  <2>7. conn[c].who # "stranger"
    BY <1>3 DEF GuardAuthed, CanSend
  <2>8. DoorInv'
    BY <1>1, <2>2, <2>7 DEF DoorInv, OneDoor
  <2> QED
    BY <2>3, <2>5, <2>6, <2>8 DEF ServerInv
<1> QED
  BY <1>2, <1>3 DEF RouteWithBody, Respond, Ends

LEMMA ReceiveStep ==
  ASSUME ServerInv, DoorInv, NEW c \in Conn, Receive(c)
  PROVE  ServerInv' /\ DoorInv'
<1>1. conn' = [conn EXCEPT ![c] = [conn[c] EXCEPT !.left = conn[c].left - 1]] /\ conn[c].stage = "body" /\ conn[c].left > 0
  BY DEF Receive
<1>2. conn'[c] = [stage |-> "body", who |-> conn[c].who, route |-> conn[c].route, left |-> conn[c].left - 1]
      /\ \A d \in Conn \ {c} : conn'[d] = conn[d]
  BY <1>1, ConnTyped DEF ServerInv, ConnFits, ConnType
<1>3. ConnFits'
  <2>1. conn'[c] \in ConnType
    BY <1>1, <1>2, ConnTyped, SurfaceAssumption DEF ServerInv, ConnType, Stage
  <2> QED
    BY <1>1, <1>2, <2>1 DEF ServerInv, ConnFits
<1>4. Handled' = Handled /\ Submitting' = Submitting
  BY <1>1, <1>2 DEF Handled, Submitting
<1>5. SlotsInv' /\ LimitInv'
  BY <1>4 DEF Receive, host, ServerInv, SlotsInv, LimitInv, Limit
<1>6. DoorInv'
  BY <1>1, <1>2 DEF Receive, host, DoorInv, OneDoor
<1> QED
  BY <1>3, <1>5, <1>6 DEF ServerInv

LEMMA SubmitStep ==
  ASSUME ServerInv, DoorInv, NEW c \in Conn, Submit(c)
  PROVE  ServerInv' /\ DoorInv'
<1>1. c \in Submitting /\ c \in Handled /\ open' = open + 1 /\ loads' = loads /\ Ends(c)
  BY DEF Respond, Ends, Submit, Read, Submitting, Handled
<1>2. ~strayed'
  BY DEF Submit, Read, Reaches, DoorInv, OneDoor
<1>3. open' \in Nat /\ open' + Cardinality(Submitting \ {c}) <= Limit
  BY <1>1, LessSubmitting, SubmittingIsHandled, SurfaceAssumption DEF ServerInv, LimitInv, Limit
<1>4. ServerInv'
  BY <1>1, <1>3, Answering
<1> QED
  BY <1>1, <1>2, <1>4, AnsweringCloses DEF ServerInv, DoorInv, OneDoor

LEMMA ControlStep ==
  ASSUME ServerInv, DoorInv, NEW c \in Conn, NEW declined \in {0, 1}, Control(c, declined)
  PROVE  ServerInv' /\ DoorInv'
<1>1. c \in Handled /\ loads' = loads /\ Ends(c)
  BY DEF Respond, Ends, Control, Read, Handled
<1>2. ~strayed'
  BY DEF Control, Read, Reaches, DoorInv, OneDoor
<1>3. open' \in Nat /\ open' <= open
  BY DEF Control, ServerInv, LimitInv
<1>4. ServerInv'
  BY <1>1, <1>3, AnsweringOnly
<1> QED
  BY <1>1, <1>2, <1>4, AnsweringCloses DEF ServerInv, DoorInv, OneDoor

\* no route, no payload, or no answer in time
LEMMA RefusalStep ==
  ASSUME ServerInv, DoorInv, NEW c \in Conn, NoRoute(c) \/ BadPayload(c) \/ TimesOut(c)
  PROVE  ServerInv' /\ DoorInv'
<1>1. c \in Handled /\ Ends(c) /\ open' = open /\ loads' = loads /\ strayed' = strayed
  BY ConnTyped DEF Respond, Ends, NoRoute, BadPayload, TimesOut, Arrives, host, ServerInv
<1>2. ServerInv'
  BY <1>1, AnsweringOnly DEF ServerInv, LimitInv
<1> QED
  BY <1>1, <1>2, AnsweringCloses DEF ServerInv, DoorInv, OneDoor

LEMMA HandleStep ==
  ASSUME ServerInv, DoorInv, NEW c \in Conn, Handle(c)
  PROVE  ServerInv' /\ DoorInv'
BY RouteRootStep, RouteStateStep, RouteWithBodyStep, ReceiveStep, SubmitStep, ControlStep, RefusalStep DEF Handle

-----------------------------------------------------------------------------
(* The clients, and all together *)

LEMMA ServerUntouched ==
  ASSUME ServerInv, DoorInv, UNCHANGED <<slots, conn, loads, strayed>>, open' \in Nat, open' <= open
  PROVE  ServerInv' /\ DoorInv'
<1>1. Handled' = Handled /\ Submitting' = Submitting
  BY DEF Handled, Submitting
<1>2. SlotsInv' /\ LimitInv'
  BY <1>1, SubmittingIsHandled, SurfaceAssumption DEF ServerInv, SlotsInv, LimitInv, Limit
<1> QED
  BY <1>2 DEF ServerInv, ConnFits, DoorInv, OneDoor

LEMMA ServerStep == ServerInv /\ DoorInv /\ [Next]_vars => ServerInv' /\ DoorInv'
<1> SUFFICES ASSUME ServerInv, DoorInv, [Next]_vars PROVE ServerInv' /\ DoorInv'
  OBVIOUS
<1>0. open \in Nat
  BY DEF ServerInv, LimitInv
<1>1. ASSUME NEW c \in Conn, Handle(c) \/ TimesOut(c) PROVE ServerInv' /\ DoorInv'
  BY <1>1, HandleStep, RefusalStep
<1>2. ASSUME NEW c \in Conn, Poll(c) PROVE ServerInv' /\ DoorInv'
  BY <1>2, Admission DEF Poll, Who, Route
<1>3. ASSUME NEW c \in Conn, Send(c) PROVE ServerInv' /\ DoorInv'
  <2>1. CASE Admit(c, "page", "submit")
    BY <1>3, <2>1, Admission DEF Send, Who, Route
  <2>2. CASE UNCHANGED <<slots, conn>>
    BY <1>0, <1>3, <2>2, ServerUntouched DEF Send, host
  <2> QED
    BY <1>3, <2>1, <2>2 DEF Send
<1>4. ASSUME NEW c \in Conn, Render(c) \/ Answered(c) PROVE ServerInv' /\ DoorInv'
  BY <1>0, <1>4, ServerUntouched DEF Render, Answered, host
<1>5. ASSUME NEW c \in Conn, NEW who \in Who, Visit(c, who) PROVE ServerInv' /\ DoorInv'
  BY <1>5, Admission DEF Visit, Route
<1>6. CASE Finish
  BY <1>0, <1>6, ServerUntouched DEF Finish
<1>7. CASE Shutdown
  BY <1>0, <1>7, ServerUntouched DEF Shutdown, host
<1>8. CASE UNCHANGED vars
  BY <1>0, <1>8, ServerUntouched DEF vars, host
<1> QED
  BY <1>1, <1>2, <1>3, <1>4, <1>5, <1>6, <1>7, <1>8 DEF Next

\* However many requests pass the count together, what is pending stays under
\* the cap and one less than the handlers (_route_submit, process_request).
THEOREM PendingHolds == Spec => []PendingBounded
<1>1. ServerInv => PendingBounded
  BY SubmittingIsHandled, SurfaceAssumption DEF ServerInv, LimitInv, Limit, PendingBounded
<1> QED
  BY <1>1, InitServer, ServerStep, PTL DEF Spec

\* The launch link opens one session, and only its page reaches the Host
\* (_consume_bootstrap, _guard_authed, _guard_common).
THEOREM DoorHolds == Spec => []OneDoor
<1>1. DoorInv => OneDoor
  BY DEF DoorInv
<1> QED
  BY <1>1, InitServer, ServerStep, PTL DEF Spec
=============================================================================
