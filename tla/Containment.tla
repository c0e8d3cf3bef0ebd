----------------------------- MODULE Containment -----------------------------
(***************************************************************************)
(* Where a shell command runs: contained (contained.py), in the            *)
(* maintenance sandbox (maintain.py), in a routeless network namespace     *)
(* (netns.py), or as it is.  Operators: how a command is wrapped, what the *)
(* child's guard verifies before it hands over, and what the executor may  *)
(* claim afterwards (tools.py, _exec_command).  Module Tools runs them.    *)
(*                                                                         *)
(* A wrapper is what was asked of the kernel; a place is what the child    *)
(* really got: bwrap or unshare may be broken, shadowed or too weak.       *)
(***************************************************************************)
EXTENDS Naturals

Wrapper == {"contained", "maintenance", "netns", "none"}

\* what the child has: its network is a fresh one, the code roots are there and
\* read-only, no capability is left, the sockets of daemons are masked
Place == [fresh : BOOLEAN, codeReadOnly : BOOLEAN, dropped : BOOLEAN, masked : BOOLEAN]
Raw == [fresh |-> FALSE, codeReadOnly |-> FALSE, dropped |-> FALSE, masked |-> FALSE]

Request == [protect : BOOLEAN, isolate : BOOLEAN]

-----------------------------------------------------------------------------
(* Wrapping.  bwrap, roots: is the binary there, are there code roots (looked  *)
(* up again for every command); maintenance, netns: what a probe of the host    *)
(* said once and is remembered.                                                 *)

WrapContained(bwrap, roots) == IF bwrap /\ roots THEN "contained" ELSE "none"
WrapMaintenance(bwrap) == IF bwrap THEN "maintenance" ELSE "none"
WrapNoNetwork(netns) == IF netns THEN "netns" ELSE "none"

\* a sandbox that was there at the probe and is gone leaves the command unwrapped
WrapForHuman(maintenance, netns, bwrap) ==
  IF maintenance THEN WrapMaintenance(bwrap) ELSE WrapNoNetwork(netns)

\* the beliefs before the run
BelievedIsolated(wrapper, request) == IF wrapper = "contained" THEN request.isolate ELSE wrapper # "none"
BelievedProtected(wrapper) == wrapper = "contained"

\* an autonomous command is refused unless it was wrapped; so is one that has to
\* be isolated and is not believed to be
Starts(wrapper, request) ==
  /\ request.protect => BelievedProtected(wrapper)
  /\ request.isolate => BelievedIsolated(wrapper, request)

-----------------------------------------------------------------------------
(* The guard in the child, and what is claimed of the run *)

GuardContained_NoWriteProbe(request, place) == request.isolate => place.fresh
GuardContained(request, place) == place.codeReadOnly /\ (request.isolate => place.fresh)
GuardMaintenance(place) == place.fresh /\ place.dropped /\ place.masked
GuardNetns(place) == place.fresh

GuardPasses(wrapper, request, place) ==
  CASE wrapper = "contained"   -> GuardContained(request, place)
    [] wrapper = "maintenance" -> GuardMaintenance(place)
    [] wrapper = "netns"       -> GuardNetns(place)
    [] wrapper = "none"        -> TRUE

\* the token is printed before the payload starts, so a payload that prints one
\* itself is one the guard has passed
Token(wrapper, ran) == ran /\ wrapper \in {"contained", "maintenance"}

\* the child ended with the guard's own words and exit code: the guard tripped,
\* or the payload imitates it
Unverified(setsUp, passes, imitates) == setsUp /\ (~passes \/ imitates)

IsolatedFlag(wrapper, request, ran, unverified) ==
  /\ BelievedIsolated(wrapper, request)
  /\ IF wrapper = "netns" THEN ~unverified ELSE Token(wrapper, ran)

ProtectedFlag(wrapper, ran) == BelievedProtected(wrapper) /\ Token(wrapper, ran)
=============================================================================
