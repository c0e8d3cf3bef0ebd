-------------------------------- MODULE Tools --------------------------------
(***************************************************************************)
(* The executors that reach beyond the workspace (collaborator/tools.py):  *)
(* web_fetch, net_post and maint_fetch through the mediated client of      *)
(* module Egress, each inside an observation window, and run_command       *)
(* through the wrappers of module Containment.  The Host's worker runs one *)
(* at a time; beside it live another client of the same user, whoever      *)
(* writes in the workspace, a kernel whose tools may fail, and an end of   *)
(* the process at any moment.  What the gate decides before is Seam's      *)
(* subject; write_file and read_file are Provenance's and SaliencePlane's. *)
(*                                                                         *)
(* Abstracted: an artifact is a number of chunks; the name of its          *)
(* destination is followed, not the directories above it; the window of    *)
(* observation ends when the kernel's table is read, in one step; no       *)
(* window outlives the ten minutes the table keeps an element; /proc is    *)
(* mounted; the workspace is not moved between the check of its place and  *)
(* the mount.                                                              *)
(***************************************************************************)
EXTENDS Egress, Containment

CONSTANTS
  MaxBytes,  \* chunks an artifact may have
  Rival      \* addresses another client of the same user may talk to

ASSUME ToolsAssumption == MaxBytes \in Nat /\ Rival \subseteq Address

VARIABLES
  pc, call,     \* the executor: where it is and what it was called with
  record,       \* the EgressRecord in the making
  tier,         \* _available_tier
  table,        \* the kernel's table: the destinations in it, or None
  before,       \* what begin() returned
  obs,          \* what end() returned
  sockets,      \* the rival's established connections
  reached,      \* where packets went in the open window
  staged,       \* chunks in the temporary file, or None
  stream,       \* of the answer: chunks still to come; did it end early, unnoticed?
  dest,         \* what is at the destination's name
  outside,      \* was anything written outside the workspace?
  run           \* of a command: its wrapper, where it ran if it did, and the report

egress == <<record, tier, table, before, obs, sockets, reached>>
files  == <<staged, stream, dest, outside>>
vars   == <<pc, call, egress, files, run>>

NoCall == [tool |-> "none", url |-> [host |-> None, clean |-> FALSE]]
NoStream == [left |-> 0, cut |-> FALSE]
NoRun == [wrapper |-> "none", request |-> [protect |-> FALSE, isolate |-> FALSE], overlap |-> FALSE,
          ran |-> FALSE, place |-> Raw, isolated |-> FALSE, protected |-> FALSE]

KindOf == [web_fetch |-> "GET", net_post |-> "POST", maint_fetch |-> "MAINT"]

Init ==
  /\ pc = "idle" /\ call = NoCall
  /\ record = Refused /\ tier = None /\ table = None /\ before = None /\ obs = None
  /\ sockets = {} /\ reached = {}
  /\ staged = None /\ stream = NoStream /\ dest = "absent" /\ outside = FALSE
  /\ run = NoRun

-----------------------------------------------------------------------------
(* A call through the mediated client *)

\* what the gate lets through; a destination that leads out is denied
CallEgress(tool, url, there) ==
  /\ pc = "idle" /\ tool \in DOMAIN KindOf
  /\ RequiredCapability(url, KindOf[tool]) # None
  /\ there = "old" => tool = "maint_fetch"
  /\ pc' = "open" /\ call' = [tool |-> tool, url |-> url] /\ dest' = there
  /\ UNCHANGED <<egress, staged, stream, outside, run>>

\* the probe, when there is no answer yet, installs and removes a table of its own
ObserveBegin(nftWorks, installs, deleted, procReads) ==
  /\ pc = "open"
  /\ LET found == IF tier = None THEN Probe(nftWorks, procReads) ELSE tier
         left  == IF tier = None /\ nftWorks THEN None ELSE table
     IN  /\ tier' = Cached(tier, found)
         /\ before' = Before(found, installs, sockets, procReads)
         /\ table' = CASE found # "nft" -> left
                       [] found = "nft" /\ installs -> Installed(left, deleted)
                       [] found = "nft" /\ ~installs -> IF deleted THEN None ELSE left
  /\ reached' = {}
  /\ pc' = IF call.tool = "maint_fetch" THEN "stage" ELSE "ask"
  /\ UNCHANGED <<call, record, obs, sockets, files, run>>

\* an executor that has a record goes on to close its sink and its window
Conclude(r) == record' = r /\ pc' = IF call.tool = "maint_fetch" /\ staged # None THEN "flush" ELSE "close"

\* makedirs, mkstemp
Stage(fails) ==
  /\ pc = "stage"
  /\ IF fails THEN Conclude(Refused) /\ UNCHANGED staged
     ELSE pc' = "ask" /\ staged' = 0 /\ UNCHANGED record
  /\ UNCHANGED <<call, tier, table, before, obs, sockets, reached, stream, dest, outside, run>>

\* no answers: the resolver failed
Ask(payload, answers) ==
  /\ pc = "ask"
  /\ LET ip == IF Sendable(call.url, payload) THEN Pinned(answers) ELSE None
     IN  IF ip = None THEN Conclude(Refused) ELSE record' = Record(FALSE, ip) /\ pc' = "connect"
  /\ UNCHANGED <<call, tier, table, before, obs, sockets, reached, files, run>>

\* a packet of the user's
Send(a) ==
  /\ table' = Recorded(table, a)
  /\ reached' = reached \cup (IF pc \in {"idle", "open", "publish", "done"} THEN {} ELSE {a})

Connect ==
  /\ pc = "connect"
  /\ Send(record.ip) /\ pc' = "answer"
  /\ UNCHANGED <<call, record, tier, before, obs, sockets, files, run>>

\* no route, a refused certificate, a reset: with or without a packet sent
Fails ==
  /\ pc \in {"connect", "answer", "stream"}
  /\ Conclude(Record(FALSE, record.ip))
  /\ UNCHANGED <<call, tier, table, before, obs, sockets, reached, files, run>>

\* a redirect is not followed; only a 2xx is streamed
Answer(status, chunks) ==
  /\ pc = "answer"
  /\ chunks > 0 => call.tool = "maint_fetch" /\ status = "2xx"
  /\ IF call.tool = "maint_fetch" /\ status = "2xx"
     THEN pc' = "stream" /\ stream' = [left |-> chunks, cut |-> FALSE] /\ UNCHANGED record
     ELSE Conclude(IF call.tool = "maint_fetch" THEN Record(FALSE, record.ip) ELSE Answered(status, record.ip))
          /\ UNCHANGED stream
  /\ UNCHANGED <<call, tier, table, before, obs, sockets, reached, staged, dest, outside, run>>

-----------------------------------------------------------------------------
(* Streaming an artifact, and publishing it *)

Chunk ==
  /\ pc = "stream" /\ stream.left > 0
  /\ IF staged + 1 > MaxBytes THEN Conclude(Record(FALSE, record.ip)) /\ UNCHANGED <<staged, stream>>
     ELSE /\ staged' = staged + 1 /\ stream' = [stream EXCEPT !.left = @ - 1]
          /\ UNCHANGED <<pc, record>>
  /\ UNCHANGED <<call, tier, table, before, obs, sockets, reached, dest, outside, run>>

\* an empty read is the end: of the artifact, or of a connection that was
\* closed before it had sent the length it announced, which looks the same
EndOfStream ==
  /\ pc = "stream"
  /\ Conclude(Record(TRUE, record.ip))
  /\ stream' = [stream EXCEPT !.cut = stream.left > 0]
  /\ UNCHANGED <<call, tier, table, before, obs, sockets, reached, staged, dest, outside, run>>

\* closing the sink; an error there replaces the record
Flush(fails) ==
  /\ pc = "flush" /\ pc' = "close"
  /\ IF fails THEN record' = Refused /\ staged' = None ELSE UNCHANGED <<record, staged>>
  /\ UNCHANGED <<call, tier, table, before, obs, sockets, reached, stream, dest, outside, run>>

ObserveEnd(reads, deleted, procReads) ==
  /\ pc = "close"
  /\ obs' = Observation(before, table, reads, sockets, procReads, Claimed(record))
  /\ table' = IF before.tier = "nft" /\ deleted THEN None ELSE table
  /\ LET publishing == call.tool = "maint_fetch" /\ record.ok
     IN  /\ pc' = IF publishing THEN "publish" ELSE "done"
         /\ staged' = IF publishing THEN staged ELSE None
  /\ reached' = {}
  /\ UNCHANGED <<call, record, tier, before, sockets, stream, dest, outside, run>>

Contents == IF stream.left = 0 THEN "artifact" ELSE "partial"

\* os.replace of the name; writing the destination itself would follow a link
Replaced_InPlace ==
  IF dest = "link" THEN outside' = TRUE /\ UNCHANGED dest ELSE dest' = Contents /\ UNCHANGED outside
Replaced == dest' = Contents /\ UNCHANGED outside

Publish(fails) ==
  /\ pc = "publish" /\ pc' = "done" /\ staged' = None
  /\ IF fails THEN record' = Refused /\ UNCHANGED <<dest, outside>> ELSE Replaced /\ UNCHANGED record
  /\ UNCHANGED <<call, tier, table, before, obs, sockets, reached, stream, run>>

-----------------------------------------------------------------------------
(* A command *)

Safe(request, overlap) == request.protect => ~overlap

\* overlap: does the workspace lead into the code, looked up at this moment?
CallCommand(request, overlap, bwrap, roots, maintenance, netns) ==
  /\ pc = "idle"
  /\ LET wrapper == IF request.protect THEN WrapContained(bwrap, roots) ELSE WrapForHuman(maintenance, netns, bwrap)
         starts  == Safe(request, overlap) /\ Starts(wrapper, request)
     IN  /\ pc' = IF starts THEN "spawn" ELSE "done"
         /\ run' = IF starts THEN [NoRun EXCEPT !.wrapper = wrapper, !.request = request, !.overlap = overlap]
                   ELSE [NoRun EXCEPT !.request = request]
  /\ call' = [NoCall EXCEPT !.tool = "run_command"]
  /\ UNCHANGED <<egress, files>>

\* the wrapper sets the child up, or not; the guard passes, or not
Spawn(place, setsUp, imitates) ==
  /\ pc = "spawn" /\ pc' = "done"
  /\ LET where   == IF run.wrapper = "none" THEN Raw ELSE place
         passes  == GuardPasses(run.wrapper, run.request, where)
         ran     == setsUp /\ passes
     IN  run' = [run EXCEPT !.ran = ran, !.place = IF ran THEN where ELSE Raw,
                            !.isolated = IsolatedFlag(run.wrapper, run.request, ran, Unverified(setsUp, passes, imitates)),
                            !.protected = ProtectedFlag(run.wrapper, ran)]
  /\ UNCHANGED <<call, egress, files>>

-----------------------------------------------------------------------------
(* The end of a call, and the others *)

Reset ==
  /\ pc' = "idle" /\ call' = NoCall /\ record' = Refused /\ before' = None /\ obs' = None /\ reached' = {}
  /\ staged' = None /\ stream' = NoStream /\ dest' = "absent" /\ outside' = FALSE /\ run' = NoRun
  /\ UNCHANGED <<table, sockets>>

Return == pc = "done" /\ Reset /\ UNCHANGED tier

\* the process ends: the table stays, and what the probe found is forgotten
Crash == pc # "idle" /\ Reset /\ tier' = None

RivalConnects(a) ==
  /\ a \in Rival \ sockets
  /\ Send(a) /\ sockets' = sockets \cup {a}
  /\ UNCHANGED <<pc, call, record, tier, before, obs, files, run>>

RivalSends(a) ==
  /\ a \in sockets
  /\ Send(a)
  /\ UNCHANGED <<pc, call, record, tier, before, obs, sockets, files, run>>

RivalCloses(a) ==
  /\ a \in sockets /\ sockets' = sockets \ {a}
  /\ UNCHANGED <<pc, call, record, tier, table, before, obs, reached, files, run>>

\* someone puts something else at the destination's name
RaceDest(there) ==
  /\ call.tool = "maint_fetch" /\ dest \notin {"artifact", "partial"}
  /\ dest' = there
  /\ UNCHANGED <<pc, call, egress, staged, stream, outside, run>>

Answers == {<<>>} \cup {<<a>> : a \in Address} \cup {<<a, b>> : a, b \in Address}

Next ==
  \/ \E tool \in DOMAIN KindOf, url \in Url, there \in {"absent", "old"} : CallEgress(tool, url, there)
  \/ \E works, installs, deleted, reads \in BOOLEAN : ObserveBegin(works, installs, deleted, reads)
  \/ \E fails \in BOOLEAN : Stage(fails) \/ Flush(fails) \/ Publish(fails)
  \/ \E payload \in BOOLEAN, answers \in Answers : Ask(payload, answers)
  \/ Connect \/ Fails \/ Chunk \/ EndOfStream
  \/ \E status \in Status, chunks \in 0..(MaxBytes + 1) : Answer(status, chunks)
  \/ \E reads, deleted, procReads \in BOOLEAN : ObserveEnd(reads, deleted, procReads)
  \/ \E request \in Request, overlap, bwrap, roots, maintenance, netns \in BOOLEAN :
       CallCommand(request, overlap, bwrap, roots, maintenance, netns)
  \/ \E place \in Place, setsUp, imitates \in BOOLEAN : Spawn(place, setsUp, imitates)
  \/ Return \/ Crash
  \/ \E a \in Rival : RivalConnects(a) \/ RivalSends(a) \/ RivalCloses(a)
  \/ \E there \in {"absent", "other", "link"} : RaceDest(there)

Spec == Init /\ [][Next]_vars

-----------------------------------------------------------------------------

\* When the observer confirms a call, every packet its user sent anywhere in the
\* window went where the record says: over a connection opened before it, from
\* another client, over a table an ended process or a failed removal left
\* behind, with reads that fail and a vantage that comes and goes (begin, end,
\* reconcile, the rule in _nft_ruleset).
ConfirmedIsAll ==
  [][obs' # None /\ obs' # obs /\ obs'.reconciled = "yes" => reached \subseteq Claimed(record)]_vars

\* What appears at an artifact's destination is what the stream gave until it
\* ended, under the cap, and nothing is written through a link that was raced
\* there (_exec_maint_fetch, fetch_to_file).
StagedOrUntouched == ~outside /\ (dest = "partial" => stream.cut)

\* What a call reports of its isolation is true of where its command ran, and a
\* command that had to be contained or isolated ran nowhere else, whatever the
\* wrapper's program really did and whatever the command printed
\* (_exec_command, the guards).
ReportIsTrue ==
  pc = "done" =>
    /\ run.isolated /\ run.ran => run.place.fresh
    /\ run.protected => run.ran
    /\ (run.protected \/ run.request.protect) /\ run.ran => run.place.codeReadOnly /\ ~run.overlap
    /\ run.request.isolate /\ run.ran => run.place.fresh

\* An artifact that is published is all of it.
PublishedIsComplete == dest # "partial"
=============================================================================
