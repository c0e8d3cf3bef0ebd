----------------------------- MODULE ToolsProofs -----------------------------
(***************************************************************************)
(* Theorems about the executors, for any hosts, addresses, rival clients   *)
(* and artifacts, whatever the kernel's tools and the sandboxes do.        *)
(***************************************************************************)
EXTENDS Tools, TLAPS

-----------------------------------------------------------------------------
(* What the kernel's table has seen of the window that is open *)

InWindow == {"stage", "ask", "connect", "answer", "stream", "flush", "close"}

\* a strong window starts empty and records whatever is sent
Watched == before.dests = {} /\ (table = None \/ reached \subseteq table)

WindowInv ==
  /\ tier = None \/ tier \in Tier
  /\ pc \in InWindow => before.tier \in Tier
  /\ pc \in InWindow => (before.tier = "nft" => Watched)

LEMMA WindowInit == Init => WindowInv
  BY DEF Init, WindowInv, InWindow

LEMMA BeginOpens ==
  ASSUME WindowInv, NEW works \in BOOLEAN, NEW installs \in BOOLEAN, NEW deleted \in BOOLEAN, NEW reads \in BOOLEAN,
         ObserveBegin(works, installs, deleted, reads)
  PROVE  WindowInv'
<1> DEFINE found == IF tier = None THEN Probe(works, reads) ELSE tier
<1>1. found \in Tier
  BY DEF WindowInv, Probe, Tier
<1>2. before' = Before(found, installs, sockets, reads) /\ tier' = Cached(tier, found) /\ reached' = {}
  BY DEF ObserveBegin
<1>3. before'.tier \in Tier /\ (before'.tier = "nft" => before'.dests = {})
  BY <1>1, <1>2 DEF Before, Snapshot, Tier
<1>4. tier' = None \/ tier' \in Tier
  BY <1>1, <1>2 DEF Cached
<1> QED BY <1>2, <1>3, <1>4 DEF WindowInv, Watched

LEMMA SendIsWatched ==
  ASSUME WindowInv, NEW a, Send(a), pc \in InWindow, before.tier = "nft",
         before' = before
  PROVE  Watched'
  BY DEF WindowInv, Watched, Send, Recorded, InWindow

\* every other step of the executor leaves table and window alone
LEMMA WindowStep == WindowInv /\ [Next]_vars => WindowInv'
<1> SUFFICES ASSUME WindowInv, [Next]_vars PROVE WindowInv'
  OBVIOUS
<1> USE DEF egress, files
<1>1. ASSUME NEW tool \in DOMAIN KindOf, NEW url \in Url, NEW there \in {"absent", "old"}, CallEgress(tool, url, there)
      PROVE  WindowInv'
  BY <1>1 DEF CallEgress, WindowInv, Watched, InWindow
<1>2. ASSUME NEW works \in BOOLEAN, NEW installs \in BOOLEAN, NEW deleted \in BOOLEAN, NEW reads \in BOOLEAN,
             ObserveBegin(works, installs, deleted, reads)
      PROVE  WindowInv'
  BY <1>2, BeginOpens
<1>3. ASSUME NEW fails \in BOOLEAN, Stage(fails) \/ Flush(fails) \/ Publish(fails)
      PROVE  WindowInv'
  BY <1>3 DEF Stage, Flush, Publish, Conclude, WindowInv, Watched, InWindow
<1>4. ASSUME NEW payload \in BOOLEAN, NEW answers \in Answers, Ask(payload, answers)
      PROVE  WindowInv'
  BY <1>4 DEF Ask, Conclude, WindowInv, Watched, InWindow
<1>5. CASE Connect
  <2>1. /\ tier' = tier /\ before' = before /\ pc = "connect" /\ pc' = "answer" /\ Send(record.ip)
    BY <1>5 DEF Connect
  <2> QED BY <2>1, SendIsWatched DEF WindowInv, InWindow
<1>6. CASE Fails \/ Chunk \/ EndOfStream
  BY <1>6 DEF Fails, Chunk, EndOfStream, Conclude, WindowInv, Watched, InWindow
<1>7. ASSUME NEW status \in Status, NEW chunks \in 0..(MaxBytes + 1), Answer(status, chunks)
      PROVE  WindowInv'
  BY <1>7 DEF Answer, Conclude, WindowInv, Watched, InWindow
<1>8. ASSUME NEW reads \in BOOLEAN, NEW deleted \in BOOLEAN, NEW procReads \in BOOLEAN, ObserveEnd(reads, deleted, procReads)
      PROVE  WindowInv'
  BY <1>8 DEF ObserveEnd, WindowInv, InWindow
<1>9. ASSUME NEW request \in Request, NEW overlap \in BOOLEAN, NEW bwrap \in BOOLEAN, NEW roots \in BOOLEAN,
             NEW maintenance \in BOOLEAN, NEW netns \in BOOLEAN, CallCommand(request, overlap, bwrap, roots, maintenance, netns)
      PROVE  WindowInv'
  BY <1>9 DEF CallCommand, WindowInv, InWindow
<1>10. ASSUME NEW place \in Place, NEW setsUp \in BOOLEAN, NEW imitates \in BOOLEAN, Spawn(place, setsUp, imitates)
       PROVE  WindowInv'
  BY <1>10 DEF Spawn, WindowInv, InWindow
<1>11. CASE Return \/ Crash
  BY <1>11 DEF Return, Crash, Reset, WindowInv, InWindow
<1>12. ASSUME NEW a \in Rival, RivalConnects(a) \/ RivalSends(a) PROVE WindowInv'
  <2>1. /\ tier' = tier /\ before' = before /\ pc' = pc /\ Send(a)
    BY <1>12 DEF RivalConnects, RivalSends
  <2> QED BY <2>1, SendIsWatched DEF WindowInv
<1>13. ASSUME NEW a \in Rival, RivalCloses(a) PROVE WindowInv'
  BY <1>13 DEF RivalCloses, WindowInv, Watched
<1>14. ASSUME NEW there \in {"absent", "other", "link"}, RaceDest(there) PROVE WindowInv'
  BY <1>14 DEF RaceDest, WindowInv, Watched
<1>15. CASE UNCHANGED vars
  BY <1>15 DEF vars, WindowInv, Watched
<1> QED BY <1>1, <1>2, <1>3, <1>4, <1>5, <1>6, <1>7, <1>8, <1>9, <1>10, <1>11, <1>12, <1>13, <1>14, <1>15 DEF Next

\* a window that ends confirmed was a strong one, read, and without a surprise
LEMMA ConfirmedWindow ==
  ASSUME before.tier \in Tier, before.tier = "nft" => Watched,
         NEW reads \in BOOLEAN, NEW procReads \in BOOLEAN,
         Observation(before, table, reads, sockets, procReads, Claimed(record)).reconciled = "yes"
  PROVE  reached \subseteq Claimed(record)
<1> DEFINE seen == AfterNft(table, reads)
<1>1. before.tier = "nft"
  BY DEF Observation, Reconcile, Tier, Snapshot
<1>2. seen # None /\ Reconcile(before, Snapshot("nft", seen), Claimed(record)).reconciled = "yes"
  BY <1>1 DEF Observation
<1>3. seen = table
  BY <1>2 DEF AfterNft
<1>4. (seen \ before.dests) \ Claimed(record) = {}
  BY <1>2 DEF Reconcile, Snapshot
<1> QED BY <1>1, <1>2, <1>3, <1>4 DEF Watched

(* When the observer confirms a call (reconciled = True), every packet the     *)
(* user sent in the window went where the record says.                         *)
THEOREM ConfirmationHolds == Spec => ConfirmedIsAll
<1> USE DEF egress, files
<1>1. WindowInv /\ [Next]_vars => [obs' # None /\ obs' # obs /\ obs'.reconciled = "yes" => reached \subseteq Claimed(record)]_vars
  <2> SUFFICES ASSUME WindowInv, Next, obs' # None, obs' # obs, obs'.reconciled = "yes"
               PROVE  reached \subseteq Claimed(record)
    OBVIOUS
  <2>1. PICK reads \in BOOLEAN, deleted \in BOOLEAN, procReads \in BOOLEAN : ObserveEnd(reads, deleted, procReads)
    <3>1. \A tool \in DOMAIN KindOf, url \in Url, there \in {"absent", "old"} : ~CallEgress(tool, url, there)
      BY DEF CallEgress
    <3>2. \A works, installs, deleted, reads \in BOOLEAN : ~ObserveBegin(works, installs, deleted, reads)
      BY DEF ObserveBegin
    <3>3. \A fails \in BOOLEAN : ~Stage(fails) /\ ~Flush(fails) /\ ~Publish(fails)
      BY DEF Stage, Flush, Publish
    <3>4. \A payload \in BOOLEAN, answers \in Answers : ~Ask(payload, answers)
      BY DEF Ask
    <3>5. ~Connect /\ ~Fails /\ ~Chunk /\ ~EndOfStream
      BY DEF Connect, Fails, Chunk, EndOfStream
    <3>6. \A status \in Status, chunks \in 0..(MaxBytes + 1) : ~Answer(status, chunks)
      BY DEF Answer
    <3>7. \A request \in Request, overlap, bwrap, roots, maintenance, netns \in BOOLEAN :
            ~CallCommand(request, overlap, bwrap, roots, maintenance, netns)
      BY DEF CallCommand
    <3>8. \A place \in Place, setsUp, imitates \in BOOLEAN : ~Spawn(place, setsUp, imitates)
      BY DEF Spawn
    <3>9. ~Return /\ ~Crash
      BY DEF Return, Crash, Reset
    <3>10. \A a \in Rival : ~RivalConnects(a) /\ ~RivalSends(a) /\ ~RivalCloses(a)
      BY DEF RivalConnects, RivalSends, RivalCloses
    <3>11. \A there \in {"absent", "other", "link"} : ~RaceDest(there)
      BY DEF RaceDest
    <3> QED BY <3>1, <3>2, <3>3, <3>4, <3>5, <3>6, <3>7, <3>8, <3>9, <3>10, <3>11 DEF Next
  <2>2. pc = "close" /\ obs' = Observation(before, table, reads, sockets, procReads, Claimed(record))
    BY <2>1 DEF ObserveEnd
  <2> QED BY <2>2, ConfirmedWindow DEF WindowInv, InWindow
<1> QED BY <1>1, WindowInit, WindowStep, PTL DEF Spec, ConfirmedIsAll

-----------------------------------------------------------------------------
(* Commands: what a report says, and where a command that started may be *)

Waiting ==
  /\ run.request \in Request /\ run.wrapper \in Wrapper
  /\ Safe(run.request, run.overlap) /\ Starts(run.wrapper, run.request)
  /\ run.wrapper = "contained" => run.request.protect
  /\ run = [NoRun EXCEPT !.wrapper = run.wrapper, !.request = run.request, !.overlap = run.overlap]

ReportInv ==
  /\ pc \notin {"spawn", "done"} => run = NoRun
  /\ pc = "spawn" => Waiting
  /\ ReportIsTrue

LEMMA NoReport == ASSUME run = NoRun PROVE ReportIsTrue
  BY DEF NoRun, ReportIsTrue

\* what the guard lets through is what the report says of the place
LEMMA GuardedReport ==
  ASSUME NEW request \in Request, NEW wrapper \in Wrapper, NEW place \in Place, NEW ran \in BOOLEAN, NEW unverified \in BOOLEAN,
         Starts(wrapper, request), ran => GuardPasses(wrapper, request, place)
  PROVE  /\ IsolatedFlag(wrapper, request, ran, unverified) /\ ran => place.fresh
         /\ ProtectedFlag(wrapper, ran) => ran /\ place.codeReadOnly
         /\ request.protect /\ ran => place.codeReadOnly
         /\ request.isolate /\ ran => place.fresh
  BY DEF Request, Wrapper, Place, Starts, GuardPasses, GuardContained, GuardMaintenance, GuardNetns,
         IsolatedFlag, ProtectedFlag, Token, BelievedIsolated, BelievedProtected

\* a command starts wrapped as it must be, or is refused and has nowhere run
LEMMA CommandStarts ==
  ASSUME NEW request \in Request, NEW overlap \in BOOLEAN, NEW bwrap \in BOOLEAN, NEW roots \in BOOLEAN,
         NEW maintenance \in BOOLEAN, NEW netns \in BOOLEAN,
         CallCommand(request, overlap, bwrap, roots, maintenance, netns)
  PROVE  ReportInv'
<1> DEFINE wrapper == IF request.protect THEN WrapContained(bwrap, roots) ELSE WrapForHuman(maintenance, netns, bwrap)
           starts  == Safe(request, overlap) /\ Starts(wrapper, request)
<1>1. wrapper \in Wrapper /\ (wrapper = "contained" => request.protect)
  BY DEF Wrapper, WrapContained, WrapForHuman, WrapMaintenance, WrapNoNetwork
<1>2. CASE starts
  <2>1. pc' = "spawn" /\ run' = [NoRun EXCEPT !.wrapper = wrapper, !.request = request, !.overlap = overlap]
    BY <1>2 DEF CallCommand
  <2>2. run'.wrapper = wrapper /\ run'.request = request /\ run'.overlap = overlap
    BY <2>1 DEF NoRun
  <2> QED BY <1>1, <1>2, <2>1, <2>2 DEF ReportInv, Waiting, ReportIsTrue
<1>3. CASE ~starts
  <2>1. pc' = "done" /\ run' = [NoRun EXCEPT !.request = request]
    BY <1>3 DEF CallCommand
  <2>2. ~run'.ran /\ ~run'.isolated /\ ~run'.protected
    BY <2>1 DEF NoRun
  <2> QED BY <2>1, <2>2 DEF ReportInv, ReportIsTrue
<1> QED BY <1>2, <1>3

\* a command that started runs where its guard let it, or nowhere
LEMMA CommandRuns ==
  ASSUME ReportInv, NEW place \in Place, NEW setsUp \in BOOLEAN, NEW imitates \in BOOLEAN, Spawn(place, setsUp, imitates)
  PROVE  ReportInv'
<1> DEFINE where  == IF run.wrapper = "none" THEN Raw ELSE place
           passes == GuardPasses(run.wrapper, run.request, where)
           ran    == setsUp /\ passes
           unverified == Unverified(setsUp, passes, imitates)
<1>1. Waiting /\ pc' = "done"
  BY DEF Spawn, ReportInv
<1>2. where \in Place /\ ran \in BOOLEAN /\ unverified \in BOOLEAN
  <2>1. passes \in BOOLEAN
    BY <1>1 DEF Waiting, GuardPasses, GuardContained, GuardMaintenance, GuardNetns, Request, Wrapper, Place, Raw
  <2>2. where \in Place
    BY DEF Raw, Place
  <2> HIDE DEF passes
  <2> QED BY <2>1, <2>2 DEF Unverified
<1>3. run' = [run EXCEPT !.ran = ran, !.place = IF ran THEN where ELSE Raw,
                         !.isolated = IsolatedFlag(run.wrapper, run.request, ran, unverified),
                         !.protected = ProtectedFlag(run.wrapper, ran)]
  BY DEF Spawn
<1> DEFINE isolated  == IsolatedFlag(run.wrapper, run.request, ran, unverified)
           protected == ProtectedFlag(run.wrapper, ran)
<1>4. /\ run'.ran = ran /\ run'.place = (IF ran THEN where ELSE Raw) /\ run'.isolated = isolated /\ run'.protected = protected
      /\ run'.request = run.request /\ run'.overlap = run.overlap
  <2>1. DOMAIN run = {"wrapper", "request", "overlap", "ran", "place", "isolated", "protected"}
    BY <1>1 DEF Waiting, NoRun
  <2> HIDE DEF ran, where, isolated, protected
  <2> QED BY <1>3, <2>1 DEF isolated, protected
<1>5. ran => GuardPasses(run.wrapper, run.request, where)
  OBVIOUS
<1>6. run.request \in Request /\ run.wrapper \in Wrapper /\ Starts(run.wrapper, run.request) /\ Safe(run.request, run.overlap)
      /\ (run.wrapper = "contained" => run.request.protect)
  BY <1>1 DEF Waiting
<1>7. protected => run.request.protect
  BY <1>6 DEF ProtectedFlag, BelievedProtected
<1> HIDE DEF ran, where, unverified
<1>8. /\ isolated /\ ran => where.fresh
      /\ protected => ran /\ where.codeReadOnly
      /\ run.request.protect /\ ran => where.codeReadOnly
      /\ run.request.isolate /\ ran => where.fresh
  BY <1>2, <1>5, <1>6, GuardedReport
<1>9. run.request.protect => ~run.overlap
  BY <1>6 DEF Safe
<1> HIDE DEF isolated, protected
<1>10. ReportIsTrue'
  BY <1>4, <1>7, <1>8, <1>9 DEF ReportIsTrue
<1> QED BY <1>1, <1>10 DEF ReportInv

\* every other step leaves the report alone until it is given back
LEMMA ReportStep == ReportInv /\ [Next]_vars => ReportInv'
<1> SUFFICES ASSUME ReportInv, [Next]_vars PROVE ReportInv'
  OBVIOUS
<1> USE DEF egress, files
<1>1. ASSUME run' = run, pc' \notin {"spawn", "done"}, pc \notin {"spawn", "done"} PROVE ReportInv'
  BY <1>1 DEF ReportInv, ReportIsTrue
<1>2. ASSUME run' = run, pc \notin {"spawn", "done"}, pc' = "done" PROVE ReportInv'
  BY <1>2, NoReport DEF ReportInv, ReportIsTrue, NoRun
<1>3. ASSUME run' = run, pc' = pc PROVE ReportInv'
  BY <1>3 DEF ReportInv, ReportIsTrue, Waiting
<1>4. ASSUME NEW tool \in DOMAIN KindOf, NEW url \in Url, NEW there \in {"absent", "old"}, CallEgress(tool, url, there)
      PROVE  ReportInv'
  BY <1>4, <1>1 DEF CallEgress
<1>5. ASSUME NEW works \in BOOLEAN, NEW installs \in BOOLEAN, NEW deleted \in BOOLEAN, NEW reads \in BOOLEAN,
             ObserveBegin(works, installs, deleted, reads)
      PROVE  ReportInv'
  BY <1>5, <1>1 DEF ObserveBegin
<1>6. ASSUME NEW fails \in BOOLEAN, Stage(fails) \/ Flush(fails) \/ Publish(fails)
      PROVE  ReportInv'
  BY <1>6, <1>1, <1>2 DEF Stage, Flush, Publish, Conclude
<1>7. ASSUME NEW payload \in BOOLEAN, NEW answers \in Answers, Ask(payload, answers)
      PROVE  ReportInv'
  BY <1>7, <1>1 DEF Ask, Conclude
<1>8. CASE Connect
  BY <1>8, <1>1 DEF Connect
<1>9. CASE Fails \/ Chunk \/ EndOfStream
  BY <1>9, <1>1 DEF Fails, Chunk, EndOfStream, Conclude
<1>10. ASSUME NEW status \in Status, NEW chunks \in 0..(MaxBytes + 1), Answer(status, chunks)
      PROVE  ReportInv'
  BY <1>10, <1>1 DEF Answer, Conclude
<1>11. ASSUME NEW reads \in BOOLEAN, NEW deleted \in BOOLEAN, NEW procReads \in BOOLEAN, ObserveEnd(reads, deleted, procReads)
      PROVE  ReportInv'
  BY <1>11, <1>1, <1>2 DEF ObserveEnd
<1>12. ASSUME NEW request \in Request, NEW overlap \in BOOLEAN, NEW bwrap \in BOOLEAN, NEW roots \in BOOLEAN,
             NEW maintenance \in BOOLEAN, NEW netns \in BOOLEAN, CallCommand(request, overlap, bwrap, roots, maintenance, netns)
      PROVE  ReportInv'
  BY <1>12, CommandStarts
<1>13. ASSUME NEW place \in Place, NEW setsUp \in BOOLEAN, NEW imitates \in BOOLEAN, Spawn(place, setsUp, imitates)
       PROVE  ReportInv'
  BY <1>13, CommandRuns
<1>14. CASE Return \/ Crash
  BY <1>14, NoReport DEF Return, Crash, Reset, ReportInv, ReportIsTrue
<1>15. ASSUME NEW a \in Rival, RivalConnects(a) \/ RivalSends(a) \/ RivalCloses(a) PROVE ReportInv'
  BY <1>15, <1>3 DEF RivalConnects, RivalSends, RivalCloses
<1>16. ASSUME NEW there \in {"absent", "other", "link"}, RaceDest(there) PROVE ReportInv'
  BY <1>16, <1>3 DEF RaceDest
<1>17. CASE UNCHANGED vars
  BY <1>17, <1>3 DEF vars
<1> QED BY <1>4, <1>5, <1>6, <1>7, <1>8, <1>9, <1>10, <1>11, <1>12, <1>13, <1>14, <1>15, <1>16, <1>17 DEF Next

(* What a command's report says of its isolation is true of where it ran, and  *)
(* one that had to be contained or isolated ran nowhere else: whatever the     *)
(* probes remembered, the wrapper set up and the payload printed.              *)
THEOREM ReportHolds == Spec => []ReportIsTrue
<1>1. Init => ReportInv
  BY NoReport DEF Init, ReportInv
<1>2. ReportInv => ReportIsTrue
  BY DEF ReportInv
<1> QED BY <1>1, <1>2, ReportStep, PTL DEF Spec

-----------------------------------------------------------------------------
(* Artifacts: what waits to be published, and what was *)

Whole == stream.left = 0 \/ stream.cut

StageInv ==
  /\ stream.left \in Nat /\ stream = [left |-> stream.left, cut |-> stream.cut]
  /\ pc \in {"flush", "close"} /\ record.ok /\ call.tool = "maint_fetch" => Whole
  /\ pc = "publish" => Whole
  /\ dest = "partial" => pc = "done" /\ stream.cut
  /\ ~outside

LEMMA StreamUpdated ==
  ASSUME NEW l, NEW c, NEW x
  PROVE  /\ [[left |-> l, cut |-> c] EXCEPT !.left = x] = [left |-> x, cut |-> c]
         /\ [[left |-> l, cut |-> c] EXCEPT !.cut = x] = [left |-> l, cut |-> x]
  OBVIOUS

LEMMA StageStep == StageInv /\ [Next]_vars => StageInv'
<1> SUFFICES ASSUME StageInv, [Next]_vars PROVE StageInv'
  OBVIOUS
<1> USE DEF egress, files, StageInv, Whole
<1>1. ASSUME NEW tool \in DOMAIN KindOf, NEW url \in Url, NEW there \in {"absent", "old"}, CallEgress(tool, url, there)
      PROVE  StageInv'
  BY <1>1 DEF CallEgress
<1>2. ASSUME NEW works \in BOOLEAN, NEW installs \in BOOLEAN, NEW deleted \in BOOLEAN, NEW reads \in BOOLEAN,
             ObserveBegin(works, installs, deleted, reads)
      PROVE  StageInv'
  BY <1>2 DEF ObserveBegin
<1>3. ASSUME NEW fails \in BOOLEAN, Stage(fails) \/ Flush(fails)
      PROVE  StageInv'
  BY <1>3 DEF Stage, Flush, Conclude, Refused, Record
<1>4. ASSUME NEW fails \in BOOLEAN, Publish(fails)
      PROVE  StageInv'
  BY <1>4 DEF Publish, Replaced, Contents
<1>5. ASSUME NEW payload \in BOOLEAN, NEW answers \in Answers, Ask(payload, answers)
      PROVE  StageInv'
  <2>1. stream' = stream /\ dest' = dest /\ outside' = outside /\ call' = call /\ pc = "ask" /\ pc' # "publish"
    BY <1>5 DEF Ask, Conclude
  <2>2. ~record'.ok
    BY <1>5 DEF Ask, Conclude, Refused, Record
  <2> QED BY <2>1, <2>2
<1>6. CASE Connect
  BY <1>6 DEF Connect
<1>7. CASE Fails
  BY <1>7 DEF Fails, Conclude, Record
<1>8. CASE Chunk
  <2>1. stream.left > 0 /\ dest' = dest /\ outside' = outside /\ pc = "stream"
        /\ (stream' = stream \/ stream' = [stream EXCEPT !.left = stream.left - 1])
    BY <1>8 DEF Chunk
  <2>3. stream' = stream \/ stream' = [left |-> stream.left - 1, cut |-> stream.cut]
    BY <2>1, StreamUpdated
  <2>4. stream'.left \in Nat /\ stream' = [left |-> stream'.left, cut |-> stream'.cut]
    BY <2>1, <2>3
  <2>2. pc' = "stream" \/ (pc' \in {"flush", "close"} /\ ~record'.ok)
    BY <1>8 DEF Chunk, Conclude, Record
  <2> QED BY <2>1, <2>2, <2>4
<1>9. CASE EndOfStream
  <2>1. stream' = [stream EXCEPT !.cut = stream.left > 0] /\ dest' = dest /\ outside' = outside
        /\ pc = "stream" /\ pc' \in {"flush", "close"}
    BY <1>9 DEF EndOfStream, Conclude
  <2>3. stream' = [left |-> stream.left, cut |-> stream.left > 0]
    BY <2>1, StreamUpdated
  <2>4. stream'.left = stream.left /\ stream' = [left |-> stream'.left, cut |-> stream'.cut]
    BY <2>3
  <2>5. stream.left # 0 => stream'.cut
    <3> HAVE stream.left # 0
    <3>1. stream.left > 0
      OBVIOUS
    <3>2. (stream.left > 0) = TRUE
      BY <3>1
    <3>3. stream'.cut = TRUE
      BY <2>3, <3>2
    <3> QED BY <3>3
  <2>2. stream'.left \in Nat /\ stream' = [left |-> stream'.left, cut |-> stream'.cut] /\ (stream'.left = 0 \/ stream'.cut)
    BY <2>4, <2>5
  <2> QED BY <2>1, <2>2
<1>10. ASSUME NEW status \in Status, NEW chunks \in 0..(MaxBytes + 1), Answer(status, chunks)
      PROVE  StageInv'
  <2>1. chunks \in Nat
    BY ToolsAssumption
  <2>2. pc = "answer" /\ dest' = dest /\ outside' = outside /\ call' = call
    BY <1>10 DEF Answer
  <2>3. CASE call.tool = "maint_fetch" /\ status = "2xx"
    BY <1>10, <2>1, <2>2, <2>3 DEF Answer
  <2>4. CASE ~(call.tool = "maint_fetch" /\ status = "2xx")
    BY <1>10, <2>2, <2>4 DEF Answer, Conclude, Record
  <2> QED BY <2>3, <2>4
<1>11. ASSUME NEW reads \in BOOLEAN, NEW deleted \in BOOLEAN, NEW procReads \in BOOLEAN, ObserveEnd(reads, deleted, procReads)
      PROVE  StageInv'
  BY <1>11 DEF ObserveEnd
<1>12. ASSUME NEW request \in Request, NEW overlap \in BOOLEAN, NEW bwrap \in BOOLEAN, NEW roots \in BOOLEAN,
             NEW maintenance \in BOOLEAN, NEW netns \in BOOLEAN, CallCommand(request, overlap, bwrap, roots, maintenance, netns)
      PROVE  StageInv'
  BY <1>12 DEF CallCommand
<1>13. ASSUME NEW place \in Place, NEW setsUp \in BOOLEAN, NEW imitates \in BOOLEAN, Spawn(place, setsUp, imitates)
       PROVE  StageInv'
  BY <1>13 DEF Spawn
<1>14. CASE Return \/ Crash
  BY <1>14 DEF Return, Crash, Reset, NoStream
<1>15. ASSUME NEW a \in Rival, RivalConnects(a) \/ RivalSends(a) \/ RivalCloses(a) PROVE StageInv'
  BY <1>15 DEF RivalConnects, RivalSends, RivalCloses
<1>16. ASSUME NEW there \in {"absent", "other", "link"}, RaceDest(there) PROVE StageInv'
  BY <1>16 DEF RaceDest
<1>17. CASE UNCHANGED vars
  BY <1>17 DEF vars
<1> QED BY <1>1, <1>2, <1>3, <1>4, <1>5, <1>6, <1>7, <1>8, <1>9, <1>10, <1>11, <1>12, <1>13, <1>14, <1>15, <1>16, <1>17 DEF Next

(* What appears at an artifact's name is what its stream gave until it ended,   *)
(* and nothing is written through a link that was raced there.                 *)
THEOREM PublishingHolds == Spec => []StagedOrUntouched
<1>1. Init => StageInv
  BY DEF Init, StageInv, NoStream
<1>2. StageInv => StagedOrUntouched
  BY DEF StageInv, StagedOrUntouched
<1> QED BY <1>1, <1>2, StageStep, PTL DEF Spec
=============================================================================
