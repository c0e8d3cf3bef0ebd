---------------------------- MODULE SalienceBus ----------------------------
(***************************************************************************)
(* The salience bus (salienceos/interpreter/bus.py): an append-only, hash- *)
(* chained record in memory, written through to a JSONL file, and replayed *)
(* from that file when a later process opens it.  The governance gate,     *)
(* which publishes to it, swallows every exception of a publish            *)
(* (collaborator/governance.py _emit_signals, govern_action), so a session *)
(* goes on after a write that failed.                                      *)
(*                                                                         *)
(* Abstracted: what a signal or a directive says is one of Payload, some   *)
(* of which no validation accepts; a hash is the chain of payloads it      *)
(* digests (no two chains collide).  A line of the file is an entry, or    *)
(* Garbage.                                                                *)
(***************************************************************************)
EXTENDS Naturals, Sequences, SequencesExt

CONSTANTS
  Payload,  \* bodies of signals and directives
  Valid,    \* those that pass valid_signal, or the directive's shape check
  Garbage,  \* a line that is no entry
  MaxLen    \* bound on the entries a bus, or its file, holds

ASSUME BusAssumption == Valid \subseteq Payload /\ MaxLen \in Nat

VARIABLES
  bus,       \* "open", "closed" (no process) or "refused" (the replay raised)
  entries,   \* _entries
  head,      \* _head
  file,      \* the lines of the file
  tail,      \* does the file end in the middle of a line?
  writing,   \* is an append between the memory and the file?
  damage,    \* history: what went wrong with the file since it was opened
  published  \* history: the chains of payloads that a bus has held

busVars == <<bus, entries, head, file, tail, writing, damage, published>>

Damages == {"none", "write", "lines"}

\* the digest of an entry: here the payloads of the chain up to it
Digest(p, prev) == Append(prev, p)

Entry(p, prev) == [payload |-> p, prev |-> prev, hash |-> Digest(p, prev)]

BusInit ==
  /\ bus = "open" /\ entries = << >> /\ head = << >>
  /\ file = << >> /\ tail = FALSE /\ writing = FALSE
  /\ damage = "none" /\ published = {<< >>}

-----------------------------------------------------------------------------
(* publish and emit: the memory first, then the file. *)

Accepted(p) == p \in Valid

HeadAfter_Same(e) == head

HeadAfter(e) == e.hash

Publish(p) ==
  /\ bus = "open" /\ ~writing
  /\ Accepted(p)
  /\ Len(entries) < MaxLen /\ Len(file) < MaxLen
  /\ LET e == Entry(p, head) IN
       /\ entries' = Append(entries, e)
       /\ head' = HeadAfter(e)
       /\ published' = published \cup {e.hash}
  /\ writing' = TRUE
  /\ UNCHANGED <<bus, file, tail, damage>>

Line == Last(entries)

FileAfter_Overwrite(line) == <<line>>

\* what lands after an unfinished line becomes part of it
FileAfter(line) == IF tail THEN [file EXCEPT ![Len(file)] = Garbage]
                           ELSE Append(file, line)

WriteSucceeds ==
  /\ writing
  /\ file' = FileAfter(Line)
  /\ tail' = FALSE
  /\ writing' = FALSE
  /\ UNCHANGED <<bus, entries, head, damage, published>>

\* a write that stops short: nothing, a part of the line, or all of it but the
\* newline is in the file
WriteStops ==
  \/ UNCHANGED <<file, tail>>
  \/ \E line \in {Garbage, Line} : file' = FileAfter(line) /\ tail' = TRUE

WriteFails ==
  /\ writing
  /\ WriteStops
  /\ writing' = FALSE
  /\ damage' = "write"
  /\ UNCHANGED <<bus, entries, head, published>>

-----------------------------------------------------------------------------
(* The process ends, perhaps in the middle of a write; another opens the   *)
(* file; the file is damaged outside of any process.                       *)

BusCrash ==
  /\ bus # "closed"
  /\ bus' = "closed" /\ entries' = << >> /\ head' = << >> /\ writing' = FALSE
  /\ \/ UNCHANGED <<file, tail>>
     \/ writing /\ WriteStops
     \/ writing /\ file' = FileAfter(Line) /\ tail' = FALSE
  /\ UNCHANGED <<damage, published>>

Intact_NoPrev(i, lines) ==
  /\ lines[i] # Garbage
  /\ lines[i].hash = Digest(lines[i].payload, lines[i].prev)
  /\ lines[i].payload \in Valid

\* one line of _replay: it parses, its hash is its own, it continues the line
\* before it, and its payload is one that publish or emit could have written
Intact(i, lines) ==
  /\ lines[i] # Garbage
  /\ lines[i].prev = IF i = 1 THEN << >> ELSE lines[i - 1].hash
  /\ lines[i].hash = Digest(lines[i].payload, lines[i].prev)
  /\ lines[i].payload \in Valid

Replays(lines) == \A i \in DOMAIN lines : Intact(i, lines)

Open ==
  /\ bus = "closed"
  /\ IF Replays(file)
     THEN /\ bus' = "open"
          /\ entries' = file
          /\ head' = IF file = << >> THEN << >> ELSE Last(file).hash
     ELSE /\ bus' = "refused"
          /\ UNCHANGED <<entries, head>>
  /\ damage' = IF tail THEN "write" ELSE "none"
  /\ UNCHANGED <<file, tail, writing, published>>

\* a line is lost, becomes unreadable, or changes places with its neighbour
Altered(f) ==
  (UNION {{RemoveAt(f, i), [f EXCEPT ![i] = Garbage]} : i \in DOMAIN f})
    \cup {[f EXCEPT ![i] = f[i - 1], ![i - 1] = f[i]] : i \in 2..Len(f)}

Damage ==
  /\ ~writing /\ ~tail
  /\ file' \in Altered(file)
  /\ damage' = "lines"
  /\ UNCHANGED <<bus, entries, head, tail, writing, published>>

BusNext ==
  \/ \E p \in Payload : Publish(p)
  \/ WriteSucceeds \/ WriteFails \/ BusCrash \/ Open \/ Damage

BusSpec == BusInit /\ [][BusNext]_busVars

-----------------------------------------------------------------------------
Chain == Seq(Valid)
EntryType == [payload : Valid, prev : Chain, hash : Chain]

\* verify_chain(): it recomputes the chain of the entries in memory
VerifyChain ==
  /\ \A i \in DOMAIN entries :
       /\ entries[i].prev = IF i = 1 THEN << >> ELSE entries[i - 1].hash
       /\ entries[i].hash = Digest(entries[i].payload, entries[i].prev)
  /\ head = IF entries = << >> THEN << >> ELSE Last(entries).hash

BusTypeOK ==
  /\ bus \in {"open", "closed", "refused"}
  /\ entries \in Seq(EntryType) /\ head \in Chain
  /\ file \in Seq(EntryType \cup {Garbage})
  /\ tail \in BOOLEAN /\ writing \in BOOLEAN /\ damage \in Damages
  /\ published \subseteq Chain

(* The record in memory is one chain, across failed writes, crashes and    *)
(* reopenings: a bus that replayed a file continues the chain it replayed. *)
MemoryIsAChain == bus = "open" => VerifyChain

(* A file that a later process would accept never tells another story than *)
(* the bus that is writing it: it is a prefix of what that bus holds.  A   *)
(* lost write or lost lines in the middle make the file unacceptable, they *)
(* never splice two histories together.                                    *)
AcceptedFileIsPrefix ==
  bus = "open" /\ Replays(file) => IsPrefix(file, entries)

(* A bus whose file was whole when it was opened, and neither failed a     *)
(* write nor was damaged since, has everything it published in the file    *)
(* once the append returns: the next process resumes the same chain.       *)
PublishedIsDurable ==
  bus = "open" /\ ~writing /\ damage = "none" => file = entries

(* What a reopened bus holds is a history some bus really had: no sequence *)
(* of failed writes, deaths and damaged lines makes it resume a chain that *)
(* was never published in that order (_replay, "fails CLOSED").            *)
ResumesAHistory ==
  bus = "open" => [i \in DOMAIN entries |-> entries[i].payload] \in published

(* bus.py:18 "verify_chain() detects accidental corruption, truncation,    *)
(* and reordering of the durable record", in the process that published it *)
(* (bus.py:230-232): damaged lines make verify_chain() false.              *)
VerifyChainSeesDamage == bus = "open" /\ damage = "lines" => ~VerifyChain
=============================================================================
