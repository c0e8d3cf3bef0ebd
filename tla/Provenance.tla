----------------------------- MODULE Provenance -----------------------------
(***************************************************************************)
(* Which workspace files an autonomous action authored: the manifest of a  *)
(* session (collaborator/session.py), its durable store                    *)
(* (provenancestore.py) and the places of the seam that fill it, show it   *)
(* to the human and clear it (governance.py).  The effect of an action on  *)
(* the workspace and its recording are two steps: the process may end, or  *)
(* the executor raise, between them.                                       *)
(*                                                                         *)
(* Sessions follow one another, as provenancestore.py asks.  Abstracted:   *)
(* contents (the bytes of a file are known by who answers for them), the   *)
(* matching of a command's words to files, and the MAC of the store.       *)
(***************************************************************************)
CONSTANTS
  File,      \* workspace files
  HasStore,  \* is a durable store configured?
  None       \* nothing is held

ASSUME ProvenanceAssumption == HasStore \in BOOLEAN

VARIABLES
  up,          \* is a session running?
  authored,    \* _autonomous_authored
  incomplete,  \* _autonomous_tracking_incomplete
  disk,        \* the store: "missing", "bad" (does not verify) or "good"
  saved, gap,  \* the manifest and the flag of a good store
  bytes,       \* the workspace: who answers for the bytes of a file
  hidden,      \* files that cannot be looked up (an unreadable directory)
  pc,          \* an autonomous action between its effect and its recording
  landed,      \* the files it changed
  touched,     \* the recorded files its command names
  held,        \* the held action, as its preview showed it
  why,         \* history: why the autonomous bytes of a file may be unknown
  blind        \* history: was a file cleared whose approval did not show it?

memory    == <<authored, incomplete>>
store     == <<disk, saved, gap>>
workspace == <<bytes, hidden>>
action    == <<pc, landed, touched>>
history   == <<why, blind>>
vars      == <<up, memory, store, workspace, action, held, history>>

Init ==
  /\ up = TRUE /\ authored = {} /\ incomplete = FALSE
  /\ disk = "missing" /\ saved = {} /\ gap = FALSE
  /\ bytes \in [File -> {"absent", "human"}] /\ hidden = {}
  /\ pc = "idle" /\ landed = {} /\ touched = {}
  /\ held = None
  /\ why = [f \in File |-> "none"] /\ blind = FALSE

-----------------------------------------------------------------------------
(* The manifest and its store. *)

\* a failed save leaves the old store and degrades the tracking of this session
Persist(manifest, flag) ==
  /\ authored' = manifest
  /\ \/ /\ HasStore
        /\ disk' = "good" /\ saved' = manifest /\ gap' = flag
        /\ incomplete' = flag
     \/ HasStore /\ incomplete' = TRUE /\ UNCHANGED store
     \/ ~HasStore /\ incomplete' = flag /\ UNCHANGED store

\* only a change is saved
Update(manifest) ==
  IF manifest = authored THEN UNCHANGED <<memory, store>>
                         ELSE Persist(manifest, incomplete)

-----------------------------------------------------------------------------
(* Autonomous actions: a write, or a contained command. *)

Land(files) ==
  /\ up /\ pc = "idle"
  /\ bytes' = [f \in File |-> IF f \in files THEN "autonomous" ELSE bytes[f]]
  /\ why' = [f \in File |-> IF f \in files THEN "none" ELSE why[f]]
  /\ landed' = files
  /\ UNCHANGED <<up, memory, store, hidden, held, blind>>

Write(f) == Land({f}) /\ pc' = "wrote" /\ touched' = {}

Run(files, named) == Land(files) /\ pc' = "ran" /\ touched' = named \cap authored

Done == pc' = "idle" /\ landed' = {} /\ touched' = {}

RecordWrite ==
  /\ pc = "wrote"
  /\ Update(authored \cup landed)
  /\ Done
  /\ UNCHANGED <<up, workspace, held, history>>

Cleared_Always(humanGated, files) == files

\* only a human's hand vets the recorded files it names
Cleared(humanGated, files) == IF humanGated THEN files ELSE {}

RecordRun ==
  /\ pc = "ran"
  /\ Update((authored \ Cleared(FALSE, touched)) \cup landed)
  /\ Done
  /\ UNCHANGED <<up, workspace, held, history>>

\* a snapshot failed: what the command changed cannot be listed
RunUnobserved ==
  /\ pc = "ran"
  /\ Persist(authored, TRUE)
  /\ Done
  /\ UNCHANGED <<up, workspace, held, history>>

\* the command timed out, the verification raised, or the writing child failed
\* with bytes on disk: execute_and_verify returns before it records
ReturnsEarly ==
  /\ pc # "idle"
  /\ why' = [f \in File |-> IF f \in landed \ authored THEN "silent" ELSE why[f]]
  /\ Done
  /\ UNCHANGED <<up, memory, store, workspace, held, blind>>

-----------------------------------------------------------------------------
(* Actions held for the human: a command that names files, or a write. *)

Shown(files) == files \cap authored

Hold(kind, files) ==
  /\ up /\ pc = "idle" /\ held = None
  /\ held' = [kind |-> kind, files |-> files, degraded |-> incomplete,
              shown |-> IF kind = "run" THEN Shown(files) ELSE {}]
  /\ UNCHANGED <<up, memory, store, workspace, action, history>>

Decline ==
  /\ held # None /\ pc = "idle"
  /\ held' = None
  /\ UNCHANGED <<up, memory, store, workspace, action, history>>

\* the command ran: its recorded files count as vetted
ApproveRun ==
  /\ held # None /\ held.kind = "run" /\ pc = "idle"
  /\ LET named == held.files \cap authored IN
       /\ Update(authored \ Cleared(TRUE, named))
       /\ bytes' = [f \in File |-> IF f \in named /\ bytes[f] # "absent"
                                   THEN "human" ELSE bytes[f]]
       /\ blind' = (blind \/ ~(named \subseteq held.shown \/ held.degraded))
  /\ held' = None
  /\ UNCHANGED <<up, hidden, action, why>>

\* only a verified write clears; another leaves the record as it was
ApproveWrite ==
  /\ held # None /\ held.kind = "write" /\ pc = "idle"
  /\ bytes' = [f \in File |-> IF f \in held.files THEN "human" ELSE bytes[f]]
  /\ Update(authored \ Cleared(TRUE, held.files)) \/ UNCHANGED <<memory, store>>
  /\ held' = None
  /\ UNCHANGED <<up, hidden, action, history>>

-----------------------------------------------------------------------------
(* Sessions, the store and the workspace outside of the seam. *)

\* would a session that starts now know of f, or say that it may not?
Durable(f) ==
  HasStore /\ (disk = "bad" \/ (disk = "good" /\ (gap \/ f \in saved)))

End ==
  /\ up
  /\ up' = FALSE /\ authored' = {} /\ incomplete' = FALSE
  /\ held' = None /\ Done
  /\ why' = [f \in File |->
               CASE bytes[f] # "autonomous" \/ why[f] # "none" \/ Durable(f) -> why[f]
                 [] f \in landed -> "cut"
                 [] OTHER -> IF HasStore THEN "lost" ELSE "reset"]
  /\ UNCHANGED <<store, workspace, blind>>

Pruned_Exists(manifest) == {f \in manifest : bytes[f] # "absent" /\ f \notin hidden}

\* only a file that is definitely not there is dropped
Pruned(manifest) == {f \in manifest : bytes[f] # "absent" \/ f \in hidden}

Loaded   == IF HasStore /\ disk = "good" THEN saved ELSE {}
Degraded == HasStore /\ (disk = "bad" \/ (disk = "good" /\ gap))

Start ==
  /\ ~up
  /\ up' = TRUE
  /\ IF Pruned(Loaded) = Loaded
     THEN authored' = Loaded /\ incomplete' = Degraded /\ UNCHANGED store
     ELSE Persist(Pruned(Loaded), Degraded)
  /\ UNCHANGED <<workspace, action, held, history>>

Corrupt ==
  /\ disk = "good"
  /\ disk' = "bad" /\ saved' = {} /\ gap' = FALSE
  /\ UNCHANGED <<up, memory, workspace, action, held, history>>

\* a human removes the store: a fresh start, prior taints are given up
Remove ==
  /\ disk # "missing"
  /\ disk' = "missing" /\ saved' = {} /\ gap' = FALSE
  /\ why' = [f \in File |-> IF bytes[f] = "autonomous" THEN "reset" ELSE why[f]]
  /\ UNCHANGED <<up, memory, workspace, action, held, blind>>

Edit(f) ==
  /\ bytes' \in {[bytes EXCEPT ![f] = who] : who \in {"absent", "human"}}
  /\ UNCHANGED <<up, memory, store, hidden, action, held, history>>

HideOrShow(f) ==
  /\ hidden' \in {hidden \cup {f}, hidden \ {f}}
  /\ UNCHANGED <<up, memory, store, bytes, action, held, history>>

Next ==
  \/ \E f \in File : Write(f) \/ Hold("write", {f}) \/ Edit(f) \/ HideOrShow(f)
  \/ \E files, named \in SUBSET File : Run(files, named)
  \/ \E files \in SUBSET File : Hold("run", files)
  \/ RecordWrite \/ RecordRun \/ RunUnobserved \/ ReturnsEarly
  \/ Decline \/ ApproveRun \/ ApproveWrite
  \/ End \/ Start \/ Corrupt \/ Remove

Spec == Init /\ [][Next]_vars

-----------------------------------------------------------------------------
HeldType == [kind : {"run", "write"}, files : SUBSET File, shown : SUBSET File,
             degraded : BOOLEAN]

(* Types; a preview names only files of the command it shows; nothing of a *)
(* session outlives it.                                                    *)
TypeOK ==
  /\ up \in BOOLEAN /\ authored \subseteq File /\ incomplete \in BOOLEAN
  /\ disk \in {"missing", "bad", "good"} /\ saved \subseteq File /\ gap \in BOOLEAN
  /\ bytes \in [File -> {"absent", "human", "autonomous"}] /\ hidden \subseteq File
  /\ pc \in {"idle", "wrote", "ran"} /\ landed \subseteq File /\ touched \subseteq File
  /\ held = None \/ (held \in HeldType /\ held.shown \subseteq held.files)
  /\ why \in [File -> {"none", "silent", "cut", "lost", "reset"}] /\ blind \in BOOLEAN
  /\ ~up => (pc = "idle" /\ held = None /\ authored = {})

(* Bytes an autonomous action left in the workspace are in the manifest,   *)
(* or the session says its tracking is incomplete, through edits, clears,  *)
(* prunings, failed saves, corrupt stores and restarts - unless the action *)
(* returned early or was cut off before it recorded, a failed save was     *)
(* forgotten at the end of its session, or the store was given up.         *)
DropsAreKnown ==
  up => \A f \in File \ landed :
          bytes[f] = "autonomous" => (f \in authored \/ incomplete \/ why[f] # "none")

(* In a session, only a human's hand takes a file off the manifest: what   *)
(* leaves it no longer holds bytes an autonomous action answers for.       *)
OnlyAHandClears ==
  [][\A f \in authored \ authored' : bytes'[f] # "autonomous" \/ ~up']_vars

(* session.py:287-288: after a failed save "a stale durable record is      *)
(* never later trusted as complete without a signal".                      *)
StaleNeverTrusted == (up /\ ~incomplete) => \A f \in File : why[f] # "lost"

(* governance.py:871-872: a human-approved run that clears a file "is a    *)
(* conscious accept of those EXACT bytes": its preview had named the file. *)
ClearedWasShown == ~blind

(* governance.py:870 "fail-HONEST, never fail-silent" and 920-924: an      *)
(* autonomous action whose bytes reached the disk is recorded, or degrades *)
(* the tracking, whatever becomes of the rest of the action.               *)
LandedIsRecorded == (up /\ ~incomplete) => \A f \in File : why[f] # "silent"
=============================================================================
