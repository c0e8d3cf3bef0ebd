-------------------------- MODULE ProvenanceProofs --------------------------
(***************************************************************************)
(* Provenance, for any set of files, with and without a store.             *)
(*                                                                         *)
(* DropsAreKnown speaks of running sessions only and is not inductive: a   *)
(* session starts with what the one before it left in the store.  DropsInv *)
(* adds what holds between sessions (what was dropped is durable, or given *)
(* up) and that nothing has landed unless an action is in flight.          *)
(***************************************************************************)
EXTENDS Provenance, TLAPS

Known(f) == f \in authored \/ incomplete \/ why[f] # "none"

Kept(f) == Durable(f) \/ why[f] # "none"

DropsKept ==
  \A f \in File : bytes[f] = "autonomous" =>
    IF up THEN f \in landed \/ Known(f) ELSE Kept(f)

DropsInv ==
  /\ TypeOK
  /\ pc = "idle" => landed = {}
  /\ DropsKept

-----------------------------------------------------------------------------
(* The manifest and its store. *)

\* Whatever becomes of the save, memory holds the manifest, and is degraded
\* at least as much as it was asked to be.
LEMMA PersistRemembers ==
  ASSUME TypeOK, NEW manifest \in SUBSET File, NEW flag \in BOOLEAN,
         Persist(manifest, flag)
  PROVE  /\ authored' = manifest /\ incomplete' \in BOOLEAN
         /\ flag => incomplete'
         /\ disk' \in {"missing", "bad", "good"} /\ saved' \subseteq File
         /\ gap' \in BOOLEAN
  BY DEF Persist, TypeOK, store

LEMMA UpdateRemembers ==
  ASSUME TypeOK, NEW manifest \in SUBSET File, Update(manifest)
  PROVE  /\ authored' = manifest /\ incomplete' \in BOOLEAN
         /\ incomplete => incomplete'
         /\ disk' \in {"missing", "bad", "good"} /\ saved' \subseteq File
         /\ gap' \in BOOLEAN
<1>1. CASE manifest = authored
  BY <1>1 DEF Update, TypeOK, memory, store
<1>2. CASE manifest # authored
  <2>1. Persist(manifest, incomplete)
    BY <1>2 DEF Update
  <2>2. incomplete \in BOOLEAN
    BY DEF TypeOK
  <2>3. QED  BY <2>1, <2>2, PersistRemembers
<1>3. QED  BY <1>1, <1>2

\* A session starts with what the store says, less what is not there.
LEMMA StartRemembers ==
  ASSUME TypeOK, Start
  PROVE  /\ authored' = Pruned(Loaded) /\ incomplete' \in BOOLEAN
         /\ Degraded => incomplete'
         /\ disk' \in {"missing", "bad", "good"} /\ saved' \subseteq File
         /\ gap' \in BOOLEAN
<1>1. /\ Loaded \in SUBSET File /\ Degraded \in BOOLEAN
      /\ Pruned(Loaded) \in SUBSET File
  BY DEF TypeOK, Loaded, Degraded, Pruned
<1>2. CASE Pruned(Loaded) = Loaded
  BY <1>1, <1>2 DEF Start, TypeOK, store
<1>3. CASE Pruned(Loaded) # Loaded
  <2>1. Persist(Pruned(Loaded), Degraded)
    BY <1>3 DEF Start
  <2>2. QED  BY <1>1, <2>1, PersistRemembers
<1>4. QED  BY <1>2, <1>3


-----------------------------------------------------------------------------
LEMMA TypeStep ==
  ASSUME DropsInv, [Next]_vars
  PROVE  TypeOK'
<1> USE DEF DropsInv
<1>1. CASE UNCHANGED vars
  BY <1>1 DEF vars, memory, store, workspace, action, history, TypeOK
<1>2. ASSUME NEW files \in SUBSET File, Land(files)
      PROVE  /\ up' = up /\ authored' = authored /\ incomplete' = incomplete
             /\ disk' = disk /\ saved' = saved /\ gap' = gap /\ hidden' = hidden
             /\ held' = held /\ blind' = blind /\ landed' = files /\ up
             /\ bytes' \in [File -> {"absent", "human", "autonomous"}]
             /\ why' \in [File -> {"none", "silent", "cut", "lost", "reset"}]
  BY <1>2 DEF Land, TypeOK, memory, store
<1>3. ASSUME NEW f \in File, Write(f)
      PROVE  TypeOK'
  BY <1>3, <1>2 DEF Write, TypeOK
<1>4. ASSUME NEW files \in SUBSET File, NEW named \in SUBSET File, Run(files, named)
      PROVE  TypeOK'
  BY <1>4, <1>2 DEF Run, TypeOK
<1>5. ASSUME NEW kind \in {"run", "write"}, NEW files \in SUBSET File, Hold(kind, files)
      PROVE  TypeOK'
  <2>1. held'.shown \subseteq held'.files /\ held' \in HeldType
    BY <1>5 DEF Hold, HeldType, Shown, TypeOK
  <2>2. QED  BY <1>5, <2>1 DEF Hold, TypeOK, memory, store, workspace, action, history
<1>6. ASSUME NEW f \in File, Edit(f)
      PROVE  TypeOK'
  BY <1>6 DEF Edit, TypeOK, memory, store, action, history
<1>7. ASSUME NEW f \in File, HideOrShow(f)
      PROVE  TypeOK'
  BY <1>7 DEF HideOrShow, TypeOK, memory, store, action, history
<1>8. CASE RecordWrite
  <2>1. authored \cup landed \in SUBSET File
    BY DEF TypeOK
  <2>2. Update(authored \cup landed)
    BY <1>8 DEF RecordWrite
  <2>3. QED  BY <1>8, <2>1, <2>2, UpdateRemembers DEF RecordWrite, Done, TypeOK, workspace, history
<1>9. CASE RecordRun
  <2>1. (authored \ Cleared(FALSE, touched)) \cup landed \in SUBSET File
    BY DEF TypeOK
  <2>2. Update((authored \ Cleared(FALSE, touched)) \cup landed)
    BY <1>9 DEF RecordRun
  <2>3. QED  BY <1>9, <2>1, <2>2, UpdateRemembers DEF RecordRun, Done, TypeOK, workspace, history
<1>10. CASE RunUnobserved
  <2>1. Persist(authored, TRUE) /\ TRUE \in BOOLEAN /\ authored \in SUBSET File
    BY <1>10 DEF RunUnobserved, TypeOK
  <2>2. QED  BY <1>10, <2>1, PersistRemembers DEF RunUnobserved, Done, TypeOK, workspace, history
<1>11. CASE ReturnsEarly
  BY <1>11 DEF ReturnsEarly, Done, TypeOK, memory, store, workspace
<1>12. CASE Decline
  BY <1>12 DEF Decline, TypeOK, memory, store, workspace, action, history
<1>13. CASE ApproveRun
  <2> DEFINE named == held.files \cap authored
  <2>1. authored \ Cleared(TRUE, named) \in SUBSET File
    BY DEF TypeOK
  <2>2. Update(authored \ Cleared(TRUE, named))
    BY <1>13 DEF ApproveRun
  <2>3. bytes' \in [File -> {"absent", "human", "autonomous"}] /\ blind' \in BOOLEAN
    BY <1>13 DEF ApproveRun, TypeOK, HeldType
  <2>4. up' = up /\ hidden' = hidden /\ pc' = pc /\ landed' = landed
        /\ touched' = touched /\ why' = why /\ held' = None /\ up
    BY <1>13 DEF ApproveRun, action, TypeOK
  <2> HIDE DEF named
  <2>5. QED  BY <2>1, <2>2, <2>3, <2>4, UpdateRemembers DEF TypeOK
<1>14. CASE ApproveWrite
  <2>1. authored \ Cleared(TRUE, held.files) \in SUBSET File
    BY DEF TypeOK
  <2>2. Update(authored \ Cleared(TRUE, held.files)) \/ UNCHANGED <<memory, store>>
    BY <1>14 DEF ApproveWrite
  <2>3. /\ authored' \subseteq File /\ incomplete' \in BOOLEAN
        /\ disk' \in {"missing", "bad", "good"} /\ saved' \subseteq File /\ gap' \in BOOLEAN
    BY <2>1, <2>2, UpdateRemembers DEF TypeOK, memory, store
  <2>4. bytes' \in [File -> {"absent", "human", "autonomous"}]
    BY <1>14 DEF ApproveWrite, TypeOK
  <2>5. up' = up /\ hidden' = hidden /\ pc' = pc /\ landed' = landed
        /\ touched' = touched /\ why' = why /\ blind' = blind /\ held' = None /\ up
    BY <1>14 DEF ApproveWrite, action, history, TypeOK
  <2>6. QED  BY <2>3, <2>4, <2>5 DEF TypeOK
<1>15. CASE End
  <2>1. why' \in [File -> {"none", "silent", "cut", "lost", "reset"}]
    BY <1>15 DEF End, TypeOK
  <2>2. QED  BY <1>15, <2>1 DEF End, Done, TypeOK, store, workspace
<1>16. CASE Start
  <2>1. Pruned(Loaded) \subseteq File
    BY DEF TypeOK, Pruned, Loaded
  <2>2. QED  BY <1>16, <2>1, StartRemembers DEF Start, TypeOK, workspace, action, history
<1>17. CASE Corrupt
  BY <1>17 DEF Corrupt, TypeOK, memory, workspace, action, history
<1>18. CASE Remove
  BY <1>18 DEF Remove, TypeOK, memory, workspace, action
<1>19. QED
  BY <1>1, <1>3, <1>4, <1>5, <1>6, <1>7, <1>8, <1>9, <1>10, <1>11, <1>12, <1>13, <1>14,
     <1>15, <1>16, <1>17, <1>18 DEF Next

-----------------------------------------------------------------------------
(* What each step does to what is known of autonomous bytes. *)

LEMMA LandKeeps ==
  ASSUME DropsInv, NEW files \in SUBSET File, Land(files)
  PROVE  \A f \in File : bytes'[f] = "autonomous" => (f \in landed' \/ Known(f)')
<1> SUFFICES ASSUME NEW f \in File, bytes'[f] = "autonomous", f \notin landed'
             PROVE  Known(f)'
  OBVIOUS
<1>1. f \notin files /\ bytes[f] = "autonomous" /\ why'[f] = why[f]
  BY DEF Land, DropsInv, TypeOK
<1>2. Known(f)
  BY <1>1 DEF Land, DropsInv, DropsKept
<1>3. QED
  BY <1>1, <1>2 DEF Land, Known, memory

\* A clear by hand leaves human bytes; a recording keeps the manifest.
LEMMA RunningKeeps ==
  ASSUME DropsInv, up,
         RecordWrite \/ RecordRun \/ RunUnobserved \/ ReturnsEarly
           \/ ApproveRun \/ ApproveWrite
  PROVE  up' /\ \A f \in File : bytes'[f] = "autonomous" => (f \in landed' \/ Known(f)')
<1>0. up'
  BY DEF RecordWrite, RecordRun, RunUnobserved, ReturnsEarly, ApproveRun, ApproveWrite
<1> SUFFICES ASSUME NEW f \in File, bytes'[f] = "autonomous", f \notin landed'
             PROVE  Known(f)'
  BY <1>0
<1>1. bytes[f] = "autonomous" => (f \in landed \/ Known(f))
  BY DEF DropsInv, DropsKept
<1>2. CASE RecordWrite
  <2>1. Update(authored \cup landed) /\ authored \cup landed \in SUBSET File
    BY <1>2 DEF RecordWrite, DropsInv, TypeOK
  <2>2. bytes' = bytes /\ why' = why
    BY <1>2 DEF RecordWrite, workspace, history
  <2>3. QED  BY <1>1, <2>1, <2>2, UpdateRemembers DEF Known, DropsInv
<1>3. CASE RecordRun
  <2> DEFINE manifest == (authored \ Cleared(FALSE, touched)) \cup landed
  <2>1. Update(manifest) /\ manifest \in SUBSET File
    BY <1>3 DEF RecordRun, DropsInv, TypeOK
  <2>2. bytes' = bytes /\ why' = why
    BY <1>3 DEF RecordRun, workspace, history
  <2>3. authored \cup landed \subseteq manifest
    BY DEF Cleared
  <2> HIDE DEF manifest
  <2>4. QED  BY <1>1, <2>1, <2>2, <2>3, UpdateRemembers DEF Known, DropsInv
<1>4. CASE RunUnobserved
  <2>1. Persist(authored, TRUE) /\ TRUE \in BOOLEAN /\ authored \in SUBSET File
    BY <1>4 DEF RunUnobserved, DropsInv, TypeOK
  <2>2. incomplete'
    BY <2>1, PersistRemembers DEF DropsInv
  <2>3. QED  BY <2>2 DEF Known
<1>5. CASE ReturnsEarly
  <2>1. bytes'[f] = bytes[f] /\ authored' = authored /\ incomplete' = incomplete
    BY <1>5 DEF ReturnsEarly, memory, workspace
  <2>2. CASE f \in landed \ authored
    BY <1>5, <2>2 DEF ReturnsEarly, Known
  <2>3. CASE f \notin landed \ authored
    <3>1. why'[f] = why[f]
      BY <1>5, <2>3 DEF ReturnsEarly, DropsInv, TypeOK
    <3>2. QED  BY <1>1, <2>1, <2>3, <3>1 DEF Known
  <2>4. QED  BY <2>2, <2>3
<1>6. CASE ApproveRun
  <2> DEFINE named == held.files \cap authored
  <2>1. Update(authored \ Cleared(TRUE, named)) /\ authored \ Cleared(TRUE, named) \in SUBSET File
    BY <1>6 DEF ApproveRun, DropsInv, TypeOK
  <2>2. f \notin named /\ bytes[f] = "autonomous"
    BY <1>6 DEF ApproveRun, DropsInv, TypeOK
  <2>3. why' = why /\ landed' = landed
    BY <1>6 DEF ApproveRun, action
  <2> HIDE DEF named
  <2>4. QED  BY <1>1, <2>1, <2>2, <2>3, UpdateRemembers DEF Known, Cleared, DropsInv
<1>7. CASE ApproveWrite
  <2>1. authored \ Cleared(TRUE, held.files) \in SUBSET File
    BY DEF DropsInv, TypeOK
  <2>2. f \notin held.files /\ bytes[f] = "autonomous"
    BY <1>7 DEF ApproveWrite, DropsInv, TypeOK
  <2>3. why' = why /\ landed' = landed
    BY <1>7 DEF ApproveWrite, action, history
  <2>4. CASE Update(authored \ Cleared(TRUE, held.files))
    BY <1>1, <2>1, <2>2, <2>3, <2>4, UpdateRemembers DEF Known, Cleared, DropsInv
  <2>5. CASE UNCHANGED <<memory, store>>
    BY <1>1, <2>2, <2>3, <2>5 DEF Known, memory
  <2>6. QED  BY <1>7, <2>4, <2>5 DEF ApproveWrite
<1>8. QED
  BY <1>2, <1>3, <1>4, <1>5, <1>6, <1>7

\* What a session does not leave in the store when it ends is given up.
LEMMA EndKeeps ==
  ASSUME DropsInv, End
  PROVE  ~up' /\ \A f \in File : bytes'[f] = "autonomous" => Kept(f)'
<1>1. ~up' /\ bytes' = bytes /\ (\A f \in File : Durable(f)' = Durable(f))
  BY DEF End, Durable, store, workspace
<1> SUFFICES ASSUME NEW f \in File, bytes[f] = "autonomous", ~Durable(f)
             PROVE  why'[f] # "none"
  BY <1>1 DEF Kept
<1>2. CASE why[f] # "none"
  BY <1>2 DEF End
<1>3. CASE why[f] = "none"
  BY <1>3 DEF End
<1>4. QED
  BY <1>2, <1>3

\* A session that starts knows what is durable.
LEMMA StartKeeps ==
  ASSUME DropsInv, Start
  PROVE  up' /\ \A f \in File : bytes'[f] = "autonomous" => Known(f)'
<1>1. up' /\ ~up /\ bytes' = bytes /\ why' = why
  BY DEF Start, workspace, history
<1> SUFFICES ASSUME NEW f \in File, bytes[f] = "autonomous"
             PROVE  Known(f)'
  BY <1>1
<1>2. Kept(f) /\ TypeOK
  BY <1>1 DEF DropsInv, DropsKept
<1>3. Durable(f) => (Degraded \/ f \in Pruned(Loaded))
  BY DEF Durable, Degraded, Loaded, Pruned
<1>4. QED
  BY <1>1, <1>2, <1>3, StartRemembers DEF Kept, Known

-----------------------------------------------------------------------------
LEMMA DropsInvInit ==
  ASSUME Init
  PROVE  DropsInv
<1>1. TypeOK
  BY DEF Init, TypeOK
<1>2. QED
  BY <1>1 DEF Init, DropsInv, DropsKept

LEMMA DropsInvStep ==
  ASSUME DropsInv, [Next]_vars
  PROVE  DropsInv'
<1>1. TypeOK'
  BY TypeStep
<1>2. (pc = "idle" => landed = {})'
  <2>1. CASE UNCHANGED vars
    BY <2>1 DEF vars, action, DropsInv
  <2>2. CASE Next
    BY <2>2 DEF Next, DropsInv, Land, Write, Run, Done, RecordWrite, RecordRun, RunUnobserved,
       ReturnsEarly, Hold, Decline, ApproveRun, ApproveWrite, End, Start, Corrupt, Remove,
       Edit, HideOrShow, action
  <2>3. QED  BY <2>1, <2>2
<1>3. DropsKept'
  <2> USE DEF DropsInv
  <2>1. ASSUME up' = up, landed' = landed, why' = why, UNCHANGED <<memory, store>>,
               \A f \in File : bytes'[f] = "autonomous" => bytes[f] = "autonomous"
        PROVE  DropsKept'
    BY <2>1 DEF DropsKept, Known, Kept, Durable, memory, store
  <2>2. CASE UNCHANGED vars
    <3>1. up' = up /\ landed' = landed /\ why' = why /\ bytes' = bytes
      BY <2>2 DEF vars, workspace, action, history
    <3>2. UNCHANGED <<memory, store>>
      BY <2>2 DEF vars
    <3>3. QED  BY <2>1, <3>1, <3>2
  <2>3. ASSUME NEW files \in SUBSET File, Land(files)
        PROVE  DropsKept'
    BY <2>3, LandKeeps DEF Land, DropsKept
  <2>3a. ASSUME NEW f \in File, Write(f)
         PROVE  DropsKept'
    BY <2>3, <2>3a DEF Write
  <2>3b. ASSUME NEW files \in SUBSET File, NEW named \in SUBSET File, Run(files, named)
         PROVE  DropsKept'
    BY <2>3, <2>3b DEF Run
  <2>4. ASSUME NEW kind \in {"run", "write"}, NEW files \in SUBSET File, Hold(kind, files)
        PROVE  DropsKept'
    BY <2>1, <2>4 DEF Hold, memory, store, workspace, action, history
  <2>5. ASSUME NEW f \in File, Edit(f)
        PROVE  DropsKept'
    <3>1. \A g \in File : bytes'[g] = "autonomous" => bytes[g] = "autonomous"
      BY <2>5 DEF Edit, TypeOK
    <3>2. QED  BY <2>1, <2>5, <3>1 DEF Edit, memory, store, action, history
  <2>6. ASSUME NEW f \in File, HideOrShow(f)
        PROVE  DropsKept'
    BY <2>1, <2>6 DEF HideOrShow, memory, store, action, history
  <2>7. CASE RecordWrite \/ RecordRun \/ RunUnobserved \/ ReturnsEarly
               \/ ApproveRun \/ ApproveWrite
    <3>1. up
      BY <2>7 DEF RecordWrite, RecordRun, RunUnobserved, ReturnsEarly, ApproveRun,
         ApproveWrite, TypeOK
    <3>2. QED  BY <2>7, <3>1, RunningKeeps DEF DropsKept
  <2>8. CASE Decline
    <3>1. up' = up /\ landed' = landed /\ why' = why /\ bytes' = bytes
      BY <2>8 DEF Decline, workspace, action, history
    <3>2. UNCHANGED <<memory, store>>
      BY <2>8 DEF Decline
    <3>3. QED  BY <2>1, <3>1, <3>2
  <2>9. CASE End
    BY <2>9, EndKeeps DEF DropsKept
  <2>10. CASE Start
    BY <2>10, StartKeeps DEF DropsKept
  <2>11. CASE Corrupt
    <3>1. /\ up' = up /\ landed' = landed /\ why' = why /\ bytes' = bytes
          /\ authored' = authored /\ incomplete' = incomplete
          /\ disk = "good" /\ disk' = "bad"
      BY <2>11 DEF Corrupt, memory, workspace, action, history
    <3>2. QED  BY <3>1 DEF DropsKept, Known, Kept, Durable
  <2>12. CASE Remove
    <3>1. /\ up' = up /\ landed' = landed /\ bytes' = bytes
          /\ \A f \in File : bytes[f] = "autonomous" => why'[f] # "none"
      BY <2>12 DEF Remove, workspace, action
    <3>2. QED  BY <3>1 DEF DropsKept, Known, Kept
  <2>13. QED
    BY <2>2, <2>3a, <2>3b, <2>4, <2>5, <2>6, <2>7, <2>8, <2>9, <2>10, <2>11, <2>12 DEF Next
<1>4. QED
  BY <1>1, <1>2, <1>3 DEF DropsInv

-----------------------------------------------------------------------------
(* The manifest, the store and the held action keep their types.           *)
THEOREM ProvenanceTypeCorrect == Spec => []TypeOK
<1>1. DropsInv => TypeOK
  BY DEF DropsInv
<1>2. QED
  BY <1>1, DropsInvInit, DropsInvStep, PTL DEF Spec

(* However sessions, saves, corruptions and edits follow one another,      *)
(* bytes an autonomous action left are in the manifest, or the session     *)
(* says so, but for the named ways they are given up.                      *)
THEOREM DropsStayKnown == Spec => []DropsAreKnown
<1>1. DropsInv => DropsAreKnown
  BY DEF DropsInv, DropsKept, DropsAreKnown, Known
<1>2. QED
  BY <1>1, DropsInvInit, DropsInvStep, PTL DEF Spec

(* No step of a session but a human's hand takes a file off the manifest   *)
(* (session.py:318-329, governance.py:874 and 927).                        *)
THEOREM HandsClear == Spec => OnlyAHandClears
<1>1. ASSUME DropsInv, [Next]_vars, NEW f \in authored \ authored', up'
      PROVE  bytes'[f] # "autonomous"
  <2>0. TypeOK
    BY <1>1 DEF DropsInv
  <2>1. ~UNCHANGED <<memory, store>>
    BY <1>1 DEF memory
  <2>2. Next
    BY <1>1, <2>1 DEF vars
  <2>3. ~RecordWrite
    <3>1. SUFFICES ASSUME RecordWrite PROVE FALSE
      OBVIOUS
    <3>2. Update(authored \cup landed) /\ authored \cup landed \in SUBSET File
      BY <2>0, <3>1 DEF RecordWrite, TypeOK
    <3>3. QED  BY <2>0, <1>1, <3>2, UpdateRemembers
  <2>4. ~RecordRun
    <3>1. SUFFICES ASSUME RecordRun PROVE FALSE
      OBVIOUS
    <3>2. Update((authored \ Cleared(FALSE, touched)) \cup landed)
          /\ (authored \ Cleared(FALSE, touched)) \cup landed \in SUBSET File
      BY <2>0, <3>1 DEF RecordRun, TypeOK
    <3>3. authored' = (authored \ Cleared(FALSE, touched)) \cup landed
      BY <2>0, <3>2, UpdateRemembers
    <3>4. QED  BY <1>1, <3>3 DEF Cleared
  <2>5. ~RunUnobserved
    BY <1>1 DEF RunUnobserved, Persist
  <2>6. ~Start
    BY <2>0, <1>1 DEF Start, TypeOK
  <2>7. ~End
    BY <1>1 DEF End
  <2>8. CASE ApproveRun
    <3> DEFINE named == held.files \cap authored
    <3>1. Update(authored \ Cleared(TRUE, named)) /\ authored \ Cleared(TRUE, named) \in SUBSET File
      BY <2>0, <2>8 DEF ApproveRun, TypeOK
    <3>2. f \in named /\ f \in File
      BY <2>0, <1>1, <3>1, UpdateRemembers DEF Cleared, TypeOK
    <3>3. bytes'[f] = IF bytes[f] # "absent" THEN "human" ELSE bytes[f]
      BY <2>0, <2>8, <3>2 DEF ApproveRun, TypeOK
    <3>4. QED  BY <3>3
  <2>9. CASE ApproveWrite
    <3>1. Update(authored \ Cleared(TRUE, held.files))
          /\ authored \ Cleared(TRUE, held.files) \in SUBSET File
      BY <2>0, <2>1, <2>9 DEF ApproveWrite, TypeOK
    <3>2. f \in held.files /\ f \in File
      BY <2>0, <1>1, <3>1, UpdateRemembers DEF Cleared, TypeOK
    <3>3. QED  BY <2>0, <2>9, <3>2 DEF ApproveWrite, TypeOK
  <2>10. QED
    BY <2>1, <2>2, <2>3, <2>4, <2>5, <2>6, <2>7, <2>8, <2>9 DEF Next, Write, Run, Land, Hold,
       Edit, HideOrShow, ReturnsEarly, Decline, Corrupt, Remove, memory
<1>2. DropsInv /\ [Next]_vars =>
        [\A f \in authored \ authored' : bytes'[f] # "autonomous" \/ ~up']_vars
  BY <1>1
<1>3. QED
  BY <1>2, DropsInvInit, DropsInvStep, PTL DEF Spec, OnlyAHandClears
=============================================================================
