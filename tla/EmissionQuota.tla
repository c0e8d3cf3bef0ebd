--------------------------- MODULE EmissionQuota ---------------------------
(***************************************************************************)
(* The per-destination emission quota (collaborator/session.py             *)
(* emission_allowed, consume_emission, _persist_emission_counts;           *)
(* emissionquotastore.py; durablestate.atomic_write) and the dispatch      *)
(* point that uses it (governance.execute_and_verify): check, count, save, *)
(* send, each a step of its own, because the process may end between any   *)
(* two of them and a later session starts from the file.                   *)
(*                                                                         *)
(* Abstracted: the MAC and the subject (a store either verifies or it does *)
(* not), and the payload of an emission.                                   *)
(***************************************************************************)
EXTENDS Naturals

CONSTANTS
  Host,      \* canonical destination hosts
  Limit,     \* emission_quota: the cap of a host, or NoLimit
  NoLimit,   \* "unlimited"
  HasStore,  \* is a durable store configured?
  MaxCount,  \* bound on the emissions counted, and let out, per host
  MaxFaults  \* bound on failed saves per host

ASSUME QuotaAssumption ==
  /\ NoLimit \notin Nat
  /\ Limit \in [Host -> Nat \cup {NoLimit}]
  /\ HasStore \in BOOLEAN
  /\ MaxCount \in Nat /\ MaxFaults \in Nat

VARIABLES
  up,         \* is a session running?
  count,      \* _emission_counts
  untrusted,  \* _emission_store_untrusted
  disk,       \* the store: "missing", "bad" (does not verify) or "good"
  saved,      \* the counts a good store holds
  pc,         \* where the dispatch of an emission is
  dest,       \* its destination
  sent,       \* history: emissions that left, since the operator last reset
  here,       \* history: emissions that left in this session
  faults      \* history: emissions that left although their save had failed

memory == <<up, count, untrusted>>
store  == <<disk, saved>>
past   == <<sent, here, faults>>
vars   == <<memory, store, pc, dest, past>>

Zero == [h \in Host |-> 0]
Limited == {h \in Host : Limit[h] # NoLimit}

Plus(f, h) == [f EXCEPT ![h] = @ + 1]

Init ==
  /\ up = TRUE /\ count = Zero /\ untrusted = FALSE
  /\ disk = "missing" /\ saved = Zero
  /\ pc = "idle" /\ dest \in Host
  /\ sent = Zero /\ here = Zero /\ faults = Zero

-----------------------------------------------------------------------------
(* The dispatch of one emission. *)

EmissionAllowed_AtLimit(h) == h \in Limited => ~untrusted /\ count[h] <= Limit[h]

EmissionAllowed(h) == h \in Limited => ~untrusted /\ count[h] < Limit[h]

Check(h) ==
  /\ up /\ pc = "idle"
  /\ sent[h] < MaxCount /\ here[h] < MaxCount /\ count[h] < MaxCount
  /\ EmissionAllowed(h)
  /\ dest' = h
  /\ pc' = "count"
  /\ UNCHANGED <<memory, store, past>>

Persisting_Always == HasStore

\* a store that could not be trusted is never written
Persisting == HasStore /\ ~untrusted

CountAfter == Plus(count, dest)

ConsumeEmission ==
  /\ pc = "count"
  /\ count' = CountAfter
  /\ pc' = IF Persisting THEN "save" ELSE "send"
  /\ UNCHANGED <<up, untrusted, store, dest, past>>

\* a whole new file replaces the old one, or the old one stays
SaveSucceeds ==
  /\ pc = "save"
  /\ disk' = "good" /\ saved' = count
  /\ pc' = "send"
  /\ UNCHANGED <<memory, dest, past>>

SaveFails ==
  /\ pc = "save"
  /\ faults[dest] < MaxFaults
  /\ untrusted' = TRUE
  /\ faults' = Plus(faults, dest)
  /\ pc' = "send"
  /\ UNCHANGED <<up, count, store, dest, sent, here>>

\* the bytes leave, or the transport fails before they do
Send ==
  /\ pc = "send"
  /\ pc' = "idle"
  /\ \/ sent' = Plus(sent, dest) /\ here' = Plus(here, dest)
     \/ UNCHANGED <<sent, here>>
  /\ UNCHANGED <<memory, store, dest, faults>>

-----------------------------------------------------------------------------
(* The end of a session, the start of the next, and what may happen to the *)
(* store meanwhile.                                                        *)

Crash ==
  /\ up
  /\ up' = FALSE /\ count' = Zero /\ untrusted' = FALSE
  /\ pc' = "idle"
  /\ UNCHANGED <<store, dest, past>>

LoadTrusted_Any == TRUE

LoadTrusted == disk # "bad"

Start ==
  /\ ~up
  /\ up' = TRUE
  /\ count' = IF HasStore /\ disk = "good" THEN saved ELSE Zero
  /\ untrusted' = (HasStore /\ ~LoadTrusted)
  /\ here' = Zero
  /\ UNCHANGED <<store, pc, dest, sent, faults>>

Corrupt ==
  /\ disk = "good"
  /\ disk' = "bad"
  /\ UNCHANGED <<memory, saved, pc, dest, past>>

\* the operator removes the store: a fresh budget, by intent
Resolve ==
  /\ disk # "missing" /\ pc = "idle"
  /\ disk' = "missing" /\ saved' = Zero
  /\ sent' = Zero /\ faults' = Zero
  /\ UNCHANGED <<memory, pc, dest, here>>

Next ==
  \/ \E h \in Host : Check(h)
  \/ ConsumeEmission \/ SaveSucceeds \/ SaveFails \/ Send
  \/ Crash \/ Start \/ Corrupt \/ Resolve

Spec == Init /\ [][Next]_vars

-----------------------------------------------------------------------------
Counts == [Host -> Nat]

(* Types; only a running session dispatches, and only one that may write a  *)
(* store is ever at its save.                                              *)
TypeOK ==
  /\ up \in BOOLEAN /\ untrusted \in BOOLEAN
  /\ pc # "idle" => up
  /\ pc = "save" => (HasStore /\ ~untrusted)
  /\ count \in Counts /\ saved \in Counts
  /\ disk \in {"missing", "bad", "good"}
  /\ pc \in {"idle", "count", "save", "send"} /\ dest \in Host
  /\ sent \in Counts /\ here \in Counts /\ faults \in Counts

(* In one session no limited host gets more than its cap, with or without  *)
(* a store, whatever saves fail (session.py emission_allowed).             *)
WithinSession == \A h \in Limited : here[h] <= Limit[h]

(* Across any number of sessions, crashes between any two steps and        *)
(* corruptions of the store, a limited host gets more than its cap only    *)
(* by as many emissions as had their save fail (session.py 400-416, the    *)
(* fail-closed direction of the durable bound).                            *)
WithinBudget ==
  HasStore => \A h \in Limited : sent[h] <= Limit[h] + faults[h]

(* A store that was found untrusted is not overwritten by the session that *)
(* found it so: only the operator clears the condition (session.py         *)
(* 403-405, "do NOT write").                                               *)
BadStoreStays ==
  [][untrusted /\ disk = "bad" => disk' \in {"bad", "missing"}]_vars

(* session.py:176-177: "the per-host emission count persists across        *)
(* sessions, so a restart cannot RESET the quota": with a store, no        *)
(* sequence of restarts lets more than the cap out.                        *)
RestartKeepsBudget == HasStore => \A h \in Limited : sent[h] <= Limit[h]
=============================================================================
