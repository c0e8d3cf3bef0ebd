--------------------------- MODULE DurableProofs ---------------------------
(***************************************************************************)
(* Proofs about the two records a session keeps on disk: the store of the  *)
(* emission quota (EmissionQuota), for every set of hosts and every quota, *)
(* and the salience bus (SalienceBus), for every set of payloads and every *)
(* length of the record.  The names of the bus's specification begin with  *)
(* Bus, so both can be proved about here.                                  *)
(***************************************************************************)
EXTENDS EmissionQuota, SalienceBus, FiniteSetTheorems, WellFoundedInduction, SequenceTheorems, TLAPS

(* The emission quota *)

Sending(h) == pc = "send" /\ dest = h

\* what a trusted session, a store that would load, and the past know of h
MemoryCovers(h) ==
  up /\ ~untrusted =>
    /\ sent[h] <= count[h] + faults[h]
    /\ pc \in {"save", "send"} /\ dest = h => sent[h] + 1 <= count[h] + faults[h]

StoreCovers(h) ==
  disk # "bad" =>
    /\ sent[h] <= saved[h] + faults[h]
    /\ Sending(h) => sent[h] + 1 <= saved[h] + faults[h]

CountsWithinLimit(h) ==
  /\ count[h] <= Limit[h] /\ saved[h] <= Limit[h]
  /\ pc = "count" /\ dest = h => count[h] + 1 <= Limit[h] /\ ~untrusted

BudgetLeft(h) ==
  /\ sent[h] <= Limit[h] + faults[h]
  /\ Sending(h) => sent[h] + 1 <= Limit[h] + faults[h]

BudgetInv ==
  /\ disk = "missing" => saved = Zero
  /\ \A h \in Limited :
       MemoryCovers(h) /\ StoreCovers(h) /\ CountsWithinLimit(h) /\ BudgetLeft(h)

LEMMA PlusType ==
  ASSUME NEW f \in Counts, NEW h \in Host
  PROVE  /\ Plus(f, h) \in Counts
         /\ Plus(f, h)[h] = f[h] + 1
         /\ \A g \in Host : g # h => Plus(f, h)[g] = f[g]
  BY DEF Plus, Counts

LEMMA ZeroType == Zero \in Counts /\ \A h \in Host : Zero[h] = 0
  BY DEF Zero, Counts

\* The variables keep their types (the memory of a Session and its store).
THEOREM QuotaTypeCorrect == Spec => []TypeOK
<1>1. Init => TypeOK
  BY ZeroType DEF Init, TypeOK
<1>2. TypeOK /\ [Next]_vars => TypeOK'
  <2> SUFFICES ASSUME TypeOK, [Next]_vars PROVE TypeOK'
    OBVIOUS
  <2> USE DEF TypeOK, Persisting
  <2>1. ASSUME NEW h \in Host, Check(h) PROVE TypeOK'
    BY <2>1 DEF Check, memory, store, past
  <2>2. CASE ConsumeEmission
    BY <2>2, PlusType DEF ConsumeEmission, CountAfter, store, past
  <2>3. CASE SaveSucceeds
    BY <2>3 DEF SaveSucceeds, memory, past
  <2>4. CASE SaveFails
    BY <2>4, PlusType DEF SaveFails, store
  <2>5. CASE Send
    BY <2>5, PlusType DEF Send, memory, store
  <2>6. CASE Crash
    BY <2>6, ZeroType DEF Crash, store, past
  <2>7. CASE Start
    BY <2>7, ZeroType, QuotaAssumption DEF Start, store, LoadTrusted
  <2>8. CASE Corrupt
    BY <2>8 DEF Corrupt, memory, past
  <2>9. CASE Resolve
    BY <2>9, ZeroType DEF Resolve, memory
  <2>10. CASE UNCHANGED vars
    BY <2>10 DEF vars, memory, store, past
  <2> QED
    BY <2>1, <2>2, <2>3, <2>4, <2>5, <2>6, <2>7, <2>8, <2>9, <2>10 DEF Next
<1> QED
  BY <1>1, <1>2, PTL DEF Spec

LEMMA LimitIsNat == \A h \in Limited : h \in Host /\ Limit[h] \in Nat
  BY QuotaAssumption DEF Limited

\* One step keeps the accounts of every limited host in order.
LEMMA BudgetStep ==
  ASSUME HasStore, TypeOK, TypeOK', BudgetInv, [Next]_vars
  PROVE  BudgetInv'
<1> USE LimitIsNat
<1>0. /\ \A h \in Host : /\ count[h] \in Nat /\ saved[h] \in Nat
                         /\ sent[h] \in Nat /\ faults[h] \in Nat
      /\ dest \in Host
      /\ pc # "idle" => up
      /\ pc = "save" => ~untrusted
  BY DEF TypeOK, Counts, Persisting
<1>1. ASSUME NEW g \in Host, Check(g) PROVE BudgetInv'
  <2> USE <1>1 DEF Check, memory, store, past
  <2>1. pc = "idle" /\ pc' = "count" /\ up' = up /\ up /\ dest' = g
    OBVIOUS
  <2>2. ASSUME NEW h \in Limited
        PROVE  (MemoryCovers(h) /\ StoreCovers(h) /\ CountsWithinLimit(h) /\ BudgetLeft(h))'
    BY <1>0, <2>1
       DEF BudgetInv, MemoryCovers, StoreCovers, CountsWithinLimit, BudgetLeft, Sending,
           EmissionAllowed
  <2> QED
    BY <2>1, <2>2 DEF BudgetInv
<1>2. CASE ConsumeEmission
  <2> USE <1>2 DEF ConsumeEmission, store, past
  <2>1. count' = Plus(count, dest) /\ count \in Counts
    BY DEF CountAfter, TypeOK
  <2>2. /\ count'[dest] = count[dest] + 1
        /\ \A h \in Host : h # dest => count'[h] = count[h]
    BY <1>0, <2>1, PlusType
  <2>3. pc = "count" /\ dest' = dest /\ pc' \in {"save", "send"}
        /\ (pc' = "send" => untrusted) /\ (pc' = "save" => ~untrusted)
    BY DEF Persisting
  <2>4. ASSUME NEW h \in Limited
        PROVE  (MemoryCovers(h) /\ StoreCovers(h) /\ CountsWithinLimit(h) /\ BudgetLeft(h))'
    <3>1. dest = h => pc' = "save" /\ count[h] + 1 <= Limit[h]
      BY <2>3 DEF BudgetInv, CountsWithinLimit
    <3>2. MemoryCovers(h) /\ StoreCovers(h) /\ CountsWithinLimit(h) /\ BudgetLeft(h)
      BY DEF BudgetInv
    <3>3. CASE dest = h
      BY <1>0, <2>2, <2>3, <3>1, <3>2, <3>3
         DEF MemoryCovers, StoreCovers, CountsWithinLimit, BudgetLeft, Sending
    <3>4. CASE dest # h
      BY <1>0, <2>2, <2>3, <3>2, <3>4
         DEF MemoryCovers, StoreCovers, CountsWithinLimit, BudgetLeft, Sending
    <3> QED
      BY <3>3, <3>4
  <2> QED
    BY <2>3, <2>4 DEF BudgetInv
<1>3. CASE SaveSucceeds
  <2> USE <1>3 DEF SaveSucceeds, memory, past
  <2>1. ASSUME NEW h \in Limited
        PROVE  (MemoryCovers(h) /\ StoreCovers(h) /\ CountsWithinLimit(h) /\ BudgetLeft(h))'
    BY <1>0 DEF BudgetInv, MemoryCovers, StoreCovers, CountsWithinLimit, BudgetLeft, Sending
  <2> QED
    BY <1>0, <2>1 DEF BudgetInv
<1>4. CASE SaveFails
  <2> USE <1>4 DEF SaveFails, store
  <2>1. /\ faults'[dest] = faults[dest] + 1
        /\ \A h \in Host : h # dest => faults'[h] = faults[h]
    BY <1>0, PlusType DEF TypeOK
  <2>2. ASSUME NEW h \in Limited
        PROVE  (MemoryCovers(h) /\ StoreCovers(h) /\ CountsWithinLimit(h) /\ BudgetLeft(h))'
    <3>1. MemoryCovers(h) /\ StoreCovers(h) /\ CountsWithinLimit(h) /\ BudgetLeft(h)
      BY DEF BudgetInv
    <3>2. CASE dest = h
      BY <1>0, <2>1, <3>1, <3>2
         DEF MemoryCovers, StoreCovers, CountsWithinLimit, BudgetLeft, Sending
    <3>3. CASE dest # h
      BY <1>0, <2>1, <3>1, <3>3
         DEF MemoryCovers, StoreCovers, CountsWithinLimit, BudgetLeft, Sending
    <3> QED
      BY <3>2, <3>3
  <2> QED
    BY <2>2 DEF BudgetInv
<1>5. CASE Send
  <2> USE <1>5 DEF Send, memory, store
  <2>1. ASSUME NEW h \in Limited
        PROVE  (MemoryCovers(h) /\ StoreCovers(h) /\ CountsWithinLimit(h) /\ BudgetLeft(h))'
    <3>1. MemoryCovers(h) /\ StoreCovers(h) /\ CountsWithinLimit(h) /\ BudgetLeft(h)
      BY DEF BudgetInv
    <3>2. sent'[h] = IF dest = h /\ sent' # sent THEN sent[h] + 1 ELSE sent[h]
      BY <1>0, PlusType DEF TypeOK
    <3> QED
      BY <1>0, <3>1, <3>2
         DEF MemoryCovers, StoreCovers, CountsWithinLimit, BudgetLeft, Sending
  <2> QED
    BY <2>1 DEF BudgetInv
<1>6. CASE Crash
  <2> USE <1>6, ZeroType DEF Crash, store, past
  <2>1. ASSUME NEW h \in Limited
        PROVE  (MemoryCovers(h) /\ StoreCovers(h) /\ CountsWithinLimit(h) /\ BudgetLeft(h))'
    BY <1>0 DEF BudgetInv, MemoryCovers, StoreCovers, CountsWithinLimit, BudgetLeft, Sending
  <2> QED
    BY <2>1 DEF BudgetInv
<1>7. CASE Start
  <2> USE <1>7, ZeroType DEF Start, store, LoadTrusted
  <2>1. ~untrusted' => /\ disk # "bad"
                       /\ \A h \in Host : count'[h] = saved[h]
    BY DEF BudgetInv, TypeOK
  <2>2. \A h \in Host : count'[h] = saved[h] \/ count'[h] = 0
    OBVIOUS
  <2>3. ASSUME NEW h \in Limited
        PROVE  (MemoryCovers(h) /\ StoreCovers(h) /\ CountsWithinLimit(h) /\ BudgetLeft(h))'
    BY <1>0, <2>1, <2>2
       DEF BudgetInv, MemoryCovers, StoreCovers, CountsWithinLimit, BudgetLeft, Sending
  <2> QED
    BY <2>3 DEF BudgetInv
<1>8. CASE Corrupt
  <2> USE <1>8 DEF Corrupt, memory, past
  <2>1. ASSUME NEW h \in Limited
        PROVE  (MemoryCovers(h) /\ StoreCovers(h) /\ CountsWithinLimit(h) /\ BudgetLeft(h))'
    BY <1>0 DEF BudgetInv, MemoryCovers, StoreCovers, CountsWithinLimit, BudgetLeft, Sending
  <2> QED
    BY <2>1 DEF BudgetInv
<1>9. CASE Resolve
  <2> USE <1>9, ZeroType DEF Resolve, memory
  <2>1. ASSUME NEW h \in Limited
        PROVE  (MemoryCovers(h) /\ StoreCovers(h) /\ CountsWithinLimit(h) /\ BudgetLeft(h))'
    BY <1>0 DEF BudgetInv, MemoryCovers, StoreCovers, CountsWithinLimit, BudgetLeft, Sending
  <2> QED
    BY <2>1 DEF BudgetInv
<1>10. CASE UNCHANGED vars
  BY <1>10 DEF vars, memory, store, past, BudgetInv, MemoryCovers, StoreCovers,
               CountsWithinLimit, BudgetLeft, Sending
<1> QED
  BY <1>1, <1>2, <1>3, <1>4, <1>5, <1>6, <1>7, <1>8, <1>9, <1>10 DEF Next

\* With a store, any number of sessions, crashes and corruptions lets out no
\* more than the cap of a host and one emission for each save that failed.
THEOREM BudgetHolds == Spec => []WithinBudget
<1> DEFINE Inv == TypeOK /\ (HasStore => BudgetInv)
<1>1. Init => Inv
  <2>1. Init /\ HasStore => BudgetInv
    BY ZeroType, LimitIsNat
       DEF Init, BudgetInv, MemoryCovers, StoreCovers, CountsWithinLimit, BudgetLeft, Sending
  <2> QED
    BY <2>1, ZeroType DEF Init, TypeOK
<1>2. TypeOK /\ TypeOK' /\ (HasStore => BudgetInv) /\ [Next]_vars => (HasStore => BudgetInv)'
  BY BudgetStep
<1>3. TypeOK /\ (HasStore => BudgetInv) => WithinBudget
  BY DEF WithinBudget, BudgetInv, BudgetLeft
<1> QED
  BY <1>1, <1>2, <1>3, QuotaTypeCorrect, PTL DEF Spec

-----------------------------------------------------------------------------
\* what a session has let out is covered by what it has counted
SessionInv ==
  /\ pc # "idle" => up
  /\ \A h \in Limited :
       /\ here[h] <= Limit[h] /\ count[h] <= Limit[h] /\ saved[h] <= Limit[h]
       /\ pc = "count" /\ dest = h => count[h] + 1 <= Limit[h]
       /\ up => here[h] <= count[h]
       /\ pc \in {"save", "send"} /\ dest = h => here[h] + 1 <= count[h]

LEMMA SessionStep ==
  ASSUME TypeOK, TypeOK', SessionInv, [Next]_vars
  PROVE  SessionInv'
<1> USE LimitIsNat DEF SessionInv
<1>0. /\ \A h \in Host : count[h] \in Nat /\ saved[h] \in Nat /\ here[h] \in Nat
      /\ dest \in Host /\ count \in Counts /\ here \in Counts
  BY DEF TypeOK, Counts
<1>1. ASSUME NEW g \in Host, Check(g) PROVE SessionInv'
  BY <1>0, <1>1 DEF Check, memory, store, past, EmissionAllowed
<1>2. CASE ConsumeEmission
  <2>1. /\ count'[dest] = count[dest] + 1
        /\ \A h \in Host : h # dest => count'[h] = count[h]
    BY <1>0, <1>2, PlusType DEF ConsumeEmission, CountAfter
  <2>2. pc = "count" /\ pc' \in {"save", "send"}
    BY <1>2 DEF ConsumeEmission
  <2> QED
    BY <1>0, <1>2, <2>1, <2>2 DEF ConsumeEmission, store, past
<1>3. CASE SaveSucceeds
  BY <1>0, <1>3 DEF SaveSucceeds, memory, past
<1>4. CASE SaveFails
  BY <1>0, <1>4 DEF SaveFails, store
<1>5. CASE Send
  <2>1. \A h \in Host : here'[h] = here[h] \/ (h = dest /\ here'[h] = here[h] + 1)
    BY <1>0, <1>5, PlusType DEF Send
  <2> QED
    BY <1>0, <1>5, <2>1 DEF Send, memory, store
<1>6. CASE Crash
  BY <1>0, <1>6, ZeroType DEF Crash, store, past
<1>7. CASE Start
  <2>1. \A h \in Host : (count'[h] = saved[h] \/ count'[h] = 0) /\ here'[h] = 0
    BY <1>7, ZeroType DEF Start
  <2> QED
    BY <1>0, <1>7, <2>1 DEF Start, store
<1>8. CASE Corrupt
  BY <1>0, <1>8 DEF Corrupt, memory, past
<1>9. CASE Resolve
  BY <1>0, <1>9, ZeroType DEF Resolve, memory
<1>10. CASE UNCHANGED vars
  BY <1>0, <1>10 DEF vars, memory, store, past
<1> QED
  BY <1>1, <1>2, <1>3, <1>4, <1>5, <1>6, <1>7, <1>8, <1>9, <1>10 DEF Next

\* Whatever saves fail, one session lets out no more than the cap of a host.
THEOREM SessionHolds == Spec => []WithinSession
<1>1. Init => SessionInv
  BY ZeroType, LimitIsNat DEF Init, SessionInv
<1>2. SessionInv => WithinSession
  BY DEF SessionInv, WithinSession
<1> QED
  BY <1>1, <1>2, SessionStep, QuotaTypeCorrect, PTL DEF Spec

\* A session that found its store untrusted never writes it: it is counting,
\* but it never comes to a save.
THEOREM OnlyTheOperatorClears == Spec => BadStoreStays
<1>1. TypeOK /\ [Next]_vars => (untrusted /\ disk = "bad" => disk' \in {"bad", "missing"})
  <2> SUFFICES ASSUME TypeOK, [Next]_vars, untrusted, disk = "bad"
               PROVE  disk' \in {"bad", "missing"}
    OBVIOUS
  <2>1. pc # "save"
    BY DEF TypeOK
  <2>2. ASSUME NEW h \in Host, Check(h) PROVE disk' = disk
    BY <2>2 DEF Check, store
  <2>3. CASE ConsumeEmission \/ SaveFails \/ Send \/ Crash \/ Start
    BY <2>3 DEF ConsumeEmission, SaveFails, Send, Crash, Start, store
  <2>4. CASE SaveSucceeds
    BY <2>1, <2>4 DEF SaveSucceeds
  <2>5. CASE Corrupt \/ Resolve
    BY <2>5 DEF Corrupt, Resolve
  <2>6. CASE UNCHANGED vars
    BY <2>6 DEF vars, store
  <2> QED BY <2>2, <2>3, <2>4, <2>5, <2>6 DEF Next
<1> QED BY <1>1, QuotaTypeCorrect, PTL DEF Spec, BadStoreStays

-----------------------------------------------------------------------------
(* The salience bus.  Induction over a record's lines goes by the least    *)
(* line at which a claim would fail.                                       *)

\* Every nonempty set of numbers has a least one: what an induction needs.
LEMMA LeastNumber ==
  ASSUME NEW T \in SUBSET Nat, T # {}
  PROVE  \E n \in T : \A m \in T : n <= m
<1> DEFINE family == {1..n : n \in T}
<1>1. family \subseteq FiniteSubsetsOf(Nat) /\ family # {}
  <2>1. ASSUME NEW n \in T PROVE 1..n \in SUBSET Nat /\ IsFiniteSet(1..n)
    BY FS_Interval
  <2> QED BY <2>1 DEF FiniteSubsetsOf
<1> HIDE DEF family
<1>2. PICK S \in family : \A R \in family : <<R, S>> \notin StrictSubsetOrdering(Nat)
  BY <1>1, FS_StrictSubsetOrderingWellFounded, WFMin, Zenon
<1>3. PICK n \in T : S = 1..n
  BY <1>2 DEF family
<1>4. ASSUME NEW m \in T, m < n PROVE FALSE
  <2>1. 1..m \subseteq S /\ n \in S /\ n \notin 1..m /\ S \in SUBSET Nat
    BY <1>3, <1>4
  <2>2. <<1..m, S>> \in StrictSubsetOrdering(Nat) /\ 1..m \in family
    BY <2>1 DEF StrictSubsetOrdering, family
  <2> QED BY <1>2, <2>2
<1> QED BY <1>4

-----------------------------------------------------------------------------
(* Chains *)

\* each line continues the one before it, and its hash is its own
Chained(lines) ==
  \A i \in DOMAIN lines :
    /\ lines[i].prev = IF i = 1 THEN << >> ELSE lines[i - 1].hash
    /\ lines[i].hash = Digest(lines[i].payload, lines[i].prev)

Told(lines) == [i \in DOMAIN lines |-> lines[i].payload]

\* a hash tells the line's place and every payload up to it
Tells(lines, i) ==
  /\ Len(lines[i].hash) = i
  /\ \A k \in 1..i : lines[i].hash[k] = lines[k].payload

LEMMA ChainTells ==
  ASSUME NEW lines \in Seq(EntryType), Chained(lines)
  PROVE  \A i \in DOMAIN lines : Tells(lines, i)
<1> DEFINE T == {i \in DOMAIN lines : ~Tells(lines, i)}
<1>1. DOMAIN lines = 1..Len(lines) /\ Len(lines) \in Nat
  BY LenProperties
<1>2. \A i \in DOMAIN lines : lines[i].payload \in Valid /\ lines[i].hash \in Chain
  <2>1. \A i \in DOMAIN lines : lines[i] \in EntryType
    BY <1>1
  <2> QED BY <2>1 DEF EntryType
<1>3. ASSUME NEW n \in T, \A m \in T : n <= m PROVE FALSE
  <2>1. n \in 1..Len(lines) /\ ~Tells(lines, n)
    BY <1>1
  <2>2. CASE n = 1
    <3>1. lines[1].hash = Append(<< >>, lines[1].payload) /\ lines[1].payload \in Valid
      BY <1>1, <1>2, <2>1, <2>2 DEF Chained, Digest
    <3> QED BY <2>1, <2>2, <3>1 DEF Tells
  <2>3. CASE n # 1
    <3>1. n - 1 \in 1..Len(lines) /\ n - 1 \notin T
      BY <1>3, <2>1, <2>3
    <3>2. Tells(lines, n - 1)
      BY <1>1, <3>1
    <3>3. lines[n].hash = Append(lines[n - 1].hash, lines[n].payload)
      BY <1>1, <2>1, <2>3 DEF Chained, Digest
    <3>4. lines[n - 1].hash \in Seq(Valid) /\ lines[n].payload \in Valid
      BY <1>1, <1>2, <2>1, <3>1 DEF Chain
    <3>5. Len(lines[n].hash) = n
      BY <2>1, <3>2, <3>3, <3>4 DEF Tells
    <3>6. ASSUME NEW k \in 1..n PROVE lines[n].hash[k] = lines[k].payload
      <4>1. k \in 1..(n - 1) => lines[n].hash[k] = lines[n - 1].hash[k]
        BY <2>1, <3>2, <3>3, <3>4, AppendProperties DEF Tells
      <4>2. k \notin 1..(n - 1) => k = n
        BY <2>1
      <4>3. lines[n].hash[n] = lines[n].payload
        BY <2>1, <3>2, <3>3, <3>4, AppendProperties DEF Tells
      <4> QED BY <3>2, <4>1, <4>2, <4>3 DEF Tells
    <3> QED BY <2>1, <3>5, <3>6 DEF Tells
  <2> QED BY <2>2, <2>3
<1>4. T \in SUBSET Nat
  BY <1>1
<1>5. T = {}
  <2> HIDE DEF T
  <2> QED BY <1>3, <1>4, LeastNumber
<1> QED BY <1>5

LEMMA ReplayedIsChain ==
  ASSUME NEW lines \in Seq(EntryType \cup {Garbage}), Replays(lines)
  PROVE  /\ lines \in Seq(EntryType)
         /\ Chained(lines)
         /\ \A i \in DOMAIN lines : lines[i] # Garbage
<1>1. DOMAIN lines = 1..Len(lines) /\ Len(lines) \in Nat
      /\ \A i \in DOMAIN lines : lines[i] \in EntryType \cup {Garbage}
  BY LenProperties
<1>2. \A i \in DOMAIN lines : lines[i] # Garbage /\ lines[i] \in EntryType
  BY <1>1 DEF Replays, Intact
<1>3. lines \in Seq(EntryType)
  BY <1>1, <1>2
<1> QED BY <1>2, <1>3 DEF Replays, Intact, Chained

\* the last hash of a chain is the history it tells
LEMMA LastTellsAll ==
  ASSUME NEW lines \in Seq(EntryType), Chained(lines), lines # << >>
  PROVE  Last(lines).hash = Told(lines)
<1>1. /\ DOMAIN lines = 1..Len(lines) /\ Len(lines) \in Nat /\ Len(lines) # 0
      /\ Tells(lines, Len(lines)) /\ lines[Len(lines)].hash \in Seq(Valid)
  <2>1. DOMAIN lines = 1..Len(lines) /\ Len(lines) \in Nat /\ Len(lines) # 0
    BY LenProperties, EmptySeq
  <2>2. lines[Len(lines)] \in EntryType
    BY <2>1
  <2>3. Tells(lines, Len(lines))
    BY <2>1, ChainTells
  <2> QED BY <2>1, <2>2, <2>3 DEF EntryType, Chain
<1> QED BY <1>1 DEF Tells, Told, Last

\* what replays and is made of lines of a chain is a prefix of it
LEMMA OursIsPrefix ==
  ASSUME NEW lines \in Seq(EntryType), Chained(lines),
         NEW held \in Seq(EntryType), Chained(held),
         \A i \in DOMAIN lines : \E j \in DOMAIN held : lines[i] = held[j]
  PROVE  IsPrefix(lines, held)
<1>1. /\ DOMAIN lines = 1..Len(lines) /\ Len(lines) \in Nat
      /\ DOMAIN held = 1..Len(held) /\ Len(held) \in Nat
  BY LenProperties
<1>2. ASSUME NEW i \in DOMAIN lines PROVE i \in DOMAIN held /\ lines[i] = held[i]
  <2>1. PICK j \in DOMAIN held : lines[i] = held[j]
    OBVIOUS
  <2>2. Len(lines[i].hash) = i /\ Len(held[j].hash) = j
    BY ChainTells DEF Tells
  <2> QED BY <2>1, <2>2
<1>3. Len(lines) <= Len(held)
  <2>1. CASE Len(lines) = 0 
    BY <1>1, <2>1
  <2>2. CASE Len(lines) # 0
    BY <1>1, <1>2, <2>2
  <2> QED BY <2>1, <2>2
<1>4. SubSeq(lines, 1, Len(lines)) = SubSeq(held, 1, Len(lines))
  BY <1>1, <1>2, <1>3, Z3T(30)
<1> QED BY <1>3, <1>4 DEF IsPrefix

-----------------------------------------------------------------------------
(* What a step makes of the file *)

FileLine == EntryType \cup {Garbage}

\* every line of the new file is garbage, the one written, or one it held
LEMMA FileAfterLines ==
  ASSUME file \in Seq(FileLine), NEW line \in FileLine
  PROVE  /\ FileAfter(line) \in Seq(FileLine)
         /\ \A i \in DOMAIN FileAfter(line) :
              \/ FileAfter(line)[i] \in {Garbage, line}
              \/ \E j \in DOMAIN file : FileAfter(line)[i] = file[j]
<1>1. DOMAIN file = 1..Len(file) /\ Len(file) \in Nat /\ Garbage \in FileLine
  BY LenProperties DEF FileLine
<1>2. CASE tail
  <2>1. FileAfter(line) = [file EXCEPT ![Len(file)] = Garbage]
    BY <1>2 DEF FileAfter
  <2>2. [file EXCEPT ![Len(file)] = Garbage] \in Seq(FileLine)
    <3>1. file \in [1..Len(file) -> FileLine]
      BY LenProperties
    <3>2. [file EXCEPT ![Len(file)] = Garbage] \in [1..Len(file) -> FileLine]
      BY <1>1, <3>1
    <3> QED BY <1>1, <3>2, SeqDef
  <2>3. \A i \in DOMAIN file : [file EXCEPT ![Len(file)] = Garbage][i] \in {Garbage, file[i]}
    BY <1>1
  <2> QED BY <2>1, <2>2, <2>3
<1>3. CASE ~tail
  <2>1. FileAfter(line) = Append(file, line)
    BY <1>3 DEF FileAfter
  <2>2. /\ Append(file, line) \in Seq(FileLine)
        /\ DOMAIN Append(file, line) = 1..(Len(file) + 1)
        /\ \A i \in 1..Len(file) : Append(file, line)[i] = file[i]
        /\ Append(file, line)[Len(file) + 1] = line
    BY <1>1
  <2> QED BY <1>1, <2>1, <2>2
<1> QED BY <1>2, <1>3

LEMMA AlteredLines ==
  ASSUME NEW f \in Seq(FileLine), NEW g \in Altered(f)
  PROVE  /\ g \in Seq(FileLine)
         /\ \A i \in DOMAIN g : g[i] = Garbage \/ \E j \in DOMAIN f : g[i] = f[j]
<1>1. DOMAIN f = 1..Len(f) /\ Len(f) \in Nat /\ Garbage \in FileLine /\ \A i \in 1..Len(f) : f[i] \in FileLine
  BY LenProperties DEF FileLine
<1>2. ASSUME NEW n \in 1..Len(f), g = RemoveAt(f, n)
      PROVE  /\ g \in Seq(FileLine)
             /\ \A i \in DOMAIN g : \E j \in DOMAIN f : g[i] = f[j]
  <2>1. SubSeq(f, 1, n - 1) \in Seq(FileLine) /\ Len(SubSeq(f, 1, n - 1)) = n - 1
        /\ \A i \in 1..(n - 1) : SubSeq(f, 1, n - 1)[i] = f[i]
    <3>1. \A i \in 1..(n - 1) : f[i] \in FileLine
      BY <1>1
    <3> QED BY <1>1, <3>1, SubSeqProperties
  <2>2. SubSeq(f, n + 1, Len(f)) \in Seq(FileLine) /\ Len(SubSeq(f, n + 1, Len(f))) = Len(f) - n
        /\ \A i \in 1..(Len(f) - n) : SubSeq(f, n + 1, Len(f))[i] = f[n + i]
    <3>1. \A i \in (n + 1)..Len(f) : f[i] \in FileLine
      BY <1>1
    <3>2. /\ SubSeq(f, n + 1, Len(f)) \in Seq(FileLine)
          /\ Len(SubSeq(f, n + 1, Len(f))) = IF n + 1 <= Len(f) THEN Len(f) - (n + 1) + 1 ELSE 0
          /\ \A i \in 1..(Len(f) - (n + 1) + 1) : SubSeq(f, n + 1, Len(f))[i] = f[n + 1 + i - 1]
      BY <1>1, <3>1, SubSeqProperties
    <3>3. n \in Int /\ 1 <= n /\ n <= Len(f)
      BY <1>1
    <3>4. Len(SubSeq(f, n + 1, Len(f))) = Len(f) - n
      <4>1. n + 1 <= Len(f) => Len(f) - (n + 1) + 1 = Len(f) - n
        BY <1>1, <3>3
      <4>2. ~(n + 1 <= Len(f)) => 0 = Len(f) - n
        <5>1. ASSUME NEW m \in Nat, n <= m, ~(n + 1 <= m) PROVE 0 = m - n
          BY <3>3, <5>1
        <5> QED BY <1>1, <3>3, <5>1
      <4> QED BY <3>2, <4>1, <4>2, Zenon
    <3>5. ASSUME NEW i \in 1..(Len(f) - n) PROVE SubSeq(f, n + 1, Len(f))[i] = f[n + i]
      <4>1. i \in 1..(Len(f) - (n + 1) + 1) /\ n + 1 + i - 1 = n + i
        BY <1>1, <3>3
      <4> QED BY <3>2, <4>1
    <3> QED BY <3>2, <3>4, <3>5
  <2>3. /\ g = SubSeq(f, 1, n - 1) \o SubSeq(f, n + 1, Len(f))
    BY <1>2 DEF RemoveAt
  <2> HIDE DEF RemoveAt
  <2>4. /\ g \in Seq(FileLine) /\ Len(g) = Len(f) - 1
        /\ \A i \in 1..(Len(f) - 1) : g[i] = IF i <= n - 1 THEN f[i] ELSE f[i + 1]
    <3> DEFINE a == SubSeq(f, 1, n - 1)
               b == SubSeq(f, n + 1, Len(f))
    <3>1. /\ a \in Seq(FileLine) /\ b \in Seq(FileLine) /\ Len(a) = n - 1 /\ Len(b) = Len(f) - n
          /\ \A i \in 1..(n - 1) : a[i] = f[i]
          /\ \A i \in 1..(Len(f) - n) : b[i] = f[n + i]
      BY <2>1, <2>2
    <3> HIDE DEF a, b
    <3>2. /\ a \o b \in Seq(FileLine) /\ Len(a \o b) = Len(a) + Len(b)
          /\ \A i \in 1..(Len(a) + Len(b)) : (a \o b)[i] = IF i <= Len(a) THEN a[i] ELSE b[i - Len(a)]
      BY <3>1, ConcatProperties
    <3>3. g = a \o b
      BY <2>3 DEF a, b
    <3>4. \A i \in 1..(Len(f) - 1) : g[i] = IF i <= n - 1 THEN f[i] ELSE f[i + 1]
      <4> SUFFICES ASSUME NEW i \in 1..(Len(f) - 1) PROVE g[i] = IF i <= n - 1 THEN f[i] ELSE f[i + 1]
        OBVIOUS
      <4>1. n \in Int /\ 1 <= n /\ n <= Len(f) /\ i \in Int /\ 1 <= i
        BY <1>1
      <4>2. i \in 1..(Len(a) + Len(b)) /\ i - Len(a) = i - (n - 1)
        BY <1>1, <3>1, <4>1
      <4>3. i > n - 1 => i - (n - 1) \in 1..(Len(f) - n) /\ n + (i - (n - 1)) = i + 1
        BY <1>1, <4>1
      <4>4. i <= n - 1 => i \in 1..(n - 1)
        BY <4>1
      <4>5. i > n - 1 => b[i - Len(a)] = f[i + 1]
        BY <3>1, <4>2, <4>3
      <4>6. i <= n - 1 => a[i] = f[i]
        BY <3>1, <4>4
      <4> QED BY <3>1, <3>2, <3>3, <4>1, <4>2, <4>5, <4>6
    <3>5. (n - 1) + (Len(f) - n) = Len(f) - 1
      BY <1>1
    <3> QED BY <3>1, <3>2, <3>3, <3>4, <3>5
  <2>5. DOMAIN g = 1..(Len(f) - 1)
    BY <2>4
  <2> QED BY <1>1, <2>4, <2>5
<1>3. ASSUME NEW n \in 1..Len(f), g = [f EXCEPT ![n] = Garbage]
      PROVE  g \in Seq(FileLine) /\ \A i \in DOMAIN g : g[i] = Garbage \/ \E j \in DOMAIN f : g[i] = f[j]
  <2>1. g \in Seq(FileLine) /\ \A i \in DOMAIN g : i \in DOMAIN f /\ g[i] \in {Garbage, f[i]}
    BY <1>1, <1>3
  <2> QED BY <2>1
<1>4. ASSUME NEW n \in 2..Len(f), g = [f EXCEPT ![n] = f[n - 1], ![n - 1] = f[n]]
      PROVE  g \in Seq(FileLine) /\ \A i \in DOMAIN g : \E j \in DOMAIN f : g[i] = f[j]
  <2>1. g \in Seq(FileLine) /\ DOMAIN g = 1..Len(f) /\ n \in DOMAIN f /\ n - 1 \in DOMAIN f
    BY <1>1, <1>4
  <2>2. \A i \in DOMAIN g : g[i] \in {f[i], f[n], f[n - 1]}
    BY <1>1, <1>4, <2>1
  <2> QED BY <1>1, <2>1, <2>2
<1>5. \/ \E n \in 1..Len(f) : g = RemoveAt(f, n) \/ g = [f EXCEPT ![n] = Garbage]
      \/ \E n \in 2..Len(f) : g = [f EXCEPT ![n] = f[n - 1], ![n - 1] = f[n]]
  <2> DEFINE removed(n) == RemoveAt(f, n)
             garbled(n) == [f EXCEPT ![n] = Garbage]
             swapped(n) == [f EXCEPT ![n] = f[n - 1], ![n - 1] = f[n]]
  <2>1. Altered(f) = (UNION {{removed(n), garbled(n)} : n \in 1..Len(f)}) \cup {swapped(n) : n \in 2..Len(f)}
    BY <1>1, Zenon DEF Altered
  <2> HIDE DEF removed, garbled, swapped
  <2>2. \/ \E n \in 1..Len(f) : g = removed(n) \/ g = garbled(n)
        \/ \E n \in 2..Len(f) : g = swapped(n)
    <3>1. CASE g \in UNION {{removed(n), garbled(n)} : n \in 1..Len(f)}
      <4>1. PICK S \in {{removed(n), garbled(n)} : n \in 1..Len(f)} : g \in S
        BY <3>1
      <4>2. PICK n \in 1..Len(f) : S = {removed(n), garbled(n)}
        BY <4>1
      <4> QED BY <4>1, <4>2
    <3>2. CASE g \in {swapped(n) : n \in 2..Len(f)}
      BY <3>2
    <3> QED BY <2>1, <3>1, <3>2
  <2> QED BY <2>2 DEF removed, garbled, swapped
<1> QED BY <1>2, <1>3, <1>4, <1>5

-----------------------------------------------------------------------------
(* Types, with what a write in progress needs *)

BusTyped == BusTypeOK /\ (writing => bus = "open" /\ entries # << >>)

LEMMA EntryFits ==
  ASSUME NEW p \in Valid, NEW prev \in Chain
  PROVE  /\ Entry(p, prev) \in EntryType /\ Append(prev, p) \in Chain
         /\ Entry(p, prev).payload = p /\ Entry(p, prev).prev = prev /\ Entry(p, prev).hash = Append(prev, p)
  BY DEF Entry, EntryType, Chain, Digest

LEMMA WritingALine ==
  ASSUME BusTyped, writing
  PROVE  /\ Line \in EntryType /\ Line \in FileLine
         /\ Len(entries) \in 1..Len(entries) /\ DOMAIN entries = 1..Len(entries) /\ Line = entries[Len(entries)]
<1>1. entries \in Seq(EntryType) /\ entries # << >>
  BY DEF BusTyped, BusTypeOK
<1>2. Len(entries) \in Nat /\ Len(entries) # 0 /\ DOMAIN entries = 1..Len(entries)
  BY <1>1, LenProperties, EmptySeq
<1>3. Len(entries) \in 1..Len(entries)
  BY <1>2
<1>4. entries[Len(entries)] \in EntryType
  BY <1>1, <1>3, ElementOfSeq
<1> QED BY <1>2, <1>3, <1>4 DEF Line, Last, FileLine

\* what a write may leave of the file: what it was, or an append
LEMMA WriteLeaves ==
  ASSUME WriteStops
  PROVE  \/ file' = file /\ tail' = tail
         \/ \E line \in {Garbage, Line} : file' = FileAfter(line) /\ tail' = TRUE
  BY DEF WriteStops

LEMMA BusTypedStep == BusTyped /\ [BusNext]_busVars => BusTyped'
<1> SUFFICES ASSUME BusTyped, [BusNext]_busVars PROVE BusTyped'
  OBVIOUS
<1>0. file \in Seq(FileLine) /\ BusTypeOK /\ Garbage \in FileLine
  BY DEF BusTyped, BusTypeOK, FileLine
<1> USE DEF BusTyped, Damages
<1>1. ASSUME NEW p \in Payload, Publish(p) PROVE BusTyped'
  <2>1. p \in Valid /\ head \in Chain /\ entries \in Seq(EntryType)
    BY <1>1 DEF Publish, Accepted, BusTypeOK
  <2>2. /\ Entry(p, head) \in EntryType
        /\ HeadAfter(Entry(p, head)) \in Chain /\ Entry(p, head).hash \in Chain
    BY <2>1, EntryFits DEF HeadAfter
  <2>3. /\ entries' = Append(entries, Entry(p, head))
        /\ head' = HeadAfter(Entry(p, head))
        /\ published' = published \cup {Entry(p, head).hash}
    BY <1>1 DEF Publish
  <2>4. entries' \in Seq(EntryType) /\ entries' # << >>
    BY <2>1, <2>2, <2>3
  <2> QED BY <1>1, <2>2, <2>3, <2>4 DEF Publish, BusTypeOK
<1>2. CASE WriteSucceeds
  <2>1. file' \in Seq(FileLine)
    BY <1>0, <1>2, WritingALine, FileAfterLines DEF WriteSucceeds
  <2> QED BY <1>0, <1>2, <2>1 DEF WriteSucceeds, BusTypeOK, FileLine
<1>3. CASE WriteFails
  <2>1. file' \in Seq(FileLine) /\ tail' \in BOOLEAN
    BY <1>0, <1>3, WritingALine, FileAfterLines, WriteLeaves DEF WriteFails, BusTypeOK
  <2> QED BY <1>0, <1>3, <2>1 DEF WriteFails, BusTypeOK, FileLine
<1>4. CASE BusCrash
  <2>1. file' \in Seq(FileLine) /\ tail' \in BOOLEAN
    BY <1>0, <1>4, WritingALine, FileAfterLines, WriteLeaves DEF BusCrash, BusTypeOK
  <2>2. << >> \in Seq(EntryType) /\ << >> \in Chain
    BY EmptySeq DEF Chain
  <2> QED BY <1>0, <1>4, <2>1, <2>2 DEF BusCrash, BusTypeOK, FileLine
<1>5. CASE Open
  <2>1. CASE Replays(file)
    <3>1. file \in Seq(EntryType)
      BY <1>0, <2>1, ReplayedIsChain DEF FileLine
    <3>2. file # << >> => Last(file).hash \in Chain
      <4>1. file # << >> => Len(file) \in 1..Len(file)
        BY <3>1, EmptySeq
      <4>2. file # << >> => file[Len(file)] \in EntryType
        BY <3>1, <4>1, ElementOfSeq
      <4> QED BY <4>2 DEF Last, EntryType
    <3>3. << >> \in Chain
      BY EmptySeq DEF Chain
    <3>4. ~writing
      BY <1>5 DEF Open
    <3> QED BY <1>0, <1>5, <2>1, <3>1, <3>2, <3>3, <3>4 DEF Open, BusTypeOK
  <2>2. CASE ~Replays(file)
    BY <1>0, <1>5, <2>2 DEF Open, BusTypeOK
  <2> QED BY <2>1, <2>2
<1>6. CASE Damage
  <2>1. file' \in Seq(FileLine)
    BY <1>0, <1>6, AlteredLines DEF Damage
  <2> QED BY <1>0, <1>6, <2>1 DEF Damage, BusTypeOK, FileLine
<1>7. CASE UNCHANGED busVars
  BY <1>7 DEF busVars, BusTypeOK
<1> QED BY <1>1, <1>2, <1>3, <1>4, <1>5, <1>6, <1>7 DEF BusNext

-----------------------------------------------------------------------------
(* The invariant *)

\* garbage apart, the lines of the file are entries the open bus holds
FileIsOurs ==
  \A i \in DOMAIN file : file[i] = Garbage \/ \E j \in DOMAIN entries : file[i] = entries[j]

\* what is in a line was published by some bus, and in that order
LineWasPublished == \A i \in DOMAIN file : file[i] = Garbage \/ file[i].hash \in published
EntryWasPublished == \A i \in DOMAIN entries : entries[i].hash \in published

\* of a bus whose file is whole, the file lacks only the line being written
OnlyTheLineIsMissing == ~tail /\ entries = IF writing THEN Append(file, Line) ELSE file

BusInv ==
  /\ BusTyped
  /\ << >> \in published /\ LineWasPublished /\ EntryWasPublished
  /\ bus = "open" => Chained(entries) /\ VerifyChain /\ FileIsOurs
  /\ bus = "open" /\ damage = "none" => OnlyTheLineIsMissing

LEMMA BusInitially == BusInit => BusInv
<1> SUFFICES ASSUME BusInit PROVE BusInv
  OBVIOUS
<1>1. DOMAIN file = {} /\ DOMAIN entries = {} /\ << >> \in Chain
  BY EmptySeq DEF BusInit, Chain
<1>2. BusTyped
  BY <1>1, EmptySeq DEF BusInit, BusTyped, BusTypeOK, Damages
<1> QED
  BY <1>1, <1>2 DEF BusInit, BusInv, Chained, VerifyChain, FileIsOurs, LineWasPublished,
                    EntryWasPublished, OnlyTheLineIsMissing

\* an entry continues the chain it is appended to
LEMMA ChainGrows ==
  ASSUME entries \in Seq(EntryType), head \in Chain, NEW p \in Valid, VerifyChain,
         entries' = Append(entries, Entry(p, head)), head' = Entry(p, head).hash
  PROVE  VerifyChain' /\ Chained(entries')
<1>1. /\ DOMAIN entries = 1..Len(entries) /\ Len(entries) \in Nat
      /\ Entry(p, head) \in EntryType
  BY LenProperties, EntryFits
<1>2. /\ entries' \in Seq(EntryType) /\ DOMAIN entries' = 1..(Len(entries) + 1) /\ Len(entries') = Len(entries) + 1
      /\ \A i \in 1..Len(entries) : entries'[i] = entries[i]
      /\ entries'[Len(entries) + 1] = Entry(p, head) /\ entries' # << >>
  BY <1>1, AppendProperties
<1>3. head = IF Len(entries) = 0 THEN << >> ELSE entries[Len(entries)].hash
  BY <1>1, EmptySeq DEF VerifyChain, Last
<1>4. ASSUME NEW i \in DOMAIN entries'
      PROVE  /\ entries'[i].prev = IF i = 1 THEN << >> ELSE entries'[i - 1].hash
             /\ entries'[i].hash = Digest(entries'[i].payload, entries'[i].prev)
  <2>1. CASE i \in 1..Len(entries)
    <3>1. i # 1 => i - 1 \in 1..Len(entries)
      BY <2>1
    <3> QED BY <1>1, <1>2, <2>1, <3>1 DEF VerifyChain
  <2>2. CASE i \notin 1..Len(entries)
    <3>1. i = Len(entries) + 1
      BY <1>1, <1>2, <2>2
    <3>2. entries'[i].prev = head /\ entries'[i].hash = Digest(entries'[i].payload, head)
      BY <1>2, <3>1 DEF Entry
    <3>3. i # 1 => entries'[i - 1] = entries[Len(entries)] /\ Len(entries) # 0
      <4>1. i - 1 = Len(entries) /\ (i # 1 => Len(entries) \in 1..Len(entries) /\ Len(entries) # 0)
        BY <1>1, <3>1
      <4> QED BY <1>2, <4>1
    <3>4. i = 1 => Len(entries) = 0
      BY <1>1, <3>1
    <3> QED BY <1>3, <3>2, <3>3, <3>4
  <2> QED BY <2>1, <2>2
<1>5. Last(entries').hash = head'
  BY <1>2 DEF Last
<1> QED BY <1>2, <1>4, <1>5 DEF VerifyChain, Chained

LEMMA PublishKeeps ==
  ASSUME BusInv, BusTyped', NEW p \in Payload, Publish(p)
  PROVE  BusInv'
<1>1. /\ p \in Valid /\ head \in Chain /\ entries \in Seq(EntryType) /\ file \in Seq(FileLine)
      /\ bus = "open" /\ bus' = "open" /\ ~writing /\ writing'
      /\ entries' = Append(entries, Entry(p, head)) /\ head' = Entry(p, head).hash
      /\ published' = published \cup {Entry(p, head).hash}
      /\ file' = file /\ tail' = tail /\ damage' = damage
  BY DEF Publish, Accepted, HeadAfter, BusInv, BusTyped, BusTypeOK, FileLine
<1>2. VerifyChain' /\ Chained(entries')
  BY <1>1, ChainGrows DEF BusInv
<1>3. /\ DOMAIN entries = 1..Len(entries) /\ Len(entries) \in Nat /\ Entry(p, head) \in EntryType
  BY <1>1, LenProperties, EntryFits
<1>4. /\ DOMAIN entries' = 1..(Len(entries) + 1) /\ Len(entries') = Len(entries) + 1
      /\ \A i \in 1..Len(entries) : entries'[i] = entries[i]
      /\ entries'[Len(entries) + 1] = Entry(p, head)
  BY <1>1, <1>3, AppendProperties
<1>5. FileIsOurs'
  <2>1. FileIsOurs
    BY <1>1 DEF BusInv
  <2> QED BY <1>1, <1>3, <1>4, <2>1 DEF FileIsOurs
<1>6. LineWasPublished' /\ << >> \in published'
  BY <1>1 DEF BusInv, LineWasPublished
<1>7. EntryWasPublished'
  <2> SUFFICES ASSUME NEW i \in DOMAIN entries' PROVE entries'[i].hash \in published'
    BY DEF EntryWasPublished
  <2>1. i \in 1..Len(entries) \/ i = Len(entries) + 1
    BY <1>3, <1>4
  <2> QED BY <1>1, <1>3, <1>4, <2>1 DEF BusInv, EntryWasPublished
<1>8. damage' = "none" => OnlyTheLineIsMissing'
  <2>1. Line' = Entry(p, head)
    BY <1>4 DEF Line, Last
  <2> QED BY <1>1, <2>1 DEF BusInv, OnlyTheLineIsMissing
<1> QED BY <1>1, <1>2, <1>5, <1>6, <1>7, <1>8 DEF BusInv

\* after a write, whole or not, the file has no line it had not, but the one written
LEMMA WrittenLines ==
  ASSUME BusInv, writing, NEW line \in {Garbage, Line}, file' = FileAfter(line), published' = published
  PROVE  LineWasPublished' /\ (entries' = entries => FileIsOurs')
<1>1. file \in Seq(FileLine) /\ line \in FileLine /\ bus = "open"
  BY WritingALine DEF BusInv, BusTyped, BusTypeOK, FileLine
<1>2. \A i \in DOMAIN file' : file'[i] \in {Garbage, Line} \/ \E j \in DOMAIN file : file'[i] = file[j]
  BY <1>1, FileAfterLines
<1>3. \E j \in DOMAIN entries : Line = entries[j]
  <2>1. Line = entries[Len(entries)] /\ Len(entries) \in DOMAIN entries
    BY WritingALine DEF BusInv
  <2> QED BY <2>1
<1>4. Line.hash \in published
  BY <1>3 DEF BusInv, EntryWasPublished
<1>5. LineWasPublished'
  BY <1>2, <1>4 DEF BusInv, LineWasPublished
<1>6. FileIsOurs
  BY <1>1 DEF BusInv
<1> QED BY <1>2, <1>3, <1>5, <1>6 DEF FileIsOurs

LEMMA WriteKeeps ==
  ASSUME BusInv, BusTyped', WriteSucceeds \/ WriteFails
  PROVE  BusInv'
<1>1. /\ writing /\ ~writing' /\ bus = "open" /\ bus' = bus /\ entries' = entries /\ head' = head
      /\ published' = published
  BY DEF WriteSucceeds, WriteFails, BusInv, BusTyped
<1>2. LineWasPublished' /\ FileIsOurs'
  <2>1. CASE file' = file
    BY <1>1, <2>1 DEF BusInv, LineWasPublished, FileIsOurs
  <2>2. CASE \E line \in {Garbage, Line} : file' = FileAfter(line)
    BY <1>1, <2>2, WrittenLines
  <2> QED BY <2>1, <2>2, WriteLeaves DEF WriteSucceeds, WriteFails
<1>3. VerifyChain' /\ Chained(entries') /\ EntryWasPublished' /\ << >> \in published'
  BY <1>1 DEF BusInv, VerifyChain, EntryWasPublished
<1>4. damage' = "none" => OnlyTheLineIsMissing'
  <2>1. SUFFICES ASSUME damage' = "none" PROVE OnlyTheLineIsMissing'
    OBVIOUS
  <2>2. WriteSucceeds /\ damage = "none"
    BY <2>1 DEF WriteSucceeds, WriteFails
  <2>3. entries = Append(file, Line) /\ ~tail
    BY <1>1, <2>2 DEF BusInv, OnlyTheLineIsMissing
  <2>4. file' = Append(file, Line) /\ ~tail'
    BY <2>2, <2>3 DEF WriteSucceeds, FileAfter
  <2> QED BY <1>1, <2>3, <2>4 DEF OnlyTheLineIsMissing
<1> QED BY <1>1, <1>2, <1>3, <1>4 DEF BusInv

LEMMA CrashKeeps == ASSUME BusInv, BusTyped', BusCrash PROVE BusInv'
<1>1. /\ bus' = "closed" /\ entries' = << >> /\ published' = published
  BY DEF BusCrash
<1>2. LineWasPublished'
  <2>1. CASE file' = file
    BY <1>1, <2>1 DEF BusInv, LineWasPublished
  <2>2. CASE writing /\ \E line \in {Garbage, Line} : file' = FileAfter(line)
    BY <1>1, <2>2, WrittenLines
  <2> QED BY <2>1, <2>2, WriteLeaves DEF BusCrash
<1> QED BY <1>1, <1>2 DEF BusInv, EntryWasPublished

LEMMA OpenKeeps == ASSUME BusInv, BusTyped', Open PROVE BusInv'
<1>1. /\ bus = "closed" /\ file' = file /\ tail' = tail /\ ~writing /\ ~writing' /\ published' = published
      /\ damage' = IF tail THEN "write" ELSE "none"
  BY DEF Open, BusInv, BusTyped
<1>2. LineWasPublished' /\ << >> \in published'
  BY <1>1 DEF BusInv, LineWasPublished
<1>3. CASE ~Replays(file)
  BY <1>1, <1>2, <1>3 DEF Open, BusInv, EntryWasPublished
<1>4. CASE Replays(file)
  <2>1. /\ bus' = "open" /\ entries' = file
        /\ head' = IF file = << >> THEN << >> ELSE Last(file).hash
    BY <1>4 DEF Open
  <2>2. /\ Chained(file) /\ \A i \in DOMAIN file : file[i] # Garbage
    BY <1>4, ReplayedIsChain DEF BusInv, BusTyped, BusTypeOK
  <2>3. VerifyChain'
    BY <2>1, <2>2 DEF VerifyChain, Chained
  <2>4. FileIsOurs' /\ EntryWasPublished'
    BY <1>1, <2>1, <2>2 DEF BusInv, FileIsOurs, LineWasPublished, EntryWasPublished
  <2>5. damage' = "none" => OnlyTheLineIsMissing'
    BY <1>1, <2>1 DEF OnlyTheLineIsMissing
  <2> QED BY <1>2, <2>1, <2>2, <2>3, <2>4, <2>5 DEF BusInv
<1> QED BY <1>3, <1>4

LEMMA DamageKeeps == ASSUME BusInv, BusTyped', Damage PROVE BusInv'
<1>1. /\ bus' = bus /\ entries' = entries /\ head' = head /\ published' = published /\ damage' = "lines"
      /\ file' \in Altered(file) /\ file \in Seq(FileLine)
  BY DEF Damage, BusInv, BusTyped, BusTypeOK, FileLine
<1>2. \A i \in DOMAIN file' : file'[i] = Garbage \/ \E j \in DOMAIN file : file'[i] = file[j]
  BY <1>1, AlteredLines
<1>3. LineWasPublished' /\ (bus = "open" => FileIsOurs')
  BY <1>1, <1>2 DEF BusInv, LineWasPublished, FileIsOurs
<1> QED BY <1>1, <1>3 DEF BusInv, VerifyChain, EntryWasPublished

LEMMA BusStep == BusInv /\ [BusNext]_busVars => BusInv'
<1> SUFFICES ASSUME BusInv, [BusNext]_busVars PROVE BusInv'
  OBVIOUS
<1>1. BusTyped'
  BY BusTypedStep DEF BusInv
<1>2. CASE UNCHANGED busVars
  BY <1>1, <1>2 DEF busVars, BusInv, VerifyChain, FileIsOurs, LineWasPublished, EntryWasPublished,
                    OnlyTheLineIsMissing, Line
<1> QED BY <1>1, <1>2, PublishKeeps, WriteKeeps, CrashKeeps, OpenKeeps, DamageKeeps DEF BusNext

LEMMA BusHolds == BusSpec => []BusInv
  BY BusInitially, BusStep, PTL DEF BusSpec

(* The bus and its file keep their types (SalienceBus).                    *)
THEOREM BusTypeCorrect == BusSpec => []BusTypeOK
<1>1. BusInv => BusTypeOK
  BY DEF BusInv, BusTyped
<1> QED BY <1>1, BusHolds, PTL

(* The record a process holds is one chain, across failed writes, deaths   *)
(* and reopenings, whatever is published and however long the record is.   *)
THEOREM ChainInMemory == BusSpec => []MemoryIsAChain
<1>1. BusInv => MemoryIsAChain
  BY DEF BusInv, MemoryIsAChain
<1> QED BY <1>1, BusHolds, PTL

(* No failed write, death or damage makes a file that a later process      *)
(* accepts and that tells another story than the bus writing it.           *)
THEOREM NoSplicedFile == BusSpec => []AcceptedFileIsPrefix
<1>1. BusInv => AcceptedFileIsPrefix
  <2> SUFFICES ASSUME BusInv, bus = "open", Replays(file) PROVE IsPrefix(file, entries)
    BY DEF AcceptedFileIsPrefix
  <2>1. /\ file \in Seq(EntryType) /\ Chained(file) /\ \A i \in DOMAIN file : file[i] # Garbage
    BY ReplayedIsChain DEF BusInv, BusTyped, BusTypeOK
  <2>2. entries \in Seq(EntryType) /\ Chained(entries) /\ FileIsOurs
    BY DEF BusInv, BusTyped, BusTypeOK
  <2> QED BY <2>1, <2>2, OursIsPrefix DEF FileIsOurs
<1> QED BY <1>1, BusHolds, PTL

(* Until a write fails or lines are damaged, everything a bus published is *)
(* in its file once the append returns.                                    *)
THEOREM FileIsTheRecord == BusSpec => []PublishedIsDurable
<1>1. BusInv => PublishedIsDurable
  BY DEF BusInv, PublishedIsDurable, OnlyTheLineIsMissing
<1> QED BY <1>1, BusHolds, PTL

(* A bus never resumes a history that no bus had: what it holds was        *)
(* published in that order.                                                *)
THEOREM HistoryIsReal == BusSpec => []ResumesAHistory
<1>1. BusInv => ResumesAHistory
  <2> SUFFICES ASSUME BusInv, bus = "open" PROVE Told(entries) \in published
    BY DEF ResumesAHistory, Told
  <2>1. entries \in Seq(EntryType) /\ Chained(entries)
    BY DEF BusInv, BusTyped, BusTypeOK
  <2>2. CASE entries = << >>
    <3>1. Told(entries) = << >>
      BY <2>2 DEF Told
    <3> QED BY <3>1 DEF BusInv
  <2>3. CASE entries # << >>
    <3>1. Told(entries) = Last(entries).hash /\ Len(entries) \in DOMAIN entries
      BY <2>1, <2>3, LastTellsAll, EmptySeq, LenProperties
    <3> QED BY <3>1 DEF BusInv, EntryWasPublished, Last
  <2> QED BY <2>2, <2>3
<1> QED BY <1>1, BusHolds, PTL
=============================================================================
