----------------------------- MODULE AnswerProofs -----------------------------
(***************************************************************************)
(* What becomes of what a model answers: the calls of a turn (TurnLoop and *)
(* ToolCall), for any messages it may answer and any bounds on retries,    *)
(* iterations and research, and the proposals (Proposals), for any intents,*)
(* dials, bounds of the pool and weight of a veto.                         *)
(***************************************************************************)
EXTENDS TurnLoop, Proposals, FiniteSetTheorems, WellFoundedInduction, SequenceTheorems, TLAPS

(* Sequences without some of their members (Sifting) *)

\* Every nonempty set of numbers has a least one: what an induction needs.
LEMMA LeastNumber ==
  ASSUME NEW T \in SUBSET Nat, T # {}
  PROVE  \E n \in T : \A m \in T : n <= m
<1> DEFINE family == {1..n : n \in T}
<1>1. family \subseteq FiniteSubsetsOf(Nat) /\ family # {}
  <2>1. ASSUME NEW n \in T PROVE 1..n \in SUBSET Nat /\ IsFiniteSet(1..n)
    BY FS_Interval
  <2> QED BY <2>1 DEF FiniteSubsetsOf
<1> HIDE DEF family
<1>2. PICK S \in family : \A R \in family : <<R, S>> \notin StrictSubsetOrdering(Nat)
  BY <1>1, FS_StrictSubsetOrderingWellFounded, WFMin, Zenon
<1>3. PICK n \in T : S = 1..n
  BY <1>2 DEF family
<1>4. ASSUME NEW m \in T, m < n PROVE FALSE
  <2>1. 1..m \subseteq S /\ n \in S /\ n \notin 1..m /\ S \in SUBSET Nat
    BY <1>3, <1>4
  <2>2. <<1..m, S>> \in StrictSubsetOrdering(Nat) /\ 1..m \in family
    BY <2>1 DEF StrictSubsetOrdering, family
  <2> QED BY <1>2, <2>2
<1> QED BY <1>4


\* f is what Kept computes on the way
Sifts(f, s, S, n) ==
  f = [i \in 0..n |-> IF i = 0 THEN <<>>
                      ELSE IF s[i] \in S THEN Append(f[i - 1], s[i]) ELSE f[i - 1]]

LEMMA SiftingExists ==
  ASSUME NEW s, NEW S
  PROVE  \A n \in Nat : \E f : Sifts(f, s, S, n)
<1> DEFINE T == {n \in Nat : ~\E f : Sifts(f, s, S, n)}
<1>1. ASSUME NEW n \in T, \A m \in T : n <= m PROVE FALSE
  <2>1. n \in Nat /\ ~\E f : Sifts(f, s, S, n)
    OBVIOUS
  <2>2. n # 0
    <3>1. Sifts([i \in 0..0 |-> <<>>], s, S, 0)
      BY DEF Sifts
    <3> QED BY <2>1, <3>1
  <2>3. PICK f : Sifts(f, s, S, n - 1)
    <3>1. n - 1 \in Nat /\ n - 1 \notin T
      BY <1>1, <2>1, <2>2
    <3> QED BY <3>1
  <2> DEFINE g == [i \in 0..n |-> IF i < n THEN f[i]
                                  ELSE IF s[n] \in S THEN Append(f[n - 1], s[n]) ELSE f[n - 1]]
  <2>4. ASSUME NEW i \in 0..n
        PROVE  g[i] = IF i = 0 THEN <<>>
                      ELSE IF s[i] \in S THEN Append(g[i - 1], s[i]) ELSE g[i - 1]
    <3>1. CASE i = n
      <4>1. g[i] = (IF s[n] \in S THEN Append(f[n - 1], s[n]) ELSE f[n - 1]) /\ g[n - 1] = f[n - 1]
        BY <2>1, <2>2, <3>1
      <4> QED BY <2>2, <3>1, <4>1
    <3>2. CASE i # n
      <4>1. i \in 0..(n - 1) /\ g[i] = f[i] /\ (i # 0 => g[i - 1] = f[i - 1])
        BY <2>1, <3>2
      <4>2. f[i] = IF i = 0 THEN <<>>
                   ELSE IF s[i] \in S THEN Append(f[i - 1], s[i]) ELSE f[i - 1]
        BY <2>3, <4>1 DEF Sifts
      <4> QED BY <4>1, <4>2
    <3> QED BY <3>1, <3>2
  <2>5. Sifts(g, s, S, n)
    <3>1. g = [i \in 0..n |-> g[i]]
      OBVIOUS
    <3> HIDE DEF g
    <3> QED BY <2>4, <3>1 DEF Sifts
  <2> QED BY <2>1, <2>5
<1>2. T = {}
  <2>1. T \in SUBSET Nat
    OBVIOUS
  <2> HIDE DEF T
  <2> QED BY <1>1, <2>1, LeastNumber
<1> QED BY <1>2

LEMMA KeptSifts ==
  ASSUME NEW X, NEW s \in Seq(X), NEW S
  PROVE  \E f : Sifts(f, s, S, Len(s)) /\ Kept(s, S) = f[Len(s)]
<1>1. \E f : Sifts(f, s, S, Len(s))
  BY SiftingExists, LenProperties
<1> DEFINE c == CHOOSE f : Sifts(f, s, S, Len(s))
<1>2. Sifts(c, s, S, Len(s))
  BY <1>1
<1>3. Kept(s, S) = c[Len(s)]
  BY DEF Kept, Sifts
<1> QED BY <1>2, <1>3

\* after i members: which were kept, how many, and never one of them twice
SiftedSoFar(f, s, S, X, i) ==
  /\ f[i] \in Seq(X)
  /\ ToSet(f[i]) = {s[k] : k \in 1..i} \cap S
  /\ Len(f[i]) = Cardinality({k \in 1..i : s[k] \in S})
  /\ IsInjective(s) => IsInjective(f[i])

LEMMA SiftingStarts ==
  ASSUME NEW X, NEW s \in Seq(X), NEW S, NEW f, f[0] = <<>>
  PROVE  SiftedSoFar(f, s, S, X, 0)
<1>1. f[0] \in Seq(X) /\ Len(f[0]) = 0 /\ DOMAIN f[0] = {}
  BY EmptySeq
<1>2. {k \in 1..0 : s[k] \in S} = {}
  OBVIOUS
<1>3. Len(f[0]) = Cardinality({k \in 1..0 : s[k] \in S})
  BY <1>1, <1>2, FS_EmptySet
<1> QED BY <1>1, <1>3 DEF SiftedSoFar, ToSet, IsInjective

LEMMA SiftingGoesOn ==
  ASSUME NEW X, NEW s \in Seq(X), NEW S, NEW i \in 1..Len(s), NEW f,
         f[i] = IF s[i] \in S THEN Append(f[i - 1], s[i]) ELSE f[i - 1],
         SiftedSoFar(f, s, S, X, i - 1)
  PROVE  SiftedSoFar(f, s, S, X, i)
<1> DEFINE g == f[i - 1]
           places == {k \in 1..(i - 1) : s[k] \in S}
<1>1. /\ g \in Seq(X) /\ ToSet(g) = {s[k] : k \in 1..(i - 1)} \cap S
      /\ Len(g) = Cardinality(places) /\ (IsInjective(s) => IsInjective(g))
  BY DEF SiftedSoFar
<1>2. s[i] \in X /\ i \in DOMAIN s /\ DOMAIN s = 1..Len(s) /\ Len(s) \in Nat
  BY LenProperties
<1>3. 1..i = 1..(i - 1) \cup {i} /\ i \notin 1..(i - 1)
  BY <1>2
<1>4. {s[k] : k \in 1..i} = {s[k] : k \in 1..(i - 1)} \cup {s[i]}
  BY <1>3
<1>5. DOMAIN g = 1..Len(g) /\ Len(g) \in Nat
  BY <1>1, LenProperties
<1>6. IsFiniteSet(places)
  <2>1. IsFiniteSet(1..(i - 1)) /\ places \subseteq 1..(i - 1)
    BY FS_Interval, <1>2
  <2> QED BY <2>1, FS_Subset
<1>7. CASE s[i] \notin S
  <2>1. f[i] = g
    BY <1>7
  <2>2. {k \in 1..i : s[k] \in S} = places
    BY <1>3, <1>7
  <2> HIDE DEF g, places
  <2> QED BY <1>1, <1>4, <1>7, <2>1, <2>2 DEF SiftedSoFar
<1>8. CASE s[i] \in S
  <2>1. f[i] = Append(g, s[i])
    BY <1>8
  <2>2. {k \in 1..i : s[k] \in S} = places \cup {i} /\ i \notin places
    BY <1>3, <1>8
  <2> HIDE DEF g, places
  <2>3. /\ Append(g, s[i]) \in Seq(X) /\ Len(Append(g, s[i])) = Len(g) + 1
        /\ DOMAIN Append(g, s[i]) = 1..(Len(g) + 1)
        /\ \A k \in 1..Len(g) : Append(g, s[i])[k] = g[k]
        /\ Append(g, s[i])[Len(g) + 1] = s[i]
    BY <1>1, <1>2, AppendProperties, LenProperties
  <2>4. Cardinality(places \cup {i}) = Cardinality(places) + 1
    BY <1>6, <2>2, FS_AddElement
  <2>5. ToSet(Append(g, s[i])) = ToSet(g) \cup {s[i]}
    <3>1. 1..(Len(g) + 1) = 1..Len(g) \cup {Len(g) + 1}
      BY <1>5
    <3> QED BY <1>5, <2>3, <3>1 DEF ToSet
  <2>6. ASSUME IsInjective(s) PROVE IsInjective(Append(g, s[i]))
    <3>1. IsInjective(g)
      BY <1>1, <2>6
    <3>2. s[i] \notin ToSet(g)
      <4>1. \A k \in 1..(i - 1) : s[k] # s[i]
        BY <1>2, <1>3, <2>6 DEF IsInjective
      <4> QED BY <1>1, <4>1
    <3>3. \A k \in 1..Len(g) : g[k] # s[i]
      BY <1>5, <3>2 DEF ToSet
    <3> QED BY <1>5, <2>3, <3>1, <3>3 DEF IsInjective
  <2>7. ToSet(f[i]) = {s[k] : k \in 1..i} \cap S
    BY <1>1, <1>4, <1>8, <2>1, <2>5
  <2>8. Len(f[i]) = Cardinality({k \in 1..i : s[k] \in S})
    BY <1>1, <2>1, <2>2, <2>3, <2>4
  <2>9. f[i] \in Seq(X) /\ (IsInjective(s) => IsInjective(f[i]))
    BY <2>1, <2>3, <2>6
  <2> QED BY <2>7, <2>8, <2>9 DEF SiftedSoFar
<1> QED BY <1>7, <1>8

\* What Kept returns: the members in S, each as often as before.
LEMMA KeptFacts ==
  ASSUME NEW X, NEW s \in Seq(X), NEW S
  PROVE  /\ Kept(s, S) \in Seq(X)
         /\ ToSet(Kept(s, S)) = ToSet(s) \cap S
         /\ Len(Kept(s, S)) = Cardinality({k \in DOMAIN s : s[k] \in S})
         /\ IsInjective(s) => IsInjective(Kept(s, S))
<1>1. PICK f : Sifts(f, s, S, Len(s)) /\ Kept(s, S) = f[Len(s)]
  BY KeptSifts
<1>2. Len(s) \in Nat /\ DOMAIN s = 1..Len(s)
  BY LenProperties
<1>3. /\ f[0] = <<>>
      /\ \A i \in 1..Len(s) : f[i] = IF s[i] \in S THEN Append(f[i - 1], s[i]) ELSE f[i - 1]
  <2>1. f = [i \in 0..Len(s) |-> IF i = 0 THEN <<>>
                      ELSE IF s[i] \in S THEN Append(f[i - 1], s[i]) ELSE f[i - 1]]
    BY <1>1 DEF Sifts
  <2>2. 0 \in 0..Len(s) /\ \A i \in 1..Len(s) : i \in 0..Len(s) /\ i # 0
    BY <1>2
  <2> QED BY <2>1, <2>2
<1> DEFINE T == {i \in 0..Len(s) : ~SiftedSoFar(f, s, S, X, i)}
<1>4. ASSUME NEW n \in T, \A m \in T : n <= m PROVE FALSE
  <2>1. n \in 0..Len(s) /\ ~SiftedSoFar(f, s, S, X, n)
    OBVIOUS
  <2>2. n # 0
    BY <1>3, <2>1, SiftingStarts
  <2>3. n \in 1..Len(s) /\ n - 1 \in 0..Len(s) /\ n - 1 \notin T
    BY <1>2, <1>4, <2>1, <2>2
  <2>4. SiftedSoFar(f, s, S, X, n - 1)
    BY <2>3
  <2> QED BY <1>3, <2>1, <2>3, <2>4, SiftingGoesOn
<1>5. T = {}
  <2>1. T \in SUBSET Nat
    OBVIOUS
  <2> HIDE DEF T
  <2> QED BY <1>4, <2>1, LeastNumber
<1>6. SiftedSoFar(f, s, S, X, Len(s))
  BY <1>2, <1>5
<1> QED BY <1>1, <1>2, <1>6 DEF SiftedSoFar, ToSet

-----------------------------------------------------------------------------
(* Why a turn says it stopped.  What the parser makes of a message is not  *)
(* opened for this.                                                        *)

Settled == {"ran", "denied"}

\* before an iteration is over, everything that waits is of this iteration
StopInv ==
  /\ phase \in {"idle", "ask", "govern", "over", "propose"} \cup Trust
  /\ phase # "over" => stopped = "none"
  /\ phase \in {"idle", "propose"} \cup Trust => decisions = {}
  /\ phase \in {"idle", "ask", "propose"} \cup Trust => outcomes = {}
  /\ outcomes \subseteq Status \cup {"paused"}
  /\ phase = "ask" => decisions \subseteq Settled
  /\ phase = "govern" => outcomes \subseteq decisions /\ decisions \subseteq outcomes \cup Settled
  /\ StoppedSaysWhy

LEMMA StopInit == Init => StopInv
  BY DEF Init, StopInv, StoppedSaysWhy, Trust

\* what a completion settles: asked again, given up, an answer, or a batch of calls
LEMMA AnswerStops == ASSUME StopInv, Answer PROVE StopInv'
<1> USE DEF Settled, Trust
<1>1. /\ phase = "ask" /\ stopped = "none" /\ outcomes = {} /\ decisions \subseteq Settled
      /\ outcomes' = outcomes /\ decisions' = decisions
  BY DEF Answer, StopInv
<1>2. CASE Retry(msg')
  BY <1>1, <1>2 DEF Retry, StopInv, StoppedSaysWhy
<1>3. CASE GiveUp(msg')
  BY <1>1, <1>3 DEF GiveUp, StopInv, StoppedSaysWhy
<1>4. CASE Accept(msg')
  <2>1. Actionable(msg')
    BY <1>4 DEF Accept, AskedAgain
  <2>2. CASE ParseMessage(msg').intents = <<>>
    <3>1. phase' = "over" /\ stopped' = "final"
      BY <1>4, <2>2 DEF Accept
    <3> QED BY <1>1, <2>1, <2>2, <3>1 DEF StopInv, StoppedSaysWhy
  <2>3. CASE ParseMessage(msg').intents # <<>>
    <3>1. phase' = "govern" /\ stopped' = stopped
      BY <1>4, <2>3 DEF Accept
    <3> QED BY <1>1, <3>1 DEF StopInv, StoppedSaysWhy
  <2> QED BY <2>2, <2>3
<1> QED BY <1>2, <1>3, <1>4 DEF Answer

\* an iteration ends a turn for what is in it, since nothing waits from before
LEMMA FeedBackStops == ASSUME StopInv, FeedBack PROVE StopInv'
<1> USE DEF Settled, Trust
<1>1. /\ phase = "govern" /\ todo = <<>> /\ todo' = todo /\ decisions' = decisions /\ stopped' = Why
      /\ outcomes \subseteq decisions /\ decisions \subseteq outcomes \cup Settled
  BY DEF FeedBack, StopInv
<1>2. Why \in {"paused", "held", "max_iterations", "none"}
      /\ (Why = "paused" <=> "paused" \in outcomes)
      /\ (Why = "held" => "held" \in outcomes)
      /\ ("held" \in outcomes => Why \in {"held", "paused"})
      /\ (Why = "max_iterations" => iteration = MaxIterations)
  BY DEF Why
<1>3. CASE Why # "none"
  <2>1. phase' = "over" /\ iteration' = iteration /\ outcomes' = outcomes
    BY <1>3 DEF FeedBack
  <2>2. stopped' # "final" /\ stopped' # "raised"
    BY <1>1, <1>2, <1>3
  <2>3. "paused" \in decisions <=> "paused" \in outcomes
    BY <1>1
  <2>4. "held" \in decisions <=> "held" \in outcomes
    BY <1>1
  <2>5. StoppedSaysWhy'
    BY <1>1, <1>2, <2>1, <2>2, <2>3, <2>4 DEF StoppedSaysWhy
  <2> QED BY <2>1, <2>5 DEF StopInv
<1>4. CASE Why = "none"
  <2>1. phase' = "ask" /\ outcomes' = {}
    BY <1>4 DEF FeedBack
  <2>2. outcomes \cap {"paused", "held"} = {}
    BY <1>2, <1>4
  <2>3. decisions \subseteq {"ran", "denied", "held", "paused"}
    <3>1. outcomes \subseteq Status \cup {"paused"}
      BY DEF StopInv
    <3> QED BY <1>1, <3>1 DEF Status
  <2>4. decisions' \subseteq Settled
    BY <1>1, <2>2, <2>3
  <2> QED BY <1>1, <1>4, <2>1, <2>4 DEF StopInv, StoppedSaysWhy
<1> QED BY <1>3, <1>4

LEMMA StopStep == StopInv /\ [Next]_vars => StopInv'
<1> SUFFICES ASSUME StopInv, [Next]_vars PROVE StopInv'
  OBVIOUS
<1> USE DEF Settled, Trust, turn
<1>1. CASE StartTurn
  BY <1>1 DEF StartTurn, StopInv, StoppedSaysWhy
<1>2. ASSUME NEW trust \in Trust, StartPropose(trust) PROVE StopInv'
  BY <1>2 DEF StartPropose, StopInv, StoppedSaysWhy
<1>3. CASE Answer
  BY <1>3, AnswerStops
<1>4. ASSUME NEW status \in Status \cup {"paused"}, GovernAction(status) PROVE StopInv'
  BY <1>4 DEF GovernAction, StopInv, StoppedSaysWhy
<1>5. CASE FeedBack
  BY <1>5, FeedBackStops
<1>6. CASE Raise
  BY <1>6 DEF Raise, StopInv, StoppedSaysWhy
<1>7. CASE Read \/ EndResearch \/ Propose
  BY <1>7 DEF Read, EndResearch, Propose, Researching, StopInv, StoppedSaysWhy
<1>8. CASE Return
  BY <1>8 DEF Return, StopInv, StoppedSaysWhy
<1>9. CASE PauseOrResume
  BY <1>9 DEF PauseOrResume, StopInv, StoppedSaysWhy, Actionable
<1>10. CASE UNCHANGED vars
  BY <1>10 DEF vars, StopInv, StoppedSaysWhy, Actionable
<1> QED BY <1>1, <1>2, <1>3, <1>4, <1>5, <1>6, <1>7, <1>8, <1>9, <1>10 DEF Next, Work

(* The reason a turn gives for its end is what happened in it, whatever the    *)
(* model answers, the gate decides and whenever the session is paused: what    *)
(* the Host takes from it is true (run_turn).                                  *)
THEOREM StopIsHonest == Spec => []StoppedSaysWhy
<1>1. StopInv => StoppedSaysWhy
  BY DEF StopInv
<1> QED BY <1>1, StopInit, StopStep, PTL DEF Spec

-----------------------------------------------------------------------------
(* The parser: every attempt at a call is an intent, is shown, or is       *)
(* overruled by structured calls.                                          *)

Place == {"structured", "content"} \X Nat

LEMMA CallsFacts ==
  ASSUME NEW where \in {"structured", "content"}, NEW forms \in Seq(Form)
  PROVE  /\ Calls(where, forms) \in Seq(Place)
         /\ ToSet(Calls(where, forms)) = {a \in Attempts(where, forms) : forms[a[2]] = "call"}
<1> DEFINE all == [i \in DOMAIN forms |-> <<where, i>>]
           called == {a \in Attempts(where, forms) : forms[a[2]] = "call"}
<1>1. DOMAIN forms = 1..Len(forms) /\ Len(forms) \in Nat
  BY LenProperties
<1>2. all \in Seq(Place)
  <2>1. all \in [1..Len(forms) -> Place]
    BY <1>1 DEF Place
  <2> QED BY <1>1, <2>1, SeqDef
<1>3. ToSet(all) = Attempts(where, forms)
  BY DEF ToSet, Attempts
<1>4. called \subseteq ToSet(all)
  BY <1>3
<1>5. Calls(where, forms) = Kept(all, called)
  BY DEF Calls
<1> HIDE DEF all, called
<1>6. Kept(all, called) \in Seq(Place) /\ ToSet(Kept(all, called)) = ToSet(all) \cap called
  BY <1>2, KeptFacts
<1> QED BY <1>4, <1>5, <1>6 DEF called

LEMMA ConcatSet ==
  ASSUME NEW X, NEW s \in Seq(X), NEW t \in Seq(X)
  PROVE  s \o t \in Seq(X) /\ ToSet(s \o t) = ToSet(s) \cup ToSet(t)
<1>1. /\ s \o t \in Seq(X) /\ DOMAIN (s \o t) = 1..(Len(s) + Len(t)) /\ Len(s) \in Nat /\ Len(t) \in Nat
      /\ DOMAIN s = 1..Len(s) /\ DOMAIN t = 1..Len(t)
      /\ \A i \in 1..(Len(s) + Len(t)) : (s \o t)[i] = IF i <= Len(s) THEN s[i] ELSE t[i - Len(s)]
  BY ConcatProperties, LenProperties
<1>2. ASSUME NEW i \in DOMAIN (s \o t) PROVE (s \o t)[i] \in ToSet(s) \cup ToSet(t)
  <2>1. CASE i <= Len(s)
    BY <1>1, <2>1 DEF ToSet
  <2>2. CASE ~(i <= Len(s))
    <3>1. i - Len(s) \in 1..Len(t) /\ (s \o t)[i] = t[i - Len(s)]
      BY <1>1, <2>2
    <3> QED BY <1>1, <3>1 DEF ToSet
  <2> QED BY <2>1, <2>2
<1>3. ASSUME NEW i \in DOMAIN s PROVE s[i] \in ToSet(s \o t)
  <2>1. i \in DOMAIN (s \o t) /\ (s \o t)[i] = s[i]
    BY <1>1
  <2> QED BY <2>1 DEF ToSet
<1>4. ASSUME NEW i \in DOMAIN t PROVE t[i] \in ToSet(s \o t)
  <2>1. /\ i \in 1..Len(t) /\ Len(s) + i \in 1..(Len(s) + Len(t))
        /\ ~(Len(s) + i <= Len(s)) /\ (Len(s) + i) - Len(s) = i
    BY <1>1
  <2>2. (s \o t)[Len(s) + i] = t[i]
    BY <1>1, <2>1
  <2>3. Len(s) + i \in DOMAIN (s \o t)
    BY <1>1, <2>1
  <2> QED BY <2>2, <2>3 DEF ToSet
<1>5. ToSet(s \o t) \subseteq ToSet(s) \cup ToSet(t)
  BY <1>2 DEF ToSet
<1>6. ToSet(s) \subseteq ToSet(s \o t) /\ ToSet(t) \subseteq ToSet(s \o t)
  <2> HIDE DEF ToSet
  <2>1. \A x \in ToSet(s) : \E i \in DOMAIN s : x = s[i]
    BY DEF ToSet
  <2>2. \A x \in ToSet(t) : \E i \in DOMAIN t : x = t[i]
    BY DEF ToSet
  <2> QED BY <1>3, <1>4, <2>1, <2>2
<1> QED BY <1>1, <1>5, <1>6

LEMMA WholeContentFacts ==
  ASSUME NEW content \in ContentType
  PROVE  /\ WholeContent(content).intents \in Seq(Place)
         /\ Whole(content) =>
              \A a \in Attempts("content", content.forms) :
                content.forms[a[2]] # "plain" =>
                  a \in ToSet(WholeContent(content).intents) \cup WholeContent(content).ambiguous
         /\ Whole(content) /\ WholeContent(content).intents = <<>> =>
              \A a \in Attempts("content", content.forms) :
                content.forms[a[2]] = "call" => Len(content.forms) > 1
         /\ ~Whole(content) => WholeContent(content).ambiguous = Opening(content)
<1> DEFINE all == Attempts("content", content.forms)
<1>1. content.forms \in Seq(Form) /\ DOMAIN content.forms = 1..Len(content.forms) /\ Len(content.forms) \in Nat
  BY LenProperties DEF ContentType
<1>2. /\ Calls("content", content.forms) \in Seq(Place) /\ <<>> \in Seq(Place)
      /\ ToSet(Calls("content", content.forms)) = {a \in all : content.forms[a[2]] = "call"}
  BY <1>1, CallsFacts, EmptySeq
<1>6. CASE ~Whole(content)
  <2>1. WholeContent(content) = Parsed(<<>>, Opening(content))
    BY <1>6 DEF WholeContent
  <2> QED BY <1>2, <1>6, <2>1 DEF Parsed
<1>3. CASE Whole(content) /\ (\A a \in all : content.forms[a[2]] = "plain")
  <2>1. WholeContent(content) = Parsed(<<>>, {})
    BY <1>3 DEF WholeContent
  <2> QED BY <1>2, <1>3, <2>1 DEF Parsed
<1>4. CASE /\ Whole(content) /\ ~(\A a \in all : content.forms[a[2]] = "plain")
           /\ \A a \in all : content.forms[a[2]] = "call"
  <2>1. WholeContent(content) = Parsed(Calls("content", content.forms), {})
    BY <1>4 DEF WholeContent
  <2>2. PICK a \in all : content.forms[a[2]] # "plain"
    BY <1>4
  <2>3. a \in ToSet(Calls("content", content.forms))
    BY <1>2, <1>4
  <2>4. Calls("content", content.forms) # <<>>
    BY <2>3, EmptySeq DEF ToSet
  <2> QED BY <1>2, <1>4, <2>1, <2>4 DEF Parsed
<1>5. CASE /\ Whole(content) /\ ~(\A a \in all : content.forms[a[2]] = "plain")
           /\ ~(\A a \in all : content.forms[a[2]] = "call")
  <2>1. WholeContent(content) = Parsed(<<>>, all)
    BY <1>5 DEF WholeContent
  <2>2. ASSUME NEW a \in all, content.forms[a[2]] = "call" PROVE Len(content.forms) > 1
    <3>1. PICK b \in all : content.forms[b[2]] # "call"
      BY <1>5
    <3>2. a[2] \in 1..Len(content.forms) /\ b[2] \in 1..Len(content.forms) /\ a[2] # b[2]
      BY <1>1, <2>2, <3>1 DEF Attempts
    <3> QED BY <1>1, <3>2
  <2> QED BY <1>2, <1>5, <2>1, <2>2 DEF Parsed
<1> QED BY <1>3, <1>4, <1>5, <1>6

\* The parser drops nothing but what it leaves in the text.
LEMMA ParserDropsNothing ==
  ASSUME NEW m \in MessageType
  PROVE  /\ ParseMessage(m).intents \in Seq(Place)
         /\ Tried(m) \subseteq ToSet(ParseMessage(m).intents) \cup ParseMessage(m).ambiguous
                                 \cup Overruled(m) \cup LeftInText(m)
         /\ ParseMessage(m).intents = <<>> =>
              \A a \in Tried(m) \ LeftInText(m) : FormOf(m, a) = "call" => Whole(m.content) /\ Len(m.content.forms) > 1
<1> DEFINE c == m.content
           s == Structured(m)
           k == Marked(c)
           w == IF s.intents \o k.intents = <<>> THEN WholeContent(c) ELSE Parsed(<<>>, {})
<1>1. /\ m.structured \in Seq(Form) /\ c \in ContentType /\ c.forms \in Seq(Form)
      /\ (c.kind = "none" => c.forms = <<>>) /\ c.kind \in Kind
  <2>1. m.structured \in Seq(Json) /\ c \in ContentType
    BY DEF MessageType
  <2>2. Seq(Json) \subseteq Seq(Form)
    BY DEF Form
  <2> QED BY <2>1, <2>2 DEF ContentType
<1>2. /\ s.intents \in Seq(Place)
      /\ ToSet(s.intents) = {a \in Attempts("structured", m.structured) : m.structured[a[2]] = "call"}
      /\ s.ambiguous = Uncalled("structured", m.structured)
  BY <1>1, CallsFacts DEF Structured, Parsed
<1>3. /\ k.intents \in Seq(Place)
      /\ Prose(c) =>
           /\ ToSet(k.intents) = {a \in Attempts("content", c.forms) : c.forms[a[2]] = "call"}
           /\ k.ambiguous = Uncalled("content", c.forms) \cap Hits(c)
      /\ ~Prose(c) => k.intents = <<>>
  BY <1>1, CallsFacts, EmptySeq DEF Marked, Parsed
<1>4. w.intents \in Seq(Place)
  BY <1>1, WholeContentFacts, EmptySeq DEF Parsed
<1>5. /\ ParseMessage(m).intents = s.intents \o k.intents \o w.intents
      /\ ParseMessage(m).ambiguous = s.ambiguous \cup k.ambiguous \cup w.ambiguous
  BY DEF ParseMessage, Parsed
<1> HIDE DEF s, k, w
<1>6. /\ s.intents \o k.intents \in Seq(Place)
      /\ ToSet(s.intents \o k.intents) = ToSet(s.intents) \cup ToSet(k.intents)
  BY <1>2, <1>3, ConcatSet
<1>7. /\ ParseMessage(m).intents \in Seq(Place)
      /\ ToSet(ParseMessage(m).intents) = ToSet(s.intents) \cup ToSet(k.intents) \cup ToSet(w.intents)
  <2>1. /\ (s.intents \o k.intents) \o w.intents \in Seq(Place)
        /\ ToSet((s.intents \o k.intents) \o w.intents) = ToSet(s.intents \o k.intents) \cup ToSet(w.intents)
    <3> DEFINE sk == s.intents \o k.intents
    <3>1. sk \in Seq(Place)
      BY <1>6
    <3> HIDE DEF sk
    <3>2. sk \o w.intents \in Seq(Place) /\ ToSet(sk \o w.intents) = ToSet(sk) \cup ToSet(w.intents)
      BY <1>4, <3>1, ConcatSet
    <3> QED BY <3>2 DEF sk
  <2> QED BY <1>5, <1>6, <2>1
<1>8. ASSUME NEW a \in Tried(m), a \notin LeftInText(m)
      PROVE  \/ /\ a \in Attempts("structured", m.structured)
                /\ FormOf(m, a) = m.structured[a[2]]
             \/ /\ a \in Attempts("content", c.forms) /\ a \notin Attempts("structured", m.structured)
                /\ FormOf(m, a) = c.forms[a[2]]
                /\ c.kind \in {"prose", "object", "batch"} /\ a \in Hits(c) \cup Opening(c)
  <2>1. CASE a \in Attempts("structured", m.structured)
    BY <2>1 DEF Attempts, FormOf
  <2>2. CASE a \notin Attempts("structured", m.structured)
    <3>1. a \in Attempts("content", c.forms) /\ c.kind # "cut_fence" /\ a \in Hits(c) \cup Opening(c)
      <4>1. a \in Attempts("content", c.forms) /\ c.kind # "cut_fence" /\ c.forms[a[2]] \notin {"bare", "aside"}
        BY <1>8, <2>2 DEF Tried, LeftInText
      <4>2. c.forms[a[2]] \in Form
        BY <1>1, <4>1, LenProperties DEF Attempts
      <4> QED BY <4>1, <4>2 DEF Hits, Opening, Form
    <3>2. c.forms # <<>>
      BY <3>1, EmptySeq DEF Attempts
    <3>3. c.kind \in {"prose", "object", "batch"}
      BY <1>1, <3>1, <3>2 DEF Kind
    <3> QED BY <2>2, <3>1, <3>3 DEF Attempts, FormOf
  <2> QED BY <2>1, <2>2
<1>9. ASSUME NEW a \in Tried(m), a \notin LeftInText(m)
      PROVE  a \in ToSet(ParseMessage(m).intents) \cup ParseMessage(m).ambiguous \cup Overruled(m)
  <2>1. CASE a \in Attempts("structured", m.structured)
    BY <1>2, <1>5, <1>7, <2>1 DEF Uncalled
  <2>2. CASE a \in Attempts("content", c.forms) /\ c.kind = "prose" /\ a \in Hits(c)
    BY <1>3, <1>5, <1>7, <2>2 DEF Prose, Uncalled
  <2>3. CASE a \in Attempts("content", c.forms) /\ Whole(c) /\ c.forms[a[2]] # "plain"
    <3>1. k.intents = <<>> /\ s.intents \o k.intents = s.intents
      BY <1>2, <1>3, <2>3, ConcatEmptySeq DEF Prose, Whole
    <3>2. CASE s.intents # <<>>
      BY <2>3, <3>1, <3>2 DEF Overruled, s, k
    <3>3. CASE s.intents = <<>>
      <4>1. w = WholeContent(c)
        BY <3>1, <3>3 DEF w
      <4> QED BY <1>1, <1>5, <1>7, <2>3, <4>1, WholeContentFacts
    <3> QED BY <3>2, <3>3
  <2>4. FormOf(m, a) # "plain"
    BY DEF Tried
  <2>5. CASE a \in Opening(c) /\ c.kind = "prose"
    <3>1. ~Whole(c)
      BY <2>5 DEF Whole
    <3>2. CASE s.intents \o k.intents # <<>>
      BY <2>5, <3>1, <3>2 DEF Overruled, s, k
    <3>3. CASE s.intents \o k.intents = <<>>
      <4>1. w = WholeContent(c)
        BY <3>3 DEF w
      <4> QED BY <1>1, <1>5, <2>5, <3>1, <4>1, WholeContentFacts
    <3> QED BY <3>2, <3>3
  <2> QED BY <1>8, <1>9, <2>1, <2>2, <2>3, <2>4, <2>5 DEF Whole
<1>10. ASSUME ParseMessage(m).intents = <<>>, NEW a \in Tried(m), a \notin LeftInText(m), FormOf(m, a) = "call"
       PROVE  Whole(c) /\ Len(c.forms) > 1
  <2>1. ToSet(s.intents) = {} /\ ToSet(k.intents) = {} /\ ToSet(w.intents) = {}
    <3>1. ToSet(ParseMessage(m).intents) = {}
      BY <1>10, EmptySeq DEF ToSet
    <3> QED BY <1>7, <3>1
  <2>2. s.intents = <<>> /\ k.intents = <<>> /\ w.intents = <<>>
    <3>1. ASSUME NEW q \in Seq(Place), ToSet(q) = {} PROVE q = <<>>
      <4>1. Len(q) \in Nat /\ DOMAIN q = 1..Len(q)
        BY LenProperties
      <4>2. ~(1 \in 1..Len(q))
        BY <3>1, <4>1 DEF ToSet
      <4> QED BY <4>1, <4>2, EmptySeq
    <3> QED BY <1>2, <1>3, <1>4, <2>1, <3>1
  <2>3. a \notin Attempts("structured", m.structured)
    BY <1>2, <1>8, <1>10, <2>1
  <2>4. a \in Attempts("content", c.forms) /\ c.forms[a[2]] = "call" /\ c.kind # "prose"
    BY <1>3, <1>8, <1>10, <2>1, <2>3 DEF Prose
  <2>5. Whole(c)
    BY <1>8, <1>10, <2>3, <2>4 DEF Whole
  <2>6. w = WholeContent(c)
    BY <1>2, <2>2, ConcatEmptySeq DEF w
  <2> QED BY <1>1, <2>2, <2>4, <2>5, <2>6, WholeContentFacts
<1> QED BY <1>7, <1>9, <1>10

-----------------------------------------------------------------------------
(* The loop drops nothing either: what a completion tried is governed,     *)
(* still to be governed, shown or overruled.                               *)

Tracked ==
  /\ attempt \in Nat /\ todo \in Seq(Place)
  /\ msg # None => msg \in Message
  /\ phase \in {"idle", "propose"} \cup Trust => msg = None /\ attempt = 0
  /\ phase = "govern" => /\ msg # None /\ attempt = 0
                         /\ Tried(msg) \subseteq governed \cup ToSet(todo) \cup shown \cup Overruled(msg) \cup LeftInText(msg)

DropInv == Tracked /\ NothingDropped

LEMMA DropInit == Init => DropInv
  BY EmptySeq DEF Init, DropInv, Tracked, NothingDropped, GoneOn

\* the three ways to take a completion
LEMMA RetryKeeps ==
  ASSUME DropInv, NEW m \in Message, phase = "ask", msg' = m, Retry(m)
  PROVE  DropInv'
<1>1. /\ attempt \in Nat /\ attempt' = attempt + 1 /\ todo' = todo /\ phase' = "ask"
      /\ ParseMessage(m).intents = <<>> /\ m # None /\ m \in MessageType
  BY TurnLoopAssumption DEF Retry, Counted, AskedAgain, Actionable, DropInv, Tracked
<1>2. Tracked'
  BY <1>1 DEF DropInv, Tracked, Trust
<1>3. attempt' > 0
  BY <1>1
<1>4. \A a \in Tried(m) \ LeftInText(m) : FormOf(m, a) = "call" => Whole(m.content) /\ Len(m.content.forms) > 1
  BY <1>1, ParserDropsNothing
<1> QED BY <1>1, <1>2, <1>3, <1>4 DEF DropInv, NothingDropped, GoneOn

LEMMA GiveUpKeeps ==
  ASSUME DropInv, NEW m \in Message, phase = "ask", msg' = m, GiveUp(m)
  PROVE  DropInv'
  BY TurnLoopAssumption DEF GiveUp, DropInv, Tracked, NothingDropped, GoneOn, Trust

LEMMA AcceptKeeps ==
  ASSUME DropInv, NEW m \in Message, phase = "ask", msg' = m, Accept(m)
  PROVE  DropInv'
<1> DEFINE parsed == ParseMessage(m)
<1>1. /\ attempt' = 0 /\ shown' = parsed.ambiguous /\ todo' = parsed.intents /\ governed' = {}
      /\ phase' = IF parsed.intents = <<>> THEN "over" ELSE "govern"
      /\ m # None /\ m \in MessageType
  BY TurnLoopAssumption DEF Accept
<1>2. /\ parsed.intents \in Seq(Place)
      /\ Tried(m) \subseteq ToSet(parsed.intents) \cup parsed.ambiguous \cup Overruled(m) \cup LeftInText(m)
  BY <1>1, ParserDropsNothing
<1>3. parsed.intents = <<>> => ToSet(parsed.intents) = {}
  BY EmptySeq DEF ToSet
<1> HIDE DEF parsed
<1>4. Tracked'
  BY <1>1, <1>2 DEF Tracked, Trust
<1>5. NothingDropped'
  BY <1>1, <1>2, <1>3 DEF NothingDropped, GoneOn
<1> QED BY <1>4, <1>5 DEF DropInv

LEMMA GovernKeeps ==
  ASSUME DropInv, NEW status, GovernAction(status)
  PROVE  DropInv'
<1>1. /\ phase = "govern" /\ phase' = "govern" /\ msg' = msg /\ attempt' = attempt /\ shown' = shown
      /\ todo # <<>> /\ todo \in Seq(Place)
      /\ governed' = governed \cup {Head(todo)} /\ todo' = Tail(todo)
  BY DEF GovernAction, DropInv, Tracked
<1>2. todo' \in Seq(Place)
  BY <1>1, HeadTailProperties
<1>3. ToSet(todo) \subseteq {Head(todo)} \cup ToSet(Tail(todo))
  <2>1. /\ Len(todo) \in Nat /\ Len(Tail(todo)) = Len(todo) - 1 /\ Head(todo) = todo[1]
        /\ DOMAIN todo = 1..Len(todo) /\ DOMAIN Tail(todo) = 1..Len(Tail(todo))
        /\ \A i \in 1..(Len(todo) - 1) : Tail(todo)[i] = todo[i + 1]
    BY <1>1, HeadTailProperties, LenProperties
  <2>2. ASSUME NEW i \in DOMAIN todo PROVE todo[i] \in {Head(todo)} \cup ToSet(Tail(todo))
    <3>1. CASE i = 1
      BY <2>1, <3>1
    <3>2. CASE i # 1
      <4>1. i - 1 \in 1..(Len(todo) - 1) /\ (i - 1) + 1 = i
        BY <2>1, <2>2, <3>2
      <4>2. Tail(todo)[i - 1] = todo[i] /\ i - 1 \in DOMAIN Tail(todo)
        BY <2>1, <4>1
      <4> QED BY <4>2 DEF ToSet
    <3> QED BY <3>1, <3>2
  <2> QED BY <2>2 DEF ToSet
<1>4. Tracked'
  BY <1>1, <1>2, <1>3 DEF DropInv, Tracked, Trust
<1> QED BY <1>1, <1>4 DEF DropInv, Tracked, NothingDropped, GoneOn

LEMMA FeedBackKeeps ==
  ASSUME DropInv, FeedBack
  PROVE  DropInv'
<1>1. /\ phase = "govern" /\ todo = <<>> /\ phase' \in {"ask", "over"}
      /\ UNCHANGED <<attempt, msg, todo, governed, shown>>
  BY DEF FeedBack
<1>2. ToSet(todo) = {}
  BY <1>1, EmptySeq DEF ToSet
<1>3. Tracked'
  BY <1>1 DEF DropInv, Tracked, Trust
<1>4. NothingDropped'
  BY <1>1, <1>2 DEF DropInv, Tracked, NothingDropped, GoneOn
<1> QED BY <1>3, <1>4 DEF DropInv

LEMMA DropStep == DropInv /\ [Next]_vars => DropInv'
<1> SUFFICES ASSUME DropInv, [Next]_vars PROVE DropInv'
  OBVIOUS
<1> USE DEF Trust, turn
<1>1. CASE StartTurn
  BY <1>1 DEF StartTurn, DropInv, Tracked, NothingDropped, GoneOn
<1>2. ASSUME NEW trust \in Trust, StartPropose(trust) PROVE DropInv'
  BY <1>2 DEF StartPropose, DropInv, Tracked, NothingDropped, GoneOn
<1>3. CASE Answer
  BY <1>3, RetryKeeps, GiveUpKeeps, AcceptKeeps DEF Answer
<1>4. ASSUME NEW status \in Status \cup {"paused"}, GovernAction(status) PROVE DropInv'
  BY <1>4, GovernKeeps
<1>5. CASE FeedBack
  BY <1>5, FeedBackKeeps
<1>6. CASE Raise
  BY <1>6 DEF Raise, DropInv, Tracked, NothingDropped, GoneOn
<1>7. CASE Read \/ EndResearch \/ Propose
  BY <1>7 DEF Read, EndResearch, Propose, Researching, DropInv, Tracked, NothingDropped, GoneOn
<1>8. CASE Return
  BY <1>8, EmptySeq DEF Return, DropInv, Tracked, NothingDropped, GoneOn
<1>9. CASE PauseOrResume
  BY <1>9 DEF PauseOrResume, DropInv, Tracked, NothingDropped, GoneOn
<1>10. CASE UNCHANGED vars
  BY <1>10 DEF vars, DropInv, Tracked, NothingDropped, GoneOn
<1> QED BY <1>1, <1>2, <1>3, <1>4, <1>5, <1>6, <1>7, <1>8, <1>9, <1>10 DEF Next, Work

(* Whatever the model tried in a completion the loop went on from was governed *)
(* or is shown, was overruled by a call found before it, or is in the text the *)
(* parser left: an aside, a marker with no JSON, or behind a fence cut off.    *)
(* A completion asked again for held no whole call but there or in a batch     *)
(* that is not whole.  For messages of any length, any number of retries and   *)
(* iterations (parse_message, _complete_actionable, the loop over the intents).*)
THEOREM NothingIsDropped == Spec => []NothingDropped
<1>1. DropInv => NothingDropped
  BY DEF DropInv
<1> QED BY <1>1, DropInit, DropStep, PTL DEF Spec

-----------------------------------------------------------------------------
(* The pool, counted in the proposals it holds: none is in it twice.       *)

\* A sequence that repeats nothing is as long as it has members.
LEMMA MembersCounted ==
  ASSUME NEW X, NEW s \in Seq(X), IsInjective(s)
  PROVE  IsFiniteSet(ToSet(s)) /\ Cardinality(ToSet(s)) = Len(s) /\ Len(s) \in Nat
<1>1. Len(s) \in Nat /\ DOMAIN s = 1..Len(s) /\ s \in [1..Len(s) -> X]
  BY LenProperties
<1>2. IsFiniteSet(1..Len(s)) /\ Cardinality(1..Len(s)) = Len(s)
  BY <1>1, FS_Interval
<1>3. s \in [1..Len(s) -> ToSet(s)] /\ \A x \in ToSet(s) : \E i \in 1..Len(s) : s[i] = x
  BY <1>1 DEF ToSet
<1>4. s \in Bijection(1..Len(s), ToSet(s))
  BY <1>1, <1>3 DEF Bijection, Injection, Surjection, IsInjective
<1>5. ExistsBijection(1..Len(s), ToSet(s))
  BY <1>4 DEF ExistsBijection
<1> QED BY <1>1, <1>2, <1>5, FS_Bijection

\* What is left of such a sequence, and its first n members.
LEMMA KeptOnce ==
  ASSUME NEW X, NEW s \in Seq(X), IsInjective(s), NEW S
  PROVE  /\ Kept(s, S) \in Seq(X) /\ IsInjective(Kept(s, S)) /\ ToSet(Kept(s, S)) = ToSet(s) \cap S
         /\ Len(Kept(s, S)) = Cardinality(ToSet(s) \cap S)
<1>1. Kept(s, S) \in Seq(X) /\ IsInjective(Kept(s, S)) /\ ToSet(Kept(s, S)) = ToSet(s) \cap S
  BY KeptFacts
<1> QED BY <1>1, MembersCounted

LEMMA FirstOnes ==
  ASSUME NEW X, NEW s \in Seq(X), IsInjective(s), NEW n \in Int, n <= Len(s)
  PROVE  /\ ToSet(SubSeq(s, 1, n)) \subseteq ToSet(s)
         /\ IsFiniteSet(ToSet(SubSeq(s, 1, n)))
         /\ Cardinality(ToSet(SubSeq(s, 1, n))) = IF 1 <= n THEN n ELSE 0
<1> DEFINE q == SubSeq(s, 1, n)
<1>1. Len(s) \in Nat /\ DOMAIN s = 1..Len(s) /\ \A i \in 1..n : s[i] \in X
  BY LenProperties
<1>2. q \in Seq(X) /\ Len(q) = (IF 1 <= n THEN n ELSE 0) /\ \A i \in 1..n : q[i] = s[i]
  <2>1. q \in Seq(X) /\ Len(q) = (IF 1 <= n THEN n - 1 + 1 ELSE 0) /\ \A i \in 1..(n - 1 + 1) : q[i] = s[1 + i - 1]
    BY <1>1, SubSeqProperties
  <2> HIDE DEF q
  <2> QED BY <2>1
<1> HIDE DEF q
<1>3. DOMAIN q = 1..Len(q) /\ Len(q) \in Nat
  BY <1>2, LenProperties
<1>4. DOMAIN q \subseteq 1..n /\ DOMAIN q \subseteq DOMAIN s
  BY <1>1, <1>2, <1>3
<1>5. IsInjective(q)
  BY <1>2, <1>4 DEF IsInjective
<1>6. ToSet(q) \subseteq ToSet(s)
  BY <1>2, <1>4 DEF ToSet
<1>7. IsFiniteSet(ToSet(q)) /\ Cardinality(ToSet(q)) = Len(q)
  BY <1>2, <1>5, MembersCounted
<1> QED BY <1>2, <1>6, <1>7 DEF q

Proposal == [intent : Intent, decision : Governed, status : ProposalStatus, consumed : BOOLEAN]

PoolShape ==
  /\ proposals \in Seq(Proposal) /\ crowd \in Seq(Nat) /\ Len(crowd) = Len(proposals)
  /\ pool \in Seq(Nat) /\ IsInjective(pool) /\ ToSet(pool) \subseteq 1..Len(proposals)

PoolInv == PoolShape /\ WaitingIsKept

\* the undecided ones
Open == {p \in DOMAIN proposals : Undecided(p)}

PoolCounts ==
  /\ Pending \in Seq(Nat) /\ IsInjective(Pending) /\ ToSet(Pending) = ToSet(pool) \cap Open
  /\ Len(Pending) = Cardinality(ToSet(pool) \cap Open) /\ Len(Pending) \in Nat
  /\ Len(pool) = Cardinality(ToSet(pool)) /\ Len(pool) \in Nat /\ IsFiniteSet(ToSet(pool))
  /\ DOMAIN proposals = 1..Len(proposals) /\ DOMAIN crowd = 1..Len(crowd) /\ Len(proposals) \in Nat

LEMMA PendingFacts == PoolShape => PoolCounts
<1> SUFFICES ASSUME PoolShape PROVE PoolCounts
  OBVIOUS
<1>1. pool \in Seq(Nat) /\ IsInjective(pool)
  BY DEF PoolShape
<1>2. IsFiniteSet(ToSet(pool)) /\ Cardinality(ToSet(pool)) = Len(pool) /\ Len(pool) \in Nat
  BY <1>1, MembersCounted
<1>3. /\ Pending \in Seq(Nat) /\ IsInjective(Pending) /\ ToSet(Pending) = ToSet(pool) \cap Open
      /\ Len(Pending) = Cardinality(ToSet(pool) \cap Open)
  BY <1>1, KeptOnce DEF Pending, Open
<1>4. Len(Pending) \in Nat
  BY <1>3, LenProperties
<1>5. DOMAIN proposals = 1..Len(proposals) /\ DOMAIN crowd = 1..Len(crowd) /\ Len(proposals) \in Nat
  BY LenProperties DEF PoolShape
<1> QED BY <1>2, <1>3, <1>4, <1>5 DEF PoolCounts

\* What the pool becomes when a proposal joins it: of the decided ones the
\* overflow goes, of the undecided ones none.
LEMMA AddFacts ==
  ASSUME PoolShape, NEW p \in Nat, p \notin ToSet(pool), p \notin DOMAIN proposals
  PROVE  LET A == ToSet(pool)
             q == Evicted(Append(pool, p))
             O == Overflow(Append(pool, p))
         IN  /\ q \in Seq(Nat) /\ IsInjective(q) /\ ToSet(q) = (A \cup {p}) \ O
             /\ O \subseteq A \ Open /\ IsFiniteSet(O)
             /\ Cardinality(A \ Open) <= Cardinality(O) + MaxResolved
<1> DEFINE A == ToSet(pool)
           items == Append(pool, p)
           res == Resolved(items)
           n == Len(res) - MaxResolved
           decided == {r \in DOMAIN proposals : ~Undecided(r)}
<1>1. pool \in Seq(Nat) /\ IsInjective(pool) /\ DOMAIN pool = 1..Len(pool) /\ Len(pool) \in Nat /\ A \subseteq DOMAIN proposals
  BY LenProperties DEF PoolShape
<1>2. /\ items \in Seq(Nat) /\ DOMAIN items = 1..(Len(pool) + 1)
      /\ (\A i \in 1..Len(pool) : items[i] = pool[i]) /\ items[Len(pool) + 1] = p
  BY <1>1, AppendProperties, LenProperties
<1>3. IsInjective(items) /\ ToSet(items) = A \cup {p}
  <2>1. 1..(Len(pool) + 1) = 1..Len(pool) \cup {Len(pool) + 1}
    BY <1>1
  <2>2. ToSet(items) = A \cup {p}
    BY <1>1, <1>2, <2>1 DEF ToSet
  <2>3. \A i \in 1..Len(pool) : pool[i] # p
    BY <1>1 DEF ToSet
  <2> QED BY <1>1, <1>2, <2>2, <2>3 DEF IsInjective
<1>4. ToSet(items) \cap decided = A \ Open
  BY <1>1, <1>3 DEF Open
<1>5. res \in Seq(Nat) /\ IsInjective(res) /\ ToSet(res) = A \ Open /\ Len(res) = Cardinality(A \ Open)
  <2>1. res = Kept(items, decided)
    BY DEF Resolved
  <2> HIDE DEF res, items, decided
  <2> QED BY <1>2, <1>3, <1>4, <2>1, KeptOnce
<1>6. Overflow(items) = ToSet(SubSeq(res, 1, n))
  BY DEF Overflow
<1> HIDE DEF res, items, decided
<1>7. Len(res) \in Nat /\ n \in Int /\ n <= Len(res)
  BY <1>5, LenProperties, ProposalsAssumption
<1>8. /\ Overflow(items) \subseteq A \ Open /\ IsFiniteSet(Overflow(items))
      /\ Cardinality(Overflow(items)) = IF 1 <= n THEN n ELSE 0
  BY <1>5, <1>6, <1>7, FirstOnes
<1>9. Cardinality(A \ Open) <= Cardinality(Overflow(items)) + MaxResolved
  BY <1>5, <1>7, <1>8, ProposalsAssumption
<1>10. /\ Evicted(items) \in Seq(Nat) /\ IsInjective(Evicted(items))
       /\ ToSet(Evicted(items)) = (A \cup {p}) \ Overflow(items)
  <2>1. /\ Evicted(items) \in Seq(Nat) /\ IsInjective(Evicted(items))
        /\ ToSet(Evicted(items)) = ToSet(items) \cap (ToSet(items) \ Overflow(items))
    BY <1>2, <1>3, KeptOnce DEF Evicted
  <2> QED BY <1>3, <2>1
<1> QED BY <1>8, <1>9, <1>10 DEF items

LEMMA PoolStarts == PoolInit => PoolInv
<1> SUFFICES ASSUME PoolInit PROVE PoolInv
  OBVIOUS
<1>1. /\ pool = <<>> /\ proposals = <<>> /\ crowd = <<>>
      /\ Len(pool) = 0 /\ DOMAIN pool = {} /\ DOMAIN proposals = {}
      /\ pool \in Seq(Nat) /\ proposals \in Seq(Proposal) /\ crowd \in Seq(Nat)
  BY EmptySeq DEF PoolInit
<1>2. ToSet(pool) = {} /\ IsInjective(pool)
  BY <1>1 DEF ToSet, IsInjective
<1>3. PoolShape
  BY <1>1, <1>2 DEF PoolShape
<1>4. Len(Pending) = 0
  BY <1>2, <1>3, PendingFacts, FS_EmptySet DEF PoolCounts
<1> QED BY <1>1, <1>3, <1>4, ProposalsAssumption DEF PoolInv, WaitingIsKept

\* A decision or a prune opens no proposal and drops none that is open.
LEMMA DecidingKeeps ==
  ASSUME PoolInv, PoolShape', crowd' = crowd, Len(proposals') = Len(proposals),
         Open' \subseteq Open, ToSet(pool)' \subseteq ToSet(pool), ToSet(pool) \cap Open' \subseteq ToSet(pool)'
  PROVE  PoolInv'
<1>1. /\ Len(Pending) = Cardinality(ToSet(pool) \cap Open) /\ IsFiniteSet(ToSet(pool))
      /\ Len(pool) = Cardinality(ToSet(pool)) /\ DOMAIN proposals = 1..Len(proposals)
      /\ Len(pool) \in Nat /\ Len(Pending) \in Nat
  BY PendingFacts DEF PoolInv, PoolCounts
<1>2. /\ Len(Pending') = Cardinality(ToSet(pool)' \cap Open')
      /\ Len(pool') = Cardinality(ToSet(pool)') /\ DOMAIN proposals' = 1..Len(proposals')
      /\ Len(pool') \in Nat /\ Len(Pending') \in Nat
  <2>1. PoolCounts'
    BY PendingFacts, PTL
  <2> QED BY <2>1 DEF PoolCounts
<1>3. Cardinality(ToSet(pool)') <= Cardinality(ToSet(pool))
  BY <1>1, FS_Subset
<1>4. Cardinality(ToSet(pool)' \cap Open') <= Cardinality(ToSet(pool) \cap Open)
  <2>1. ToSet(pool)' \cap Open' \subseteq ToSet(pool) \cap Open
    OBVIOUS
  <2>2. IsFiniteSet(ToSet(pool) \cap Open)
    BY <1>1, FS_Subset
  <2> QED BY <2>1, <2>2, FS_Subset
<1>5. Len(Pending') <= MaxPending /\ Len(pool') <= MaxPending + MaxResolved
  BY <1>1, <1>2, <1>3, <1>4, ProposalsAssumption DEF PoolInv, WaitingIsKept
<1>6. ASSUME NEW p \in DOMAIN proposals', Undecided(p)' PROVE p \in ToSet(pool)' \/ crowd'[p] >= MaxPending
  <2>1. p \in Open' /\ p \in Open
    BY <1>6 DEF Open
  <2>2. p \in ToSet(pool) \/ crowd[p] >= MaxPending
    BY <2>1 DEF Open, PoolInv, WaitingIsKept
  <2> QED BY <2>1, <2>2
<1> QED BY <1>5, <1>6 DEF PoolInv, WaitingIsKept


LEMMA SurfacingKeeps ==
  ASSUME PoolInv, NEW i \in Intent, NEW confidence \in Confidence, NEW dial \in Dial, NEW answer \in Governed,
         ProposeIntent(i, confidence, dial, answer), NEW p, p = Len(proposals) + 1
  PROVE  PoolInv'
<1> DEFINE new == [intent |-> i, decision |-> answer, status |-> "proposed", consumed |-> FALSE]
           A == ToSet(pool)
           O == Overflow(Append(pool, p))
<1>1. PoolCounts /\ PoolShape /\ WaitingIsKept
  BY PendingFacts DEF PoolInv
<1>2. /\ proposals' = Append(proposals, new) /\ crowd' = Append(crowd, Len(Pending)) /\ pool' = Add(p)
      /\ new \in Proposal
  BY DEF ProposeIntent, Proposal, ProposalStatus
<1> HIDE DEF new
<1>3. /\ proposals' \in Seq(Proposal) /\ Len(proposals') = p /\ DOMAIN proposals' = 1..p
      /\ proposals'[p] = new /\ \A r \in 1..Len(proposals) : proposals'[r] = proposals[r]
  <2>1. proposals \in Seq(Proposal)
    BY <1>1 DEF PoolShape
  <2> QED BY <1>2, <2>1, AppendProperties, LenProperties
<1>4. /\ crowd' \in Seq(Nat) /\ Len(crowd') = p /\ crowd'[p] = Len(Pending)
      /\ \A r \in 1..Len(proposals) : crowd'[r] = crowd[r]
  <2>1. crowd \in Seq(Nat) /\ Len(Pending) \in Nat /\ Len(crowd) = Len(proposals)
    BY <1>1 DEF PoolShape, PoolCounts
  <2> QED BY <1>2, <2>1, AppendProperties, LenProperties
<1>5. /\ p \in Nat /\ p \notin DOMAIN proposals /\ A \subseteq DOMAIN proposals /\ p \notin A
      /\ 1..p = DOMAIN proposals \cup {p} /\ DOMAIN proposals = 1..Len(proposals)
  <2>1. Len(proposals) \in Nat /\ DOMAIN proposals = 1..Len(proposals) /\ A \subseteq DOMAIN proposals
    BY <1>1 DEF PoolShape, PoolCounts
  <2> HIDE DEF A
  <2>2. p \in Nat /\ p \notin 1..Len(proposals) /\ 1..p = 1..Len(proposals) \cup {p}
    BY <2>1
  <2> QED BY <2>1, <2>2
<1>6. Open' = Open \cup {p}
  <2>1. new.status = "proposed"
    BY DEF new
  <2>2. \A r \in DOMAIN proposals : Undecided(r)' <=> Undecided(r)
    BY <1>3, <1>5 DEF Undecided
  <2>3. Undecided(p)'
    BY <1>3, <2>1 DEF Undecided
  <2> QED BY <1>3, <1>5, <2>2, <2>3 DEF Open
<1>7. CASE Len(Pending) >= MaxPending
  <2>1. pool' = pool
    BY <1>2, <1>7 DEF Add
  <2>2. PoolShape'
    BY <1>1, <1>3, <1>4, <1>5, <2>1 DEF PoolShape
  <2>3. PoolCounts'
    BY <2>2, PendingFacts, PTL
  <2>4. ToSet(pool)' \cap Open' = A \cap Open
    BY <1>5, <1>6, <2>1
  <2>5. Len(Pending') <= MaxPending /\ Len(pool') <= MaxPending + MaxResolved
    BY <1>1, <2>1, <2>3, <2>4 DEF PoolCounts, WaitingIsKept
  <2>6. ASSUME NEW r \in DOMAIN proposals', Undecided(r)' PROVE r \in ToSet(pool)' \/ crowd'[r] >= MaxPending
    <3>1. CASE r = p
      BY <1>4, <1>7, <3>1
    <3>2. CASE r # p
      <4>1. r \in DOMAIN proposals /\ Undecided(r)
        BY <1>3, <1>5, <2>6, <3>2 DEF Undecided
      <4>2. r \in A \/ crowd[r] >= MaxPending
        BY <1>1, <4>1 DEF WaitingIsKept
      <4> QED BY <1>4, <1>5, <2>1, <4>1, <4>2
    <3> QED BY <3>1, <3>2
  <2> QED BY <2>2, <2>5, <2>6 DEF PoolInv, WaitingIsKept
<1>8. CASE ~(Len(Pending) >= MaxPending)
  <2>1. pool' = Evicted(Append(pool, p))
    BY <1>2, <1>8 DEF Add
  <2>2. /\ pool' \in Seq(Nat) /\ IsInjective(pool') /\ ToSet(pool)' = (A \cup {p}) \ O
        /\ O \subseteq A \ Open /\ IsFiniteSet(O) /\ Cardinality(A \ Open) <= Cardinality(O) + MaxResolved
    BY <1>1, <1>5, <2>1, AddFacts
  <2> HIDE DEF A, O
  <2>3. ToSet(pool)' \subseteq 1..p /\ p \in ToSet(pool)'
    BY <1>5, <2>2
  <2>4. PoolShape'
    BY <1>3, <1>4, <2>2, <2>3 DEF PoolShape
  <2>5. PoolCounts'
    BY <2>4, PendingFacts, PTL
  <2>6. ToSet(pool)' \cap Open' = (A \cap Open) \cup {p}
    BY <1>5, <1>6, <2>2
  <2>7. IsFiniteSet(A) /\ Len(Pending) = Cardinality(A \cap Open) /\ Len(Pending) \in Nat
    BY <1>1 DEF PoolCounts, A
  <2>8. Cardinality((A \cap Open) \cup {p}) = Len(Pending) + 1 /\ IsFiniteSet((A \cap Open) \cup {p})
    <3>1. IsFiniteSet(A \cap Open) /\ p \notin A \cap Open
      BY <1>5, <2>7, FS_Subset DEF A
    <3> QED BY <2>7, <3>1, FS_AddElement
  <2>9. Len(Pending') <= MaxPending
    <3>1. Len(Pending') = Len(Pending) + 1
      BY <2>5, <2>6, <2>8 DEF PoolCounts
    <3> QED BY <1>8, <2>7, <3>1, ProposalsAssumption
  <2>10. ToSet(pool)' = ((A \cap Open) \cup {p}) \cup ((A \ Open) \ O)
    BY <1>5, <2>2 DEF A
  <2>11. ((A \cap Open) \cup {p}) \cap ((A \ Open) \ O) = {}
    BY <1>5 DEF A
  <2>12. /\ IsFiniteSet((A \ Open) \ O)
         /\ Cardinality((A \ Open) \ O) <= MaxResolved /\ Cardinality((A \ Open) \ O) \in Nat
    <3>1. IsFiniteSet(A \ Open) /\ (A \ Open) \cap O = O
      BY <2>2, <2>7, FS_Subset
    <3>2. IsFiniteSet((A \ Open) \ O) /\ Cardinality((A \ Open) \ O) = Cardinality(A \ Open) - Cardinality(O)
      BY <3>1, FS_Difference
    <3>3. Cardinality(A \ Open) \in Nat /\ Cardinality(O) \in Nat /\ Cardinality((A \ Open) \ O) \in Nat
      BY <2>2, <3>1, <3>2, FS_CardinalityType
    <3> QED BY <2>2, <3>2, <3>3, ProposalsAssumption
  <2>13. Cardinality(ToSet(pool)') = (Len(Pending) + 1) + Cardinality((A \ Open) \ O) - 0
    BY <2>8, <2>10, <2>11, <2>12, FS_Union, FS_EmptySet
  <2>14. Len(pool') <= MaxPending + MaxResolved
    BY <1>8, <2>5, <2>7, <2>12, <2>13, ProposalsAssumption DEF PoolCounts
  <2>15. ASSUME NEW r \in DOMAIN proposals', Undecided(r)' PROVE r \in ToSet(pool)' \/ crowd'[r] >= MaxPending
    <3>1. CASE r = p
      BY <2>3, <3>1
    <3>2. CASE r # p
      <4>1. r \in DOMAIN proposals /\ Undecided(r)
        BY <1>3, <1>5, <2>15, <3>2 DEF Undecided
      <4>2. r \in A \/ crowd[r] >= MaxPending
        BY <1>1, <4>1 DEF WaitingIsKept, A
      <4>3. r \in Open
        BY <4>1 DEF Open
      <4> QED BY <1>4, <1>5, <2>2, <4>1, <4>2, <4>3
    <3> QED BY <3>1, <3>2
  <2> QED BY <2>4, <2>9, <2>14, <2>15 DEF PoolInv, WaitingIsKept
<1> QED BY <1>1, <1>7, <1>8 DEF PoolCounts

\* an answer to proposal p: what changes of it is no part of the pool
LEMMA AnsweringKeeps ==
  ASSUME PoolInv, NEW p \in DOMAIN proposals, NEW r \in Proposal, Undecided(p),
         proposals' = [proposals EXCEPT ![p] = r], UNCHANGED <<pool, crowd>>
  PROVE  PoolInv'
<1>1. PoolCounts /\ PoolShape
  BY PendingFacts DEF PoolInv
<1>2. /\ proposals' \in Seq(Proposal) /\ Len(proposals') = Len(proposals)
      /\ \A k \in DOMAIN proposals : proposals'[k] = IF k = p THEN r ELSE proposals[k]
  <2>1. proposals \in Seq(Proposal) /\ p \in 1..Len(proposals) /\ DOMAIN proposals = 1..Len(proposals)
    BY <1>1 DEF PoolShape, PoolCounts
  <2> QED BY <2>1, ExceptSeq
<1>3. PoolShape'
  BY <1>1, <1>2 DEF PoolShape
<1>4. DOMAIN proposals' = DOMAIN proposals
  OBVIOUS
<1>5. Open' \subseteq Open
  BY <1>2, <1>4 DEF Open, Undecided
<1> QED BY <1>2, <1>3, <1>5, DecidingKeeps

LEMMA PruningKeeps ==
  ASSUME PoolInv, Prune
  PROVE  PoolInv'
<1>1. PoolCounts /\ PoolShape
  BY PendingFacts DEF PoolInv
<1>2. /\ pool' = Pending /\ UNCHANGED <<proposals, crowd>>
      /\ ToSet(pool)' = ToSet(pool) \cap Open /\ Open' = Open
  BY <1>1 DEF Prune, PoolCounts, Open, Undecided
<1>3. PoolShape'
  BY <1>1, <1>2 DEF PoolShape, PoolCounts
<1> QED BY <1>2, <1>3, DecidingKeeps

LEMMA PoolStep == PoolInv /\ [PoolNext]_poolVars => PoolInv'
<1> SUFFICES ASSUME PoolInv, [PoolNext]_poolVars PROVE PoolInv'
  OBVIOUS
<1>1. \A p \in DOMAIN proposals : proposals[p] \in Proposal
  <2>1. proposals \in Seq(Proposal)
    BY DEF PoolInv, PoolShape
  <2> QED BY <2>1, LenProperties, ElementOfSeq
<1>2. ASSUME NEW i \in Intent, NEW confidence \in Confidence, NEW dial \in Dial, NEW answer \in Governed,
             ProposeIntent(i, confidence, dial, answer)
      PROVE  PoolInv'
  <2>1. \A p : p = Len(proposals) + 1 => PoolInv'
    BY <1>2, SurfacingKeeps
  <2> QED BY <2>1
<1>3. ASSUME NEW p \in DOMAIN proposals, VetoProposal(p) PROVE PoolInv'
  <2> DEFINE r == [proposals[p] EXCEPT !.status = "vetoed", !.consumed = TRUE]
  <2>1. r \in Proposal /\ Undecided(p)
    BY <1>1, <1>3 DEF VetoProposal, Proposal, ProposalStatus
  <2>2. proposals' = [proposals EXCEPT ![p] = r] /\ UNCHANGED <<pool, crowd>>
    BY <1>3 DEF VetoProposal
  <2> HIDE DEF r
  <2> QED BY <2>1, <2>2, AnsweringKeeps
<1>4. ASSUME NEW p \in DOMAIN proposals, NEW granted \in BOOLEAN, NEW late \in BOOLEAN, ApproveProposal(p, granted, late)
      PROVE  PoolInv'
  <2> DEFINE r == [proposals[p] EXCEPT !.consumed = @ \/ Runnable(p),
                                       !.status = IF Runnable(p) /\ late THEN @ ELSE "approved"]
  <2>1. r \in Proposal /\ Undecided(p)
    BY <1>1, <1>4 DEF ApproveProposal, Runnable, Proposal, ProposalStatus
  <2>2. proposals' = [proposals EXCEPT ![p] = r] /\ UNCHANGED <<pool, crowd>>
    BY <1>4 DEF ApproveProposal
  <2> HIDE DEF r
  <2> QED BY <2>1, <2>2, AnsweringKeeps
<1>5. CASE Prune
  BY <1>5, PruningKeeps
<1>6. CASE UNCHANGED <<proposals, pool, crowd>>
  BY <1>6 DEF PoolInv, PoolShape, WaitingIsKept, Pending, Undecided
<1>7. ASSUME NEW t \in 0..MaxClock, SetClock(t) PROVE PoolInv'
  BY <1>6, <1>7 DEF SetClock
<1> QED BY <1>2, <1>3, <1>4, <1>5, <1>6, <1>7 DEF PoolNext, poolVars

(* A proposal that still awaits the human is in the pool, unless the pool was  *)
(* full of undecided ones when it surfaced, and the pool keeps its two bounds: *)
(* for any bounds, and any order of passes, answers and prunings (             *)
(* ProposalPool.add, _evict_resolved_overflow, prune_resolved).                *)
THEOREM NothingWaitingIsLost == PoolSpec => []WaitingIsKept
<1>1. PoolInv => WaitingIsKept
  BY DEF PoolInv
<1> QED BY <1>1, PoolStarts, PoolStep, PTL DEF PoolSpec

-----------------------------------------------------------------------------
(* What a veto weighs, and for how long. *)

LEMMA PowerOfTwo ==
  ASSUME NEW n \in Nat
  PROVE  2^n \in Nat /\ 2^n > 0
<1>1. IsFiniteSet(1..n) /\ Cardinality(1..n) = n
  BY FS_Interval
<1>2. IsFiniteSet(SUBSET (1..n)) /\ Cardinality(SUBSET (1..n)) = 2^n
  BY <1>1, FS_SUBSET
<1>3. Cardinality(SUBSET (1..n)) \in Nat
  BY <1>2, FS_CardinalityType
<1>4. Cardinality(SUBSET (1..n)) # 0
  <2>1. SUBSET (1..n) # {}
    OBVIOUS
  <2> QED BY <1>2, <2>1, FS_EmptySet
<1> QED BY <1>2, <1>3, <1>4

\* twice the bar of a no that was said n times
Twice(n) == IF BarDelta * (n + 1) > 2 * One THEN 2 * One ELSE BarDelta * (n + 1)

\* the ledger remembers every no there was, by its latest date and its number
VetoInv ==
  /\ proposals \in Seq(Proposal) /\ clock \in Nat
  /\ veto \in [Intent -> [at : Nat, bar : Nat] \cup {Never}]
  /\ noes \in [Intent -> [count : Nat, at : Nat]]
  /\ \A i \in Intent : noes[i].count = 0 => veto[i] = Never
  /\ \A i \in Intent : noes[i].count > 0 =>
       veto[i] # Never /\ veto[i].at = noes[i].at /\ 2 * veto[i].bar >= Twice(noes[i].count)

LEMMA VetoStarts == PoolInit => VetoInv
  BY EmptySeq DEF PoolInit, VetoInv

\* one more no
LEMMA BarGrows ==
  ASSUME NEW bar \in Nat, NEW n \in Nat, n > 0, 2 * bar >= Twice(n)
  PROVE  IF 2 * bar + BarDelta > 2 * One THEN 2 * One >= Twice(n + 1)
         ELSE /\ bar + BarDelta \div 2 \in Nat
              /\ 2 * (bar + BarDelta \div 2) >= Twice(n + 1)
<1> DEFINE once == BarDelta * (n + 1)
           more == BarDelta * ((n + 1) + 1)
<1>1. /\ once \in Nat /\ more = once + BarDelta /\ BarDelta \in Nat /\ One \in Nat
      /\ BarDelta \div 2 \in Nat /\ 2 * (BarDelta \div 2) = BarDelta
  BY ProposalsAssumption
<1>2. Twice(n) = (IF once > 2 * One THEN 2 * One ELSE once) /\ Twice(n + 1) = (IF more > 2 * One THEN 2 * One ELSE more)
  BY DEF Twice
<1> HIDE DEF once, more
<1> QED BY <1>1, <1>2

LEMMA FirstNo == 2 * BarDelta >= Twice(1) /\ BarDelta \in Nat /\ One \in Nat
  BY ProposalsAssumption DEF Twice

LEMMA VetoingKeeps ==
  ASSUME VetoInv, NEW p \in DOMAIN proposals, VetoProposal(p)
  PROVE  VetoInv'
<1> DEFINE i == proposals[p].intent
           n == noes[i].count
<1>1. proposals[p] \in Proposal /\ i \in Intent /\ p \in 1..Len(proposals)
  <2>1. proposals \in Seq(Proposal)
    BY DEF VetoInv
  <2>2. proposals[p] \in Proposal /\ p \in 1..Len(proposals)
    BY <2>1, LenProperties, ElementOfSeq
  <2> QED BY <2>2 DEF Proposal
<1>2. proposals' \in Seq(Proposal)
  <2> DEFINE r == [proposals[p] EXCEPT !.status = "vetoed", !.consumed = TRUE]
  <2>1. r \in Proposal /\ proposals' = [proposals EXCEPT ![p] = r] /\ proposals \in Seq(Proposal)
    BY <1>1 DEF VetoProposal, Proposal, ProposalStatus, VetoInv
  <2> HIDE DEF r
  <2> QED BY <1>1, <2>1, ExceptSeq
<1>3. /\ veto' = [veto EXCEPT ![i] = [at |-> clock, bar |-> Bar(veto[i])]]
      /\ noes' = [noes EXCEPT ![i] = [count |-> noes[i].count + 1, at |-> clock]] /\ clock' = clock
  BY DEF VetoProposal, RecordVeto
<1> HIDE DEF i
<1>4. n \in Nat /\ clock \in Nat /\ noes[i] \in [count : Nat, at : Nat] /\ veto[i] \in [at : Nat, bar : Nat] \cup {Never}
  BY <1>1 DEF VetoInv
<1>5. Bar(veto[i]) \in Nat /\ 2 * Bar(veto[i]) >= Twice(n + 1)
  <2>1. CASE n = 0
    BY <1>1, <2>1, FirstNo DEF VetoInv, Bar
  <2>2. CASE n > 0
    <3>1. veto[i] # Never /\ veto[i].bar \in Nat /\ 2 * veto[i].bar >= Twice(n)
      BY <1>1, <1>4, <2>2 DEF VetoInv
    <3> HIDE DEF n
    <3> QED BY <1>4, <2>2, <3>1, BarGrows, FirstNo DEF Bar
  <2> QED BY <1>4, <2>1, <2>2
<1>6. [at |-> clock, bar |-> Bar(veto[i])] \in [at : Nat, bar : Nat] /\ [count |-> n + 1, at |-> clock] \in [count : Nat, at : Nat]
  BY <1>4, <1>5
<1>7. /\ veto' \in [Intent -> [at : Nat, bar : Nat] \cup {Never}] /\ noes' \in [Intent -> [count : Nat, at : Nat]]
      /\ veto'[i] = [at |-> clock, bar |-> Bar(veto[i])] /\ noes'[i] = [count |-> n + 1, at |-> clock]
      /\ \A j \in Intent \ {i} : veto'[j] = veto[j] /\ noes'[j] = noes[j]
  BY <1>1, <1>3, <1>6 DEF VetoInv
<1>8. veto'[i] # Never
  BY <1>6, <1>7, ProposalsAssumption
<1>9. ASSUME NEW j \in Intent
      PROVE  /\ noes'[j].count = 0 => veto'[j] = Never
             /\ noes'[j].count > 0 =>
                  veto'[j] # Never /\ veto'[j].at = noes'[j].at /\ 2 * veto'[j].bar >= Twice(noes'[j].count)
  <2>1. CASE j = i
    BY <1>4, <1>5, <1>7, <1>8, <2>1
  <2>2. CASE j # i
    BY <1>7, <2>2 DEF VetoInv
  <2> QED BY <2>1, <2>2
<1> HIDE DEF n
<1> QED BY <1>2, <1>3, <1>4, <1>7, <1>9 DEF VetoInv

LEMMA VetoStep == VetoInv /\ [PoolNext]_poolVars => VetoInv'
<1> SUFFICES ASSUME VetoInv, [PoolNext]_poolVars PROVE VetoInv'
  OBVIOUS
<1>1. proposals \in Seq(Proposal) /\ \A p \in DOMAIN proposals : proposals[p] \in Proposal /\ p \in 1..Len(proposals)
  <2>1. proposals \in Seq(Proposal)
    BY DEF VetoInv
  <2> QED BY <2>1, LenProperties, ElementOfSeq
<1>2. ASSUME proposals' \in Seq(Proposal), clock' \in Nat, UNCHANGED <<veto, noes>> PROVE VetoInv'
  BY <1>2 DEF VetoInv
<1>3. ASSUME NEW i \in Intent, NEW confidence \in Confidence, NEW dial \in Dial, NEW answer \in Governed,
             ProposeIntent(i, confidence, dial, answer)
      PROVE  VetoInv'
  <2> DEFINE new == [intent |-> i, decision |-> answer, status |-> "proposed", consumed |-> FALSE]
  <2>1. new \in Proposal /\ proposals' = Append(proposals, new) /\ clock' \in Nat /\ UNCHANGED <<veto, noes>>
    BY <1>3 DEF ProposeIntent, Proposal, ProposalStatus, VetoInv
  <2> HIDE DEF new
  <2>2. proposals' \in Seq(Proposal)
    BY <1>1, <2>1, AppendProperties
  <2> QED BY <1>2, <2>1, <2>2
<1>4. ASSUME NEW p \in DOMAIN proposals, VetoProposal(p) PROVE VetoInv'
  BY <1>4, VetoingKeeps
<1>5. ASSUME NEW p \in DOMAIN proposals, NEW granted \in BOOLEAN, NEW late \in BOOLEAN, ApproveProposal(p, granted, late)
      PROVE  VetoInv'
  <2> DEFINE r == [proposals[p] EXCEPT !.consumed = @ \/ Runnable(p),
                                       !.status = IF Runnable(p) /\ late THEN @ ELSE "approved"]
  <2>1. r \in Proposal /\ proposals' = [proposals EXCEPT ![p] = r] /\ clock' \in Nat /\ UNCHANGED <<veto, noes>>
    BY <1>1, <1>5 DEF ApproveProposal, Runnable, Proposal, ProposalStatus, VetoInv
  <2> HIDE DEF r
  <2>2. proposals' \in Seq(Proposal)
    BY <1>1, <2>1, ExceptSeq
  <2> QED BY <1>2, <2>1, <2>2
<1>6. CASE Prune \/ UNCHANGED poolVars
  BY <1>1, <1>2, <1>6 DEF Prune, poolVars, VetoInv
<1>7. ASSUME NEW t \in 0..MaxClock, SetClock(t) PROVE VetoInv'
  <2>1. t \in Nat
    OBVIOUS
  <2> QED BY <1>1, <1>2, <1>7, <2>1 DEF SetClock
<1> QED BY <1>3, <1>4, <1>5, <1>6, <1>7 DEF PoolNext

\* A margin that clears a bar when it is doubled k times is none below zero.
LEMMA Margin ==
  ASSUME NEW m \in Int, NEW k \in Nat, k > 0, NEW bar \in Nat, m * k >= bar
  PROVE  m >= 0 /\ (2 * m) * k >= 2 * bar
  OBVIOUS

LEMMA SurfacingIsHeard ==
  ASSUME VetoInv, NEW i \in Intent, NEW confidence \in Confidence, NEW dial \in Dial, NEW answer \in Governed,
         ProposeIntent(i, confidence, dial, answer)
  PROVE  LET no    == noes[surfaced'.intent]
             half  == BarDelta * (no.count + 1)
             twice == IF half > 2 * One THEN 2 * One ELSE half
             age   == Age(no)
         IN  /\ surfaced'.dial # "off" /\ surfaced'.intent \notin Emission /\ surfaced'.margin >= 0
             /\ no.count > 0 /\ twice >= 2 * Epsilon * 2^age => 2 * surfaced'.margin * 2^age >= twice
<1> DEFINE m == confidence - Threshold(dial)
           a == Age(noes[i])
           t == Twice(noes[i].count)
<1>1. /\ surfaced'.intent = i /\ surfaced'.dial = dial /\ surfaced'.margin = m
      /\ dial # "off" /\ i \notin Emission /\ Clears(i, confidence, dial)
  BY DEF ProposeIntent, Candidate
<1>2. m \in Int /\ confidence \in Int /\ Threshold(dial) \in Int
  BY ProposalsAssumption DEF Threshold
<1>3. /\ noes[i] \in [count : Nat, at : Nat] /\ veto[i] \in [at : Nat, bar : Nat] \cup {Never} /\ clock \in Nat
      /\ noes[i].count = 0 \/ noes[i].count > 0
  BY DEF VetoInv
<1>4. CASE veto[i] = Never \/ Forgotten(veto[i])
  <2>1. m >= 0
    BY <1>1, <1>2, <1>4 DEF Clears
  <2>2. CASE noes[i].count = 0
    BY <1>1, <2>1, <2>2
  <2>3. CASE noes[i].count > 0
    <3>1. veto[i] # Never /\ veto[i].at = noes[i].at /\ 2 * veto[i].bar >= t /\ veto[i].bar \in Nat
      BY <1>3, <2>3 DEF VetoInv
    <3>2. a \in Nat /\ Age(veto[i]) = a
      BY <1>3, <3>1 DEF Age
    <3>3. veto[i].bar < Epsilon * 2^a
      BY <1>4, <3>1, <3>2 DEF Forgotten
    <3>4. 2^a \in Nat /\ Epsilon \in Nat /\ t \in Nat
      BY <1>3, <3>2, PowerOfTwo, ProposalsAssumption DEF Twice
    <3>5. ~(t >= 2 * Epsilon * 2^a)
      <4> DEFINE k == 2^a
      <4>1. k \in Nat /\ veto[i].bar < Epsilon * k
        BY <3>3, <3>4
      <4> HIDE DEF k, t
      <4>2. ~(t >= 2 * Epsilon * k)
        BY <3>1, <3>4, <4>1
      <4> QED BY <4>2 DEF k
    <3> QED BY <1>1, <2>1, <3>5 DEF Twice
  <2> QED BY <1>3, <2>2, <2>3
<1>5. CASE veto[i] # Never /\ ~Forgotten(veto[i])
  <2>1. Age(veto[i]) \in Nat /\ veto[i].bar \in Nat
    BY <1>3, <1>5 DEF Age
  <2>2. m * 2^Age(veto[i]) >= veto[i].bar
    BY <1>1, <1>5 DEF Clears
  <2>3. m >= 0 /\ (2 * m) * 2^Age(veto[i]) >= 2 * veto[i].bar
    BY <1>2, <2>1, <2>2, PowerOfTwo, Margin
  <2>4. noes[i].count > 0
    BY <1>3, <1>5 DEF VetoInv
  <2>5. veto[i].at = noes[i].at /\ 2 * veto[i].bar >= t
    BY <2>4 DEF VetoInv
  <2>6. Age(veto[i]) = a
    BY <2>5 DEF Age
  <2>7. 2 * m * 2^a >= t
    <3>1. t \in Nat /\ 2^a \in Nat
      BY <1>3, <2>1, <2>6, PowerOfTwo, ProposalsAssumption DEF Twice
    <3> DEFINE x == (2 * m) * 2^a
    <3>2. x \in Int /\ x >= 2 * veto[i].bar
      BY <1>2, <2>3, <2>6, <3>1
    <3> HIDE DEF x, t
    <3>3. x >= t
      BY <2>1, <2>5, <3>1, <3>2
    <3> QED BY <3>3 DEF x
  <2> QED BY <1>1, <2>3, <2>7 DEF Twice
<1> QED BY <1>4, <1>5

(* What the human vetoed n times surfaces again only at a confidence that      *)
(* beats the dial by the n vetoes' bar, halved for every half-life since the   *)
(* latest no, until it is forgotten: whatever the clock does, and for any      *)
(* weight of a veto (propose, VetoLedger.surfacing_bar_delta).                 *)
THEOREM ANoIsHeard == PoolSpec => NoIsHeard
<1>1. VetoInv /\ [PoolNext]_poolVars =>
        [Len(proposals') > Len(proposals) =>
           LET no    == noes[surfaced'.intent]
               half  == BarDelta * (no.count + 1)
               twice == IF half > 2 * One THEN 2 * One ELSE half
               age   == Age(no)
           IN  /\ surfaced'.dial # "off" /\ surfaced'.intent \notin Emission /\ surfaced'.margin >= 0
               /\ no.count > 0 /\ twice >= 2 * Epsilon * 2^age => 2 * surfaced'.margin * 2^age >= twice]_poolVars
  <2> SUFFICES ASSUME VetoInv, PoolNext, Len(proposals') > Len(proposals)
               PROVE  \E i \in Intent, confidence \in Confidence, dial \in Dial, answer \in Governed :
                        ProposeIntent(i, confidence, dial, answer)
    BY SurfacingIsHeard
  <2>1. proposals \in Seq(Proposal) /\ Len(proposals) \in Nat
    BY LenProperties DEF VetoInv
  <2>2. ASSUME NEW p \in DOMAIN proposals, NEW r, proposals' = [proposals EXCEPT ![p] = r] PROVE FALSE
    <3>1. DOMAIN proposals = 1..Len(proposals) /\ DOMAIN proposals' = DOMAIN proposals
      BY <2>1, <2>2, LenProperties
    <3>2. Len(proposals') = Len(proposals)
      BY <2>1, <2>2, <3>1
    <3> QED BY <2>1, <3>2
  <2>3. ASSUME NEW p \in DOMAIN proposals PROVE ~VetoProposal(p) /\ \A granted, late \in BOOLEAN : ~ApproveProposal(p, granted, late)
    <3>1. ~VetoProposal(p)
      <4> DEFINE r == [proposals[p] EXCEPT !.status = "vetoed", !.consumed = TRUE]
      <4>1. VetoProposal(p) => proposals' = [proposals EXCEPT ![p] = r]
        BY DEF VetoProposal
      <4> HIDE DEF r
      <4> QED BY <2>2, <4>1
    <3>2. ASSUME NEW granted \in BOOLEAN, NEW late \in BOOLEAN PROVE ~ApproveProposal(p, granted, late)
      <4> DEFINE r == [proposals[p] EXCEPT !.consumed = @ \/ Runnable(p),
                                           !.status = IF Runnable(p) /\ late THEN @ ELSE "approved"]
      <4>1. ApproveProposal(p, granted, late) => proposals' = [proposals EXCEPT ![p] = r]
        BY DEF ApproveProposal
      <4> HIDE DEF r
      <4> QED BY <2>2, <4>1
    <3> QED BY <3>1, <3>2
  <2>4. ~Prune /\ \A t \in 0..MaxClock : ~SetClock(t)
    BY <2>1 DEF Prune, SetClock
  <2> QED BY <2>3, <2>4 DEF PoolNext
<1> QED BY <1>1, VetoStarts, VetoStep, PTL DEF PoolSpec, NoIsHeard

=============================================================================
