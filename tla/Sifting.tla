-------------------------------- MODULE Sifting --------------------------------
(***************************************************************************)
(* A sequence without some of its members, as Python's list comprehensions *)
(* build it.  It is SelectSeq, by a recursive function that can be         *)
(* reasoned about.                                                         *)
(***************************************************************************)
EXTENDS Naturals, Sequences

\* the members of s that are in S, in their order
Kept(s, S) ==
  LET upTo[i \in 0..Len(s)] ==
        IF i = 0 THEN <<>>
        ELSE IF s[i] \in S THEN Append(upTo[i - 1], s[i]) ELSE upTo[i - 1]
  IN  upTo[Len(s)]
=============================================================================
