------------------------------ MODULE MCTurnLoop ------------------------------
(* Instances of TurnLoop for TLC. *)
EXTENDS TurnLoop

\* the ways a content may hold one attempt or two, beside structured calls;
\* what never closes comes last
Contents ==
  {[kind |-> "none", forms |-> <<>>]}
  \cup [kind : {"prose"},
        forms : {<<>>, <<"clipped">>, <<"call", "clipped">>, <<"broken", "call">>,
                 <<"bare">>, <<"bare", "call">>, <<"aside">>, <<"aside", "call">>,
                 <<"opening">>, <<"opening", "call">>}]
  \cup [kind : {"object"}, forms : {<<"call">>, <<"broken">>, <<"plain">>, <<"clipped">>}]
  \cup [kind : {"batch"}, forms : {<<"call", "call">>, <<"call", "broken">>, <<"call", "clipped">>}]
  \cup [kind : {"cut_fence"}, forms : {<<"clipped">>, <<"call">>}]

Messages ==
  [structured : {<<>>, <<"call">>, <<"broken", "call">>},
   content : Contents, finish : {"stop", "length"}]
=============================================================================
