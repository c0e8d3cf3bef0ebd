------------------------------- MODULE ToolCall -------------------------------
(***************************************************************************)
(* The parser of collaborator/toolcall.py: which tool calls one assistant  *)
(* message makes, and which it only tries to make.  Module TurnLoop uses   *)
(* it on what the model answers.                                           *)
(*                                                                         *)
(* A message carries structured calls and a content.  Its text is          *)
(* abstracted to the attempts in it, each with the form it is in:          *)
(*   "call"     names a tool and gives it an object of arguments           *)
(*   "broken"   tool-shaped JSON that is no call                           *)
(*   "plain"    other JSON                                                 *)
(*   "clipped"  JSON that never closes                                     *)
(* and to the way the content holds them: as the whole content ("object",  *)
(* "batch"; behind a fence that closes or none), behind a fence that was   *)
(* cut off ("cut_fence"), or amid "prose".  Amid prose an attempt stands   *)
(* behind a marker, unless its form says otherwise:                        *)
(*   "bare"     a marker that no JSON follows, or not near enough          *)
(*   "aside"    tool-shaped JSON with text before it, and no marker        *)
(*   "opening"  tool-shaped JSON that begins the content and is not all of *)
(*              it                                                         *)
(***************************************************************************)
EXTENDS Naturals, Sequences, SequencesExt, Sifting

Json == {"call", "broken", "plain", "clipped"}
Form == Json \cup {"bare", "aside", "opening"}
Kind == {"none", "prose", "object", "batch", "cut_fence"}

\* an object is one attempt, silence holds none, the forms beside Json are of
\* prose, and a content begins but once
ContentType ==
  {c \in [kind : Kind, forms : Seq(Form)] :
     /\ c.kind = "none" => c.forms = <<>>
     /\ c.kind = "object" => Len(c.forms) = 1
     /\ c.kind # "prose" => c.forms \in Seq(Json)
     /\ \A i \in DOMAIN c.forms : c.forms[i] = "opening" => i = 1}

MessageType == [structured : Seq(Json), content : ContentType, finish : {"stop", "length"}]

\* an attempt is where it stands
Attempts(where, forms) == {<<where, i>> : i \in DOMAIN forms}

Prose(content) == content.kind = "prose"
Whole(content) == content.kind \in {"object", "batch"}

FormOf(msg, a) == (IF a[1] = "structured" THEN msg.structured ELSE msg.content.forms)[a[2]]

\* those that are meant to call a tool
Tried(msg) ==
  {a \in Attempts("structured", msg.structured) \cup Attempts("content", msg.content.forms) :
     FormOf(msg, a) # "plain"}

-----------------------------------------------------------------------------
(* _coerce_call: a call, or nothing *)

Calls(where, forms) ==
  Kept([i \in DOMAIN forms |-> <<where, i>>], {a \in Attempts(where, forms) : forms[a[2]] = "call"})

Uncalled(where, forms) == {a \in Attempts(where, forms) : forms[a[2]] # "call"}

\* what an entry of the result is: attempts that run, in order, and attempts shown
Parsed(intents, ambiguous) == [intents |-> intents, ambiguous |-> ambiguous]

Structured(msg) == Parsed(Calls("structured", msg.structured), Uncalled("structured", msg.structured))

\* a marker that no JSON follows is passed by, and nothing looks for an aside;
\* a call whose JSON never closes is shown
Hits(content) == {a \in Attempts("content", content.forms) : content.forms[a[2]] \in Json}

Marked_Closed(content) ==
  IF ~Prose(content) THEN Parsed(<<>>, {})
  ELSE Parsed(Calls("content", content.forms),
              {a \in Uncalled("content", content.forms) \cap Hits(content) : content.forms[a[2]] # "clipped"})
Marked(content) ==
  IF ~Prose(content) THEN Parsed(<<>>, {})
  ELSE Parsed(Calls("content", content.forms), Uncalled("content", content.forms) \cap Hits(content))

Opening(content) == {a \in Attempts("content", content.forms) : content.forms[a[2]] = "opening"}

\* all of it or nothing: a batch with a malformed element, or one that was cut
\* off, is shown as a whole, and so is prose that begins like a call
WholeContent(content) ==
  LET all == Attempts("content", content.forms)
  IN  IF ~Whole(content) THEN Parsed(<<>>, Opening(content))
      ELSE IF \A a \in all : content.forms[a[2]] = "plain" THEN Parsed(<<>>, {})
      ELSE IF \A a \in all : content.forms[a[2]] = "call" THEN Parsed(Calls("content", content.forms), {})
      ELSE Parsed(<<>>, all)

\* the whole content is looked at only when nothing else was a call
ParseMessage(msg) ==
  LET s == Structured(msg)
      m == Marked(msg.content)
      w == IF s.intents \o m.intents = <<>> THEN WholeContent(msg.content) ELSE Parsed(<<>>, {})
  IN  Parsed(s.intents \o m.intents \o w.intents, s.ambiguous \cup m.ambiguous \cup w.ambiguous)
=============================================================================
