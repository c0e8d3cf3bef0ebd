----------------------------- MODULE Recognisers -----------------------------
(***************************************************************************)
(* One file, many spellings: how a path in a write or in a command is      *)
(* brought to a form that can be compared (collaborator/provenance.py and  *)
(* is_controlled_location in collaborator/tools.py).  Operators only.      *)
(* Provenance takes files for keys and shows exactly those a command       *)
(* names; this module says how far that is so.                             *)
(*                                                                         *)
(* A spelling is the components of the text, with "." and ".." in it, and  *)
(* whether it starts at the root; both separators are one, as they are     *)
(* after the first step of either function.  A command is its tokens.      *)
(***************************************************************************)
EXTENDS Naturals, Sequences
LOCAL INSTANCE SequencesExt

CONSTANTS
  Root,        \* the workspace's own path, a sequence of names
  Controlled,  \* the directory a proposer may not write in
  FoldCase,    \* a function on names: what _fs_normcase makes of one
  Flag,        \* names that start with a dash
  Spellings,   \* of those a text may hold, the ones looked at
  Links        \* maps of directories that are links to where they lead

ASSUME RecognisersAssumption ==
  Root \in Seq(DOMAIN FoldCase) /\ Controlled \in DOMAIN FoldCase /\ Flag \subseteq DOMAIN FoldCase

NoPath == <<>>

-----------------------------------------------------------------------------
(* The text alone *)

\* posixpath.normpath: a leading ".." stays in a path that is not absolute
NormPath(p) ==
  LET Step(done, n) ==
        CASE n = "." -> done
          [] n = ".." /\ (done = <<>> \/ Last(done) = "..") -> IF p.abs THEN done ELSE Append(done, "..")
          [] n = ".." /\ done # <<>> /\ Last(done) # ".." -> Front(done)
          [] OTHER -> Append(done, n)
  IN  FoldLeft(Step, <<>>, p.parts)

\* the key of a file: what leads out has none, and the root of an absolute path
\* is only stripped
NormRel(p) ==
  LET path == NormPath(p) IN IF path # <<>> /\ path[1] = ".." THEN NoPath ELSE path

IsFlag(token) == ~token.abs /\ token.parts # NoPath /\ token.parts[1] \in Flag

\* what a token of a command may mean: itself, and its part below the workspace
RelCandidates(token) ==
  LET path  == NormPath(token)
      below == IF token.abs /\ IsPrefix(Root, path) THEN SubSeq(path, Len(Root) + 1, Len(path)) ELSE NoPath
  IN  IF IsFlag(token) THEN {} ELSE {NormRel(token), below} \ {NoPath}

ReferencesAutonomousFile(command, authored) == (UNION {RelCandidates(command[i]) : i \in DOMAIN command}) \cap authored

-----------------------------------------------------------------------------
(* The file system: links maps a path to where it leads *)

\* Path.resolve
Resolve(links, p) ==
  LET Step(at, n) ==
        CASE n = "." -> at
          [] n = ".." -> IF at = <<>> THEN at ELSE Front(at)
          [] OTHER -> IF Append(at, n) \in DOMAIN links THEN links[Append(at, n)] ELSE Append(at, n)
  IN  FoldLeft(Step, IF p.abs THEN <<>> ELSE Root, p.parts)

\* where a tool may go: below the workspace, or nowhere
ResolveInWorkspace(links, p) ==
  LET target == Resolve(links, p) IN
  IF p.parts # <<>> /\ IsPrefix(Root, target) THEN SubSeq(target, Len(Root) + 1, Len(target)) ELSE NoPath

InTree(path) == path # NoPath /\ FoldCase[path[1]] = FoldCase[Controlled]

IsControlledLocation(links, p) == InTree(ResolveInWorkspace(links, p))

-----------------------------------------------------------------------------

NoLinks == <<>>
Same(p, q) == Resolve(NoLinks, p) = Resolve(NoLinks, q)

\* a write whose text, from the workspace on, never leads out of it
Tracked(p) == ~p.abs /\ NormRel(p) # NoPath

NamedIsShown ==
  \A p, q \in Spellings :
    LET shown == ReferencesAutonomousFile(<<q>>, {NormRel(p)}) # {} IN
    Tracked(p) =>
      /\ Same(p, q) /\ ~IsFlag(q) /\ (q.abs \/ NormRel(q) # NoPath) => shown
      /\ shown /\ ~q.abs => Same(p, q)

ControlledIsTold ==
  \A links \in Links, p \in Spellings :
    LET target == Resolve(links, p) IN
    IsControlledLocation(links, p) <=>
      \E name \in DOMAIN FoldCase :
        p.parts # NoPath /\ IsPrefix(Append(Root, name), target) /\ FoldCase[name] = FoldCase[Controlled]

\* However a write spelled its file, and however a command then names it, the
\* preview shows it, unless the command takes the way over the workspace's
\* parent; a relative name of another file is never taken for it.  And whatever
\* the spelling, the links and the case, a path that ends in the controlled tree
\* of a file system that ignores case is told from others (norm_rel,
\* references_autonomous_file, is_controlled_location).
SpellingsAgree == NamedIsShown /\ ControlledIsTold

\* Every write that lands in the workspace has the key by which a relative name
\* finds it.
EveryWriteIsKeyed ==
  \A p \in Spellings :
    ResolveInWorkspace(NoLinks, p) # NoPath => NormRel(p) = ResolveInWorkspace(NoLinks, p)
=============================================================================
