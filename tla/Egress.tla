-------------------------------- MODULE Egress --------------------------------
(***************************************************************************)
(* The mediated client (collaborator/egress.py) and the independent        *)
(* observer of where it went (collaborator/egressobserver.py), as          *)
(* operators; module Tools has the steps in which an executor uses them.   *)
(*                                                                         *)
(* Abstracted: a URL is its canonical host, or None where there is none,   *)
(* and whether its target may go on a request line; a body is whether it   *)
(* may be sent; hashes, lengths and previews are left out.  Everything     *)
(* goes to port 443, so a destination is an address.                       *)
(***************************************************************************)
EXTENDS Naturals, Sequences

CONSTANTS
  Host,      \* canonical hosts
  Address,   \* addresses a resolver may answer
  Public,    \* those that are global unicast
  None

ASSUME EgressAssumption == Public \subseteq Address /\ None \notin Host \cup Address

-----------------------------------------------------------------------------
(* Which destination, under which capability *)

Kind == {"GET", "HEAD", "POST", "MAINT", "PUT"}

\* canonical_host is None unless https, no user, port 443 and a plain name
Url == [host : Host \cup {None}, clean : BOOLEAN]

Namespace(kind) ==
  CASE kind \in {"GET", "HEAD"} -> "net.get"
    [] kind = "POST"            -> "net.post"
    [] kind = "MAINT"           -> "net.maint"
    [] OTHER                    -> None

\* None is denied at the gate
RequiredCapability(url, kind) ==
  IF url.host = None \/ Namespace(kind) = None THEN None ELSE <<Namespace(kind), url.host>>

-----------------------------------------------------------------------------
(* A request: what is refused before any packet, and where it connects *)

IsSafePublicIp(a) == a \in Public

\* the first safe answer; the connection never resolves again
Pinned(answers) ==
  LET safe == SelectSeq(answers, IsSafePublicIp) IN IF safe = <<>> THEN None ELSE Head(safe)

\* long or dirty targets, bodies that cannot be encoded or are over the cap,
\* and dirty header values: all before the host is resolved
Sendable(url, payload) == url.host # None /\ url.clean /\ payload

\* the EgressRecord, as far as what follows looks at it
Record(ok, address) == [ok |-> ok, ip |-> address]
Refused == Record(FALSE, None)

Status == {"2xx", "3xx", "other"}

\* fetch and post; fetch_to_file decides only when the stream ends
Answered(status, address) == Record(status = "2xx", address)

Claimed(record) == {record.ip} \ {None}

-----------------------------------------------------------------------------
(* The observer *)

Tier == {"nft", "proc", "none"}

Snapshot(tier, dests) == [tier |-> tier, dests |-> dests]

\* a positive probe is remembered; one without any vantage is tried again
Cached(tier, found) == IF found = "none" THEN None ELSE found

Probe(nftWorks, procReads) ==
  IF nftWorks THEN "nft" ELSE IF procReads THEN "proc" ELSE "none"

\* the kernel's rule: every outbound packet of the uid, not only a first one
Recorded(table, a) == IF table # None THEN table \cup {a} ELSE table

\* install: delete, whatever comes of it, then create; creating what is still
\* there keeps its elements
Installed(table, deleted) == IF table # None /\ ~deleted THEN table ELSE {}

Before(tier, installed, sockets, procReads) ==
  CASE tier = "nft"  -> Snapshot(IF installed THEN "nft" ELSE "none", {})
    [] tier = "proc" -> Snapshot("proc", IF procReads THEN sockets ELSE {})
    [] tier = "none" -> Snapshot("none", {})

Reconcile(before, after, claimed) ==
  LET observed   == after.dests \ before.dests
      unexpected == observed \ claimed
      unseen     == IF after.tier = "nft" THEN claimed \ observed ELSE {}
  IN  [tier |-> after.tier,
       reconciled |-> IF after.tier = "none" THEN "unchecked"
                      ELSE IF unexpected \cup unseen # {} THEN "no"
                      ELSE IF after.tier = "nft" THEN "yes" ELSE "unchecked"]

\* a failed read is no empty observation
AfterNft_Empty(table, reads) == IF reads /\ table # None THEN table ELSE {}
AfterNft(table, reads) == IF reads THEN table ELSE None

Observation(before, table, tableReads, sockets, procReads, claimed) ==
  CASE before.tier = "nft"  ->
         IF AfterNft(table, tableReads) = None THEN [tier |-> "nft", reconciled |-> "unchecked"]
         ELSE Reconcile(before, Snapshot("nft", AfterNft(table, tableReads)), claimed)
    [] before.tier = "proc" -> Reconcile(before, Snapshot("proc", IF procReads THEN sockets ELSE {}), claimed)
    [] before.tier = "none" -> Reconcile(before, before, claimed)
=============================================================================
