----------------------------- MODULE Quarantine -----------------------------
(***************************************************************************)
(* What a submission is, what the publish path compares it against, and    *)
(* the rules that send it to a human (internal/release/quarantine.go).     *)
(*                                                                         *)
(* The data is abstracted to what a rule can tell apart: an artifact URL   *)
(* to its host, an artifact to the digest of its bytes (whose length is    *)
(* Size), and compareVersions to the table Order, which module Versions    *)
(* computes from the real algorithm.                                       *)
(***************************************************************************)
EXTENDS Integers

CONSTANTS
  Versions,  \* version strings, as submitted
  Hosts,     \* hosts artifacts are served from
  Digests,   \* what hashing an artifact's bytes can give
  Order,     \* Order[current, candidate]: compareVersions(current, candidate)
  Size,      \* Size[d]: the length of the bytes whose digest is d
  None       \* SQL's NULL, and an answer that has not been given

Orders == {"unknown", "lower", "equal", "higher"}

ASSUME OrderAssumption == Order \in [Versions \X Versions -> Orders]
ASSUME SizeAssumption  == Size \in [Digests -> Nat]
ASSUME NoneAssumption  == /\ None \notin Versions
                          /\ None \notin Hosts
                          /\ None \notin Digests

Reasons ==
  {"NotVerified", "HashMismatch", "FirstRelease", "HostChanged",
   "SizeDelta", "VersionNotHigher", "VersionUncomparable"}

(***************************************************************************)
(* The live release a submission is compared against.  The `exists` of the *)
(* code's struct is version # None here; an imported release has no bytes. *)
(***************************************************************************)
Previous == [version : Versions \cup {None},
             host    : Hosts \cup {None},
             bytes   : Nat \cup {None}]

NoPrevious == [version |-> None, host |-> None, bytes |-> None]

(***************************************************************************)
(* The size moved by more than half of what it was.  An unknown size on    *)
(* either side does not fire the rule, and neither does a length of zero.  *)
(***************************************************************************)
SizeChangedSharply(bytes, sha) ==
  /\ bytes # None
  /\ bytes # 0
  /\ sha # None
  /\ LET delta == IF Size[sha] > bytes THEN Size[sha] - bytes
                                       ELSE bytes - Size[sha]
     IN  delta * 2 > bytes

(***************************************************************************)
(* Every rule that fires for submission sub, against prev, when the fetch  *)
(* gave digest sha (None: nothing was fetched).  Against nothing live only *)
(* the rules about the artifact are evaluated, and FirstRelease fires.     *)
(***************************************************************************)
EvaluateQuarantine(prev, sub, sha) ==
  { r \in Reasons :
      \/ r = "NotVerified"  /\ sha = None
      \/ r = "HashMismatch" /\ sha # None /\ sha # sub.sha
      \/ r = "FirstRelease" /\ prev.version = None
      \/ /\ prev.version # None
         /\ \/ r = "HostChanged" /\ sub.host # prev.host
            \/ r = "SizeDelta"   /\ SizeChangedSharply(prev.bytes, sha)
            \/ /\ r = "VersionNotHigher"
               /\ Order[prev.version, sub.version] \in {"lower", "equal"}
            \/ /\ r = "VersionUncomparable"
               /\ Order[prev.version, sub.version] = "unknown" }
=============================================================================
