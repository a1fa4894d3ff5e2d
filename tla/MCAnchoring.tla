----------------------------- MODULE MCAnchoring -----------------------------
(* Who anchors: an owner who edits his records, next to one account that     *)
(* posts his first envelope before he does or after; or, where there is no   *)
(* owner, anyone, with payloads and calls of every sort.  One run checks     *)
(* both on the same index.                                                   *)
EXTENDS MCAnchorWriter, MCAnchorIndex

\* What is posted by anyone, and by the owner.
BothPayloads == MCPayloads \cup AnyPayloads

\* In place of a running `post': none runs, and none will.
NoOwner == [step |-> "none"]

\* Without an owner nothing is left to edit, reset or crash.
NobodyOwns ==
  /\ Init
  /\ keystore = "s1"
  /\ records = <<"a", "b">>
  /\ writer = NoOwner
  /\ mempool = <<>>
  /\ sent = 0
  /\ archive = NoFile
  /\ disclosure = NoFile
  /\ failures = MaxFailures
  /\ changes = MaxChanges

AnyoneElsePosts ==
  /\ writer = NoOwner
  /\ \E p \in AnyPayloads \ ForeignPayloads : AnyonePosts(p)
  /\ UNCHANGED <<indexVars, ownerVars, writer, netVars>>

AnchoringInit == WriterInit \/ NobodyOwns

AnchoringNext == WriterNext \/ AnyoneElsePosts

AnchoringSpec == AnchoringInit /\ [][AnchoringNext]_allVars

\* Bound: next to an owner, what others post is a transaction that succeeded.
OthersSucceed ==
  writer # NoOwner => \A i \in DOMAIN calls : calls[i].nonce = 0 => calls[i].kind = "top"
=============================================================================
