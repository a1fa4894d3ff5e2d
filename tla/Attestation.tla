---------------------------- MODULE Attestation ----------------------------
(***************************************************************************)
(* What an attestation binds, and how it is checked (attestation.rs).      *)
(*                                                                         *)
(* An attestation is a signature, under a domain, over the digests of the  *)
(* request and of the response and the deployment.  Digests are taken      *)
(* collision-free, so a digest is what it is of.  Recovering the signer    *)
(* under another domain, or of other digests than were signed, yields the  *)
(* address of a key nobody holds, one per signature and payload.           *)
(***************************************************************************)
CONSTANT NoAddress

Attest(domain, key, deployment, request, response) ==
  [requestCID |-> request, responseCID |-> response, deployment |-> deployment,
   signature |-> [key |-> key, over |-> <<domain, request, response, deployment>>]]

\* Bytes that are no signature recover nothing.
Malformed(att) == [att EXCEPT !.signature.key = NoAddress]

Address(key) == <<key>>

RecoverAllocation(domain, att) ==
  LET payload == <<domain, att.requestCID, att.responseCID, att.deployment>>
  IN IF att.signature.key = NoAddress THEN <<>>
     ELSE IF att.signature.over = payload THEN Address(att.signature.key)
     ELSE <<att.signature, payload>>

(***************************************************************************)
(* The four checks that need no network.  All are made, whichever fails.   *)
(***************************************************************************)
OfflineChecks(bundle, domain) ==
  [responseCID |-> bundle.attestation.responseCID = bundle.response,
   requestCID |-> bundle.attestation.requestCID = bundle.request,
   subgraphDeploymentID |-> bundle.attestation.deployment = bundle.deployment,
   eip712Recovery |-> RecoverAllocation(domain, bundle.attestation) # <<>>]

\* Mutant: the request is not compared.
VerifiesAnyRequest(bundle, domain) ==
  LET checks == OfflineChecks(bundle, domain)
  IN checks.responseCID /\ checks.subgraphDeploymentID /\ checks.eip712Recovery

Verifies(bundle, domain) ==
  LET checks == OfflineChecks(bundle, domain)
  IN \A step \in DOMAIN checks : checks[step]

\* Mutant: an allocation is resolved without looking at the stake.
BackedUnstaked(row, deployment) == row.deployment = deployment

\* An allocation the network subgraph knows is evidence if it is on this
\* deployment and has stake behind it.  Its status is reported, not judged.
Backed(row, deployment) == row.deployment = deployment /\ row.staked
=============================================================================
