------------------------- MODULE Consistency_proofs -------------------------
(***************************************************************************)
(* Theorems about Consistency: for any number of indexers, allocations and *)
(* answers, every threshold, every meddling of the gateway.                *)
(***************************************************************************)
EXTENDS Consistency, TLAPS, FiniteSetTheorems

NetworkOK ==
  /\ setup \in SetupType
  /\ stake \in [Indexers -> {"staked", "withdrawn", "none"}]
  /\ headOf \in [Indexers -> 1 .. MaxBlock]

\* The command's own bookkeeping.
ProgressOK ==
  /\ pc \in {"pin", "enumerate", "targeted", "main", "report", "done", "failed"}
  /\ pc \in {"enumerate", "targeted", "main", "report", "done"} => pin \in 1 .. (MaxBlock + 1)
  /\ candidates \subseteq Indexers
  /\ attempts \in 0 .. MaxAttempts
  /\ targetedWorked \in BOOLEAN
  /\ targetedWorked => attempts = 0
  /\ pc \in {"pin", "enumerate", "targeted"} => attempts = 0
  /\ pc = "main" => ~targetedWorked
  /\ pc \in {"pin", "enumerate"} => collected = {} /\ inFlight = <<>>

\* What an indexer that does not lie serves at the pin.
Truth(i) ==
  [data |-> pin, format |-> IF setup.behaviour[i] = "respaced" THEN "spaced" ELSE "compact"]

\* Key k signed the answer `body' to q, and the truth if it is honest and q is
\* the query.  The gateway may have made the signature unreadable.
SignedBy(k, q, body, signature) ==
  /\ signature.over = <<TrueDomain, CanonicalRequestString(q), body, Deployment>>
  /\ \/ signature = [key |-> k, over |-> signature.over]
     \/ signature.key = NoAddress
  /\ q = AuditQuery(pin) /\ setup.behaviour[OperatorOf[k]] # "lying" => body = Truth(OperatorOf[k])

\* A bundle for the pinned query: someone signed something.
Genuine(b) ==
  /\ {"request", "deployment", "attestation"} \subseteq DOMAIN b
  /\ b.request = CanonicalRequestString(AuditQuery(pin))
  /\ b.deployment = Deployment
  /\ \E k \in Keys : \E q, body : SignedBy(k, q, body, b.attestation.signature)

\* An allocation that was resolved belongs to a key with stake behind it.
ResolvedTo(allocation, resolved) ==
  \E k \in Keys :
    /\ allocation = Address(k) /\ resolved = <<OperatorOf[k]>>
    /\ DeploymentOf[k] = Deployment /\ stake[OperatorOf[k]] # "none"

CollectedOK(c) ==
  /\ Genuine(c.bundle)
  /\ Verifies(c.bundle, setup.domain)
  /\ c.allocation = RecoverAllocation(setup.domain, c.bundle.attestation)
  /\ c.resolved = <<>> \/ ResolvedTo(c.allocation, c.resolved)

EvidenceOK ==
  /\ inFlight = <<>> \/ \E b : inFlight = <<b>> /\ Genuine(b)
  /\ \A c \in collected : CollectedOK(c)

Kept == IF BuildReport(collected, targetedWorked).agreement # "byte-identical"
        THEN {c.bundle : c \in collected} ELSE {}

VerdictOK(v) ==
  /\ v.bundle \in BundleFiles
  /\ \E domain \in Domains :
       /\ v.allocation = RecoverAllocation(domain, v.bundle.attestation)
       /\ v.pass => Verifies(v.bundle, domain) /\ (v.resolving => Resolve(v.allocation) # <<>>)

OutcomeOK ==
  /\ IF pc = "done"
     THEN report = <<BuildReport(collected, targetedWorked)>> /\ saved = Kept /\ collected # {}
     ELSE report = <<>> /\ saved = {} /\ verdict = <<>>
  /\ verdict = <<>> \/ \E v : verdict = <<v>> /\ VerdictOK(v)
  /\ pc = "failed" /\ collected # {} => inFlight # <<>> /\ ~Verifies(inFlight[1], setup.domain)

CommandInv == NetworkOK /\ ProgressOK /\ EvidenceOK /\ OutcomeOK

-----------------------------------------------------------------------------
(* What the gateway may pass on. *)

LEMMA Numbers == {MinSigners, MaxAttempts, FIRST, MaxBlock, MaxMoves} \subseteq Nat
BY ConsistencyAssumption

LEMMA KeyHolders == \A k \in Keys : OperatorOf[k] \in Indexers
BY ConsistencyAssumption

LEMMA BodyServed ==
  ASSUME NetworkOK, NEW k \in Keys, NEW q, NEW body \in Bodies(k, q)
  PROVE  /\ setup.behaviour[OperatorOf[k]] # "lying" => body = TrueBody(OperatorOf[k], q)
         /\ body \in {TrueBody(OperatorOf[k], q), Forged}
BY DEF Bodies

LEMMA AttestationParts ==
  ASSUME NEW k, NEW request, NEW body
  PROVE  LET att == Attest(TrueDomain, k, Deployment, request, body)
         IN /\ att.responseCID = body
            /\ att.signature = [key |-> k, over |-> <<TrueDomain, request, body, Deployment>>]
            /\ Malformed(att).responseCID = body
            /\ Malformed(att).signature = [key |-> NoAddress, over |-> <<TrueDomain, request, body, Deployment>>]
            /\ [att EXCEPT !.responseCID = Forged].signature = att.signature
BY DEF Attest, Malformed

\* A bundle for `query' with a signature k made over `body' as answer to q, or
\* the ruins of one.
SignedAs(b, query, k, q, body) ==
  /\ {"request", "deployment", "attestation"} \subseteq DOMAIN b
  /\ b.request = CanonicalRequestString(query) /\ b.deployment = Deployment
  /\ b.response \in {body, Forged}
  /\ b.attestation.signature.over = <<TrueDomain, CanonicalRequestString(q), body, Deployment>>
  /\ \/ b.attestation.signature = [key |-> k, over |-> b.attestation.signature.over]
     \/ b.attestation.signature.key = NoAddress

\* Whatever comes back carries a signature one of the indexers made, or ruins
\* of it, over the query or over the one for the block.
LEMMA ResultShape ==
  ASSUME NetworkOK, NEW query, NEW answerers \in SUBSET Indexers, NEW routed,
         NEW result \in Results(query, answerers, routed), result # <<>>
  PROVE  \E b : \E k \in Keys, q \in {query, MetaQuery} : \E body \in Bodies(k, q) :
           result = <<b>> /\ SignedAs(b, query, k, q, body)
<1>1. PICK reply \in Replies(query, answerers) : result = FetchResult(query, reply, Deployment, routed)
  BY DEF Results
<1>2. reply.ok /\ reply.attestation # <<>> /\ result = <<Bundle(query, reply, Deployment, routed)>>
  BY <1>1 DEF FetchResult
<1>3. PICK k \in Keys, q \in {query, MetaQuery} : \E att \in Signs(k, q) : reply \in OnTheWire(att)
  BY <1>1, <1>2 DEF Replies, NotFound
<1> PICK att \in Signs(k, q) : reply \in OnTheWire(att)  BY <1>3
<1>4. PICK body \in Bodies(k, q) :
        att = Attest(TrueDomain, k, Deployment, CanonicalRequest(ClientPostBody(q)), body)
  BY DEF Signs
<1>5. CanonicalRequest(ClientPostBody(q)) = CanonicalRequestString(q)
  BY DEF CanonicalRequest, ClientPostBody, CanonicalRequestString
<1> DEFINE over == <<TrueDomain, CanonicalRequestString(q), body, Deployment>>
<1>6. /\ att.responseCID = body /\ att.signature = [key |-> k, over |-> over]
      /\ Malformed(att).signature = [key |-> NoAddress, over |-> over]
      /\ [att EXCEPT !.responseCID = Forged].signature = att.signature
  BY <1>4, <1>5, AttestationParts
<1>7. /\ reply.body[1] \in {body, Forged}
      /\ \/ reply.attestation[1].signature = [key |-> k, over |-> over]
         \/ reply.attestation[1].signature = [key |-> NoAddress, over |-> over]
  <2> HIDE DEF over
  <2>1. \/ reply = Attested(att, att.responseCID)
        \/ reply = Attested(att, Forged)
        \/ reply = Attested([att EXCEPT !.responseCID = Forged], Forged)
        \/ reply = Attested(Malformed(att), att.responseCID)
        \/ reply = Unattested(att.responseCID)
    BY DEF OnTheWire
  <2>2. CASE reply = Attested(att, att.responseCID)  BY <1>6, <2>2 DEF Attested
  <2>3. CASE reply = Attested(att, Forged)  BY <1>6, <2>3 DEF Attested
  <2>4. CASE reply = Attested([att EXCEPT !.responseCID = Forged], Forged)  BY <1>6, <2>4 DEF Attested
  <2>5. CASE reply = Attested(Malformed(att), att.responseCID)  BY <1>6, <2>5 DEF Attested
  <2>6. CASE reply = Unattested(att.responseCID)  BY <1>2, <2>6 DEF Unattested
  <2>7. QED  BY <2>1, <2>2, <2>3, <2>4, <2>5, <2>6
<1> DEFINE b == Bundle(query, reply, Deployment, routed)
<1>8. /\ {"request", "deployment", "attestation"} \subseteq DOMAIN b
      /\ b.request = CanonicalRequestString(query) /\ b.deployment = Deployment
      /\ b.response = reply.body[1] /\ b.attestation = reply.attestation[1]
  BY DEF Bundle
<1>9. b.attestation.signature.over = over
  <2> HIDE DEF over, b
  <2>1. QED  BY <1>7, <1>8
<1>10. \/ b.attestation.signature = [key |-> k, over |-> b.attestation.signature.over]
       \/ b.attestation.signature.key = NoAddress
  <2> HIDE DEF over, b
  <2>1. QED  BY <1>7, <1>8, <1>9
<1>11. result = <<b>>  BY <1>2
<1> HIDE DEF b
<1>12. SignedAs(b, query, k, q, body)  BY <1>7, <1>8, <1>9, <1>10 DEF SignedAs
<1>13. QED  BY <1>11, <1>12

LEMMA ResultGenuine ==
  ASSUME NetworkOK, pin \in 1 .. (MaxBlock + 1), NEW answerers \in SUBSET Indexers, NEW routed,
         NEW result \in Results(AuditQuery(pin), answerers, routed)
  PROVE  result = <<>> \/ \E b : result = <<b>> /\ Genuine(b)
<1> SUFFICES ASSUME result # <<>>
             PROVE  \E b : result = <<b>> /\ Genuine(b)
  OBVIOUS
<1>1. PICK b : \E k \in Keys, q \in {AuditQuery(pin), MetaQuery} : \E body \in Bodies(k, q) :
        result = <<b>> /\ SignedAs(b, AuditQuery(pin), k, q, body)
  BY ResultShape
<1> PICK k \in Keys, q \in {AuditQuery(pin), MetaQuery} : \E body \in Bodies(k, q) :
      result = <<b>> /\ SignedAs(b, AuditQuery(pin), k, q, body)
  BY <1>1
<1> PICK body \in Bodies(k, q) : result = <<b>> /\ SignedAs(b, AuditQuery(pin), k, q, body)
  OBVIOUS
<1>2. q = AuditQuery(pin) => q.block = pin /\ pin # 0
  BY ConsistencyAssumption DEF AuditQuery
<1>3. q = AuditQuery(pin) => TrueBody(OperatorOf[k], q) = Truth(OperatorOf[k])
  BY <1>2 DEF TrueBody, Truth
<1>4. SignedBy(k, q, body, b.attestation.signature)  BY <1>3, BodyServed DEF SignedBy, SignedAs
<1>5. QED  BY <1>4 DEF Genuine, SignedAs

-----------------------------------------------------------------------------
(* What a verified answer shows. *)

LEMMA ChecksPassed ==
  ASSUME NEW b, NEW domain, Verifies(b, domain)
  PROVE  /\ b.attestation.responseCID = b.response /\ b.attestation.requestCID = b.request
         /\ b.attestation.deployment = b.deployment
         /\ RecoverAllocation(domain, b.attestation) # <<>>
<1> DEFINE checks == OfflineChecks(b, domain)
<1>1. \A step \in DOMAIN checks : checks[step]  BY DEF Verifies
<1>2. DOMAIN checks = {"responseCID", "requestCID", "subgraphDeploymentID", "eip712Recovery"}
  BY DEF OfflineChecks
<1>3. /\ checks.responseCID = (b.attestation.responseCID = b.response)
      /\ checks.requestCID = (b.attestation.requestCID = b.request)
      /\ checks.subgraphDeploymentID = (b.attestation.deployment = b.deployment)
      /\ checks.eip712Recovery = (RecoverAllocation(domain, b.attestation) # <<>>)
  BY DEF OfflineChecks
<1> HIDE DEF checks
<1>4. checks.responseCID /\ checks.requestCID /\ checks.subgraphDeploymentID /\ checks.eip712Recovery
  BY <1>1, <1>2
<1>5. QED  BY <1>3, <1>4

\* The address of a key is only recovered from its own signature over the
\* payload.
LEMMA AddressRecovered ==
  ASSUME NEW domain, NEW att, NEW k, RecoverAllocation(domain, att) = Address(k)
  PROVE  /\ att.signature.key = k /\ att.signature.key # NoAddress
         /\ att.signature.over = <<domain, att.requestCID, att.responseCID, att.deployment>>
<1> DEFINE payload == <<domain, att.requestCID, att.responseCID, att.deployment>>
<1>1. CASE att.signature.key = NoAddress
  <2>1. <<k>> = <<>>  BY <1>1 DEF RecoverAllocation, Address
  <2>2. QED  BY <2>1
<1>2. CASE att.signature.key # NoAddress /\ att.signature.over = payload
  <2>1. <<att.signature.key>> = <<k>>  BY <1>2 DEF RecoverAllocation, Address
  <2>2. QED  BY <1>2, <2>1
<1>3. CASE att.signature.key # NoAddress /\ att.signature.over # payload
  <2> HIDE DEF payload
  <2>1. <<att.signature, payload>> = <<k>>  BY <1>3 DEF RecoverAllocation, Address, payload
  <2>2. Len(<<att.signature, payload>>) = 2 /\ Len(<<k>>) = 1  OBVIOUS
  <2>3. QED  BY <2>1, <2>2
<1>4. QED  BY <1>1, <1>2, <1>3

LEMMA VerifiedStands ==
  ASSUME NEW b, Genuine(b), NEW domain, Verifies(b, domain),
         NEW k \in Keys, RecoverAllocation(domain, b.attestation) = Address(k)
  PROVE  /\ b.attestation.signature =
              [key |-> k, over |-> <<TrueDomain, CanonicalRequestString(AuditQuery(pin)), b.response, Deployment>>]
         /\ setup.behaviour[OperatorOf[k]] # "lying" => b.response = Truth(OperatorOf[k])
<1>1. /\ b.attestation.responseCID = b.response /\ b.attestation.requestCID = b.request
      /\ b.attestation.deployment = b.deployment
  BY ChecksPassed
<1>2. /\ b.attestation.signature.key = k /\ b.attestation.signature.key # NoAddress
      /\ b.attestation.signature.over = <<domain, b.request, b.response, Deployment>>
  BY <1>1, AddressRecovered DEF Genuine
<1>3. PICK j \in Keys : \E q, body : SignedBy(j, q, body, b.attestation.signature)  BY DEF Genuine
<1> PICK q, body : SignedBy(j, q, body, b.attestation.signature)  BY <1>3
<1>4. b.attestation.signature = [key |-> j, over |-> b.attestation.signature.over] /\ j = k
  BY <1>2, <1>3 DEF SignedBy
<1>5. <<domain, b.request, b.response, Deployment>> =
        <<TrueDomain, CanonicalRequestString(q), body, Deployment>>
  BY <1>2, <1>3 DEF SignedBy
<1>6. domain = TrueDomain /\ b.request = CanonicalRequestString(q) /\ b.response = body
  BY <1>5
<1>7. q = AuditQuery(pin)
  <2>1. CanonicalRequestString(q) = CanonicalRequestString(AuditQuery(pin))  BY <1>6 DEF Genuine
  <2>2. CanonicalRequestString(q).query = q
        /\ CanonicalRequestString(AuditQuery(pin)).query = AuditQuery(pin)
    BY DEF CanonicalRequestString
  <2>3. QED  BY <2>1, <2>2
<1>8. QED  BY <1>2, <1>3, <1>4, <1>6, <1>7 DEF SignedBy, Genuine

LEMMA ResolveFinds ==
  ASSUME NEW allocation, Resolve(allocation) # <<>>
  PROVE  ResolvedTo(allocation, Resolve(allocation))
<1>1. /\ allocation \in {Address(k) : k \in Keys}
      /\ Backed(Row(allocation[1]), Deployment)
      /\ Resolve(allocation) = <<OperatorOf[allocation[1]]>>
  BY DEF Resolve
<1>2. PICK k \in Keys : allocation = Address(k)  BY <1>1
<1>3. allocation[1] = k  BY <1>2 DEF Address
<1>4. DeploymentOf[k] = Deployment /\ stake[OperatorOf[k]] = "staked"
  BY <1>1, <1>3 DEF Backed, Row
<1>5. QED  BY <1>1, <1>2, <1>3, <1>4 DEF ResolvedTo

-----------------------------------------------------------------------------
(* The steps. *)

\* Nothing that was established about bundles is lost while the pin stays and
\* stake is only withdrawn.
LEMMA EvidenceStays ==
  ASSUME UNCHANGED <<setup, pin>>,
         \A i \in Indexers : stake[i] # "none" => stake'[i] # "none"
  PROVE  /\ \A b : Genuine(b) => Genuine(b)'
         /\ \A c : CollectedOK(c) => CollectedOK(c)'
<1>1. \A b : Genuine(b) => Genuine(b)'
  BY DEF Genuine, SignedBy, Truth
<1>2. \A allocation, resolved : ResolvedTo(allocation, resolved) => ResolvedTo(allocation, resolved)'
  BY ConsistencyAssumption DEF ResolvedTo
<1>3. QED  BY <1>1, <1>2 DEF CollectedOK

LEMMA InitHolds ==
  ASSUME Init
  PROVE  CommandInv
<1>1. setup \in SetupType  BY ConsistencyAssumption DEF Init
<1>2. NetworkOK  BY <1>1 DEF Init, NetworkOK, SetupType
<1>3. ProgressOK
  <2>1. /\ pc = "pin" /\ candidates = {} /\ targetedWorked = FALSE /\ attempts = 0
        /\ collected = {} /\ inFlight = <<>>
    BY DEF Init
  <2>2. 0 \in 0 .. MaxAttempts  BY Numbers
  <2>3. QED  BY <2>1, <2>2 DEF ProgressOK
<1>4. EvidenceOK /\ OutcomeOK  BY DEF Init, EvidenceOK, OutcomeOK
<1>5. QED  BY <1>2, <1>3, <1>4 DEF CommandInv

LEMMA PinKeeps ==
  ASSUME CommandInv, Pin
  PROVE  CommandInv'
<1>1. PICK result \in Results(MetaQuery, HandleMain(Indexers), NoAddress) :
        IF result = <<>> THEN pc' = "failed" /\ UNCHANGED pin
        ELSE pc' = "enumerate" /\ pin' = result[1].response.data
  BY DEF Pin
<1>2. pc = "pin" /\ collected = {} /\ inFlight = <<>>  BY DEF Pin, CommandInv, ProgressOK
<1>3. UNCHANGED <<setup, network, inFlight, candidates, targetedWorked, attempts, collected,
                  report, saved, verdict>>
  BY DEF Pin
<1>4. result # <<>> => pin' \in 1 .. (MaxBlock + 1)
  <2> SUFFICES ASSUME result # <<>>  PROVE result[1].response.data \in 1 .. (MaxBlock + 1)
    BY <1>1
  <2>0. NetworkOK /\ result \in Results(MetaQuery, Indexers, NoAddress)
    BY DEF CommandInv, HandleMain
  <2> PICK b : \E k \in Keys, q \in {MetaQuery, MetaQuery} : \E body \in Bodies(k, q) :
        result = <<b>> /\ SignedAs(b, MetaQuery, k, q, body)
    BY <2>0, ResultShape
  <2> PICK k \in Keys : \E body \in Bodies(k, MetaQuery) :
        result = <<b>> /\ SignedAs(b, MetaQuery, k, MetaQuery, body)
    OBVIOUS
  <2>1. PICK body \in Bodies(k, MetaQuery) : result = <<b>> /\ SignedAs(b, MetaQuery, k, MetaQuery, body)
    OBVIOUS
  <2>2. headOf[OperatorOf[k]] \in 1 .. MaxBlock  BY KeyHolders DEF CommandInv, NetworkOK
  <2>3. TrueBody(OperatorOf[k], MetaQuery).data = headOf[OperatorOf[k]] /\ Forged.data = MaxBlock + 1
    BY DEF TrueBody, MetaQuery, Forged
  <2>4. b.response.data \in 1 .. (MaxBlock + 1)
    BY <2>1, <2>2, <2>3, BodyServed, Numbers DEF CommandInv, SignedAs
  <2>5. QED  BY <2>1, <2>4
<1>5. NetworkOK'  BY <1>3 DEF CommandInv, NetworkOK, network
<1>6. ProgressOK'  BY <1>1, <1>2, <1>3, <1>4 DEF CommandInv, ProgressOK
<1>7. EvidenceOK'  BY <1>2, <1>3 DEF EvidenceOK
<1>8. OutcomeOK'  BY <1>1, <1>2, <1>3 DEF CommandInv, OutcomeOK
<1>9. QED  BY <1>5, <1>6, <1>7, <1>8 DEF CommandInv

LEMMA EnumerateKeeps ==
  ASSUME CommandInv, FetchActiveIndexers
  PROVE  CommandInv'
<1>1. /\ pc = "enumerate" /\ collected = {} /\ inFlight = <<>> /\ pc' \in {"failed", "targeted"}
      /\ UNCHANGED <<setup, network, inFlight, pin, targetedWorked, attempts, collected,
                     report, saved, verdict>>
  BY DEF FetchActiveIndexers, CommandInv, ProgressOK
<1>2. candidates' \subseteq Indexers
  BY ConsistencyAssumption DEF FetchActiveIndexers, ActiveAllocations, CommandInv, ProgressOK
<1>3. NetworkOK'  BY <1>1 DEF CommandInv, NetworkOK, network
<1>4. ProgressOK'  BY <1>1, <1>2 DEF CommandInv, ProgressOK
<1>5. EvidenceOK'  BY <1>1 DEF EvidenceOK
<1>6. OutcomeOK'  BY <1>1 DEF CommandInv, OutcomeOK
<1>7. QED  BY <1>3, <1>4, <1>5, <1>6 DEF CommandInv

LEMMA AskKeeps ==
  ASSUME CommandInv, AskIndexer \/ Sample
  PROVE  CommandInv'
<1>1. /\ pc \in {"targeted", "main"} /\ inFlight = <<>>
      /\ UNCHANGED <<setup, network, pc, pin, collected, report, saved, verdict>>
  BY DEF AskIndexer, Sample
<1>2. PICK answerers, routed : answerers \subseteq Indexers /\
        inFlight' \in Results(AuditQuery(pin), answerers, routed)
  <2>1. CASE AskIndexer  BY <2>1 DEF AskIndexer, TargetedAnswerers, HandleTargeted
  <2>2. CASE Sample  BY <2>2 DEF Sample, HandleMain
  <2>3. QED  BY <2>1, <2>2
<1>3. NetworkOK /\ pin \in 1 .. (MaxBlock + 1)  BY <1>1 DEF CommandInv, ProgressOK
<1>4. inFlight' = <<>> \/ \E b : inFlight' = <<b>> /\ Genuine(b)  BY <1>2, <1>3, ResultGenuine
<1>5. /\ \A b : Genuine(b) => Genuine(b)'
      /\ \A c : CollectedOK(c) => CollectedOK(c)'
  BY <1>1, EvidenceStays DEF network
<1>6. EvidenceOK'  BY <1>1, <1>4, <1>5 DEF CommandInv, EvidenceOK
<1>7. NetworkOK'  BY <1>1 DEF CommandInv, NetworkOK, network
<1>8. ProgressOK'
  <2>1. CASE AskIndexer
    <3>1. /\ pc = "targeted" /\ candidates' \subseteq candidates /\ targetedWorked' \in BOOLEAN
          /\ attempts' = attempts
      BY <2>1 DEF AskIndexer, CommandInv, ProgressOK
    <3>2. QED  BY <1>1, <3>1 DEF CommandInv, ProgressOK
  <2>2. CASE Sample
    <3>1. /\ pc = "main" /\ attempts < MaxAttempts /\ attempts' = attempts + 1
          /\ UNCHANGED <<candidates, targetedWorked>>
      BY <2>2 DEF Sample
    <3>2. attempts' \in 0 .. MaxAttempts  BY <3>1, ConsistencyAssumption DEF CommandInv, ProgressOK
    <3>3. QED  BY <1>1, <3>1, <3>2 DEF CommandInv, ProgressOK
  <2>3. QED  BY <2>1, <2>2
<1>9. OutcomeOK'  BY <1>1 DEF CommandInv, OutcomeOK
<1>10. QED  BY <1>6, <1>7, <1>8, <1>9 DEF CommandInv

LEMMA CollectKeeps ==
  ASSUME CommandInv, Collect
  PROVE  CommandInv'
<1>1. /\ pc \in {"targeted", "main"} /\ inFlight # <<>>
      /\ UNCHANGED <<setup, network, pin, candidates, targetedWorked, attempts, report, saved, verdict>>
  BY DEF Collect
<1>2. PICK b : inFlight = <<b>> /\ Genuine(b)  BY <1>1 DEF CommandInv, EvidenceOK
<1>3. /\ \A x : Genuine(x) => Genuine(x)'
      /\ \A c : CollectedOK(c) => CollectedOK(c)'
  BY <1>1, EvidenceStays DEF network
<1>4. NetworkOK'  BY <1>1 DEF CommandInv, NetworkOK, network
<1> DEFINE allocation == RecoverAllocation(setup.domain, b.attestation)
<1>5. CASE Verifies(b, setup.domain)
  <2>1. PICK resolved \in {Resolve(allocation), <<>>} :
          collected' = collected \cup {[bundle |-> b, allocation |-> allocation, resolved |-> resolved]}
    BY <1>2, <1>5 DEF Collect
  <2>2. inFlight' = <<>> /\ pc' = pc  BY <1>2, <1>5 DEF Collect
  <2> DEFINE c == [bundle |-> b, allocation |-> allocation, resolved |-> resolved]
  <2>3. c.resolved = <<>> \/ ResolvedTo(c.allocation, c.resolved)
    BY <2>1, ResolveFinds
  <2>4. CollectedOK(c)
    <3>1. c.bundle = b /\ c.allocation = RecoverAllocation(setup.domain, b.attestation)  OBVIOUS
    <3> HIDE DEF c
    <3>2. QED  BY <1>2, <1>5, <2>3, <3>1 DEF CollectedOK
  <2>5. collected' = collected \cup {c}  BY <2>1
  <2> HIDE DEF c
  <2>6. EvidenceOK'  BY <1>3, <2>2, <2>4, <2>5 DEF CommandInv, EvidenceOK
  <2>7. ProgressOK'  BY <1>1, <2>2 DEF CommandInv, ProgressOK
  <2>8. OutcomeOK'  BY <1>1, <2>2 DEF CommandInv, OutcomeOK
  <2>9. QED  BY <1>4, <2>6, <2>7, <2>8 DEF CommandInv
<1>6. CASE ~Verifies(b, setup.domain)
  <2>1. pc' = "failed" /\ inFlight' = inFlight /\ collected' = collected  BY <1>2, <1>6 DEF Collect
  <2>2. EvidenceOK'  BY <1>2, <1>3, <2>1 DEF CommandInv, EvidenceOK
  <2>3. ProgressOK'  BY <1>1, <2>1 DEF CommandInv, ProgressOK
  <2>4. inFlight'[1] = b /\ setup' = setup  BY <1>1, <1>2, <2>1
  <2>5. ~Verifies(inFlight'[1], setup'.domain)  BY <1>6, <2>4
  <2>6. OutcomeOK'  BY <1>1, <2>1, <2>5 DEF CommandInv, OutcomeOK
  <2>7. QED  BY <1>4, <2>2, <2>3, <2>6 DEF CommandInv
<1>7. QED  BY <1>5, <1>6

\* Leaving a route.
LEMMA RouteEndsKeeps ==
  ASSUME CommandInv, FallBack \/ StopSampling
  PROVE  CommandInv'
<1>1. /\ pc \in {"targeted", "main"} /\ UNCHANGED <<setup, network, inFlight, command>>
      /\ pc' \in {"main", "report"} /\ (pc' = "main" => ~targetedWorked)
  BY DEF FallBack, StopSampling
<1>2. NetworkOK'  BY <1>1 DEF CommandInv, NetworkOK, network
<1>3. ProgressOK'  BY <1>1 DEF CommandInv, ProgressOK, command
<1>4. EvidenceOK'  BY <1>1, EvidenceStays DEF CommandInv, EvidenceOK, command, network
<1>5. OutcomeOK'  BY <1>1 DEF CommandInv, OutcomeOK, command
<1>6. QED  BY <1>2, <1>3, <1>4, <1>5 DEF CommandInv

LEMMA WriteReportKeeps ==
  ASSUME CommandInv, WriteReport
  PROVE  CommandInv'
<1>1. /\ pc = "report"
      /\ UNCHANGED <<setup, network, inFlight, pin, candidates, targetedWorked, attempts, collected, verdict>>
  BY DEF WriteReport
<1>2. NetworkOK'  BY <1>1 DEF CommandInv, NetworkOK, network
<1>3. EvidenceOK'  BY <1>1, EvidenceStays DEF CommandInv, EvidenceOK, network
<1>4. CASE collected = {}
  <2>1. pc' = "failed" /\ UNCHANGED <<report, saved>>  BY <1>4 DEF WriteReport
  <2>2. ProgressOK'  BY <1>1, <2>1 DEF CommandInv, ProgressOK
  <2>3. OutcomeOK'  BY <1>1, <1>4, <2>1 DEF CommandInv, OutcomeOK
  <2>4. QED  BY <1>2, <1>3, <2>2, <2>3 DEF CommandInv
<1>5. CASE collected # {}
  <2>1. /\ pc' = "done" /\ report' = <<BuildReport(collected, targetedWorked)>>
        /\ saved' = Kept
    BY <1>5 DEF WriteReport, Kept
  <2>2. ProgressOK'  BY <1>1, <2>1 DEF CommandInv, ProgressOK
  <2>3. Kept' = Kept /\ BuildReport(collected, targetedWorked)' = BuildReport(collected, targetedWorked)
    BY <1>1 DEF Kept, BuildReport, DistinctIndexers, Classify, Signer
  <2>4. verdict' = <<>>  BY <1>1 DEF CommandInv, OutcomeOK
  <2>5. OutcomeOK'  BY <1>1, <1>5, <2>1, <2>3, <2>4 DEF OutcomeOK
  <2>6. QED  BY <1>2, <1>3, <2>2, <2>5 DEF CommandInv
<1>6. QED  BY <1>4, <1>5

LEMMA VerifyAttestationKeeps ==
  ASSUME CommandInv, VerifyAttestation
  PROVE  CommandInv'
<1>1. /\ pc = "done"
      /\ UNCHANGED <<setup, network, pc, inFlight, pin, candidates, targetedWorked, attempts,
                     collected, report, saved>>
  BY DEF VerifyAttestation
<1>2. NetworkOK'  BY <1>1 DEF CommandInv, NetworkOK, network
<1>3. ProgressOK'  BY <1>1 DEF CommandInv, ProgressOK
<1>4. EvidenceOK'  BY <1>1, EvidenceStays DEF CommandInv, EvidenceOK, network
<1>5. PICK bundle \in BundleFiles, domain \in Domains, resolving \in BOOLEAN :
        LET allocation == RecoverAllocation(domain, bundle.attestation)
        IN verdict' = <<[bundle |-> bundle, resolving |-> resolving, allocation |-> allocation,
                         pass |-> Verifies(bundle, domain)
                                    /\ (resolving => Resolve(allocation) # <<>>)]>>
  BY DEF VerifyAttestation
<1>6. PICK v : /\ verdict' = <<v>>
               /\ v.bundle = bundle /\ v.resolving = resolving
               /\ v.allocation = RecoverAllocation(domain, bundle.attestation)
               /\ v.pass = (Verifies(bundle, domain) /\ (resolving => Resolve(v.allocation) # <<>>))
  BY <1>5
<1>8. VerdictOK(v)  BY <1>6 DEF VerdictOK
<1>9. VerdictOK(v)'
  BY <1>1, <1>8 DEF VerdictOK, BundleFiles, Resolve, Row, network, Forged
<1>10. Kept' = Kept /\ BuildReport(collected, targetedWorked)' = BuildReport(collected, targetedWorked)
  BY <1>1 DEF Kept, BuildReport, DistinctIndexers, Classify, Signer
<1>11. OutcomeOK'  BY <1>1, <1>6, <1>9, <1>10 DEF CommandInv, OutcomeOK
<1>12. QED  BY <1>2, <1>3, <1>4, <1>11 DEF CommandInv

LEMMA NetworkMovesKeeps ==
  ASSUME CommandInv, NetworkMoves
  PROVE  CommandInv'
<1>1. pc \notin {"done", "failed"} /\ UNCHANGED <<setup, pc, inFlight, command>>  BY DEF NetworkMoves
<1>2. /\ NetworkOK'
      /\ \A i \in Indexers : stake[i] # "none" => stake'[i] # "none"
  <2>1. CASE CloseAllocation  BY <1>1, <2>1 DEF CloseAllocation, CommandInv, NetworkOK
  <2>2. CASE WithdrawStake  BY <1>1, <2>2 DEF WithdrawStake, CommandInv, NetworkOK
  <2>3. CASE Advance
    <3>1. PICK i \in Indexers : headOf[i] < MaxBlock /\ headOf' = [headOf EXCEPT ![i] = @ + 1]
      BY <2>3 DEF Advance
    <3>2. headOf[i] + 1 \in 1 .. MaxBlock  BY <3>1, ConsistencyAssumption DEF CommandInv, NetworkOK
    <3>3. QED  BY <1>1, <2>3, <3>1, <3>2 DEF Advance, CommandInv, NetworkOK
  <2>4. QED  BY <2>1, <2>2, <2>3 DEF NetworkMoves
<1>3. ProgressOK'  BY <1>1 DEF CommandInv, ProgressOK, command
<1>4. EvidenceOK'  BY <1>1, <1>2, EvidenceStays DEF CommandInv, EvidenceOK, command
<1>5. OutcomeOK'  BY <1>1 DEF CommandInv, OutcomeOK, command
<1>6. QED  BY <1>2, <1>3, <1>4, <1>5 DEF CommandInv

LEMMA StutterKeeps ==
  ASSUME CommandInv, UNCHANGED vars
  PROVE  CommandInv'
<1>1. NetworkOK' /\ ProgressOK'
  BY DEF CommandInv, NetworkOK, ProgressOK, vars, network, command
<1>2. EvidenceOK'  BY EvidenceStays DEF CommandInv, EvidenceOK, vars, network, command
<1>3. Kept' = Kept /\ BuildReport(collected, targetedWorked)' = BuildReport(collected, targetedWorked)
  BY DEF Kept, BuildReport, DistinctIndexers, Classify, Signer, vars, command
<1>4. \A v : VerdictOK(v) => VerdictOK(v)'
  BY DEF VerdictOK, BundleFiles, Resolve, Row, Forged, vars, network, command
<1>5. OutcomeOK'  BY <1>3, <1>4 DEF CommandInv, OutcomeOK, vars, command
<1>6. QED  BY <1>1, <1>2, <1>5 DEF CommandInv

LEMMA CommandInvariant == Spec => []CommandInv
<1>1. Init => CommandInv  BY InitHolds
<1>2. CommandInv /\ [Next]_vars => CommandInv'
  BY PinKeeps, EnumerateKeeps, AskKeeps, CollectKeeps, RouteEndsKeeps, WriteReportKeeps,
     VerifyAttestationKeeps, NetworkMovesKeeps, StutterKeeps DEF Next, Command
<1>3. QED  BY <1>1, <1>2, PTL DEF Spec
-----------------------------------------------------------------------------
(***************************************************************************)
(* Types: the command's bookkeeping agrees with where it is (main.rs:510   *)
(* to 650), and only collected bundles are saved.                          *)
(***************************************************************************)
THEOREM TypeCorrect == Spec => []ConsistencyTypeOK
<1>1. CommandInv => ConsistencyTypeOK
  <2> SUFFICES ASSUME CommandInv  PROVE ConsistencyTypeOK
    OBVIOUS
  <2>1. Len(inFlight) \in 0 .. 1
    <3>1. inFlight = <<>> \/ \E b : inFlight = <<b>>  BY DEF CommandInv, EvidenceOK
    <3>2. QED  BY <3>1
  <2>2. Len(verdict) \in 0 .. 1
    <3>1. verdict = <<>> \/ \E v : verdict = <<v>>  BY DEF CommandInv, OutcomeOK
    <3>2. QED  BY <3>1
  <2>3. Reported <=> pc = "done"
    <3>1. <<BuildReport(collected, targetedWorked)>> # <<>>  OBVIOUS
    <3>2. QED  BY <3>1 DEF Reported, CommandInv, OutcomeOK
  <2>4. ASSUME NEW c \in collected, Resolved(c)  PROVE c.resolved[1] \in Indexers
    BY <2>4, KeyHolders DEF CommandInv, EvidenceOK, CollectedOK, ResolvedTo, Resolved
  <2>5. saved \subseteq {c.bundle : c \in collected}  BY DEF CommandInv, OutcomeOK, Kept
  <2>6. QED  BY <2>1, <2>2, <2>3, <2>4, <2>5 DEF CommandInv, ProgressOK, ConsistencyTypeOK
<1>2. QED  BY <1>1, CommandInvariant, PTL

LEMMA ReportIs ==
  ASSUME CommandInv, Reported
  PROVE  /\ pc = "done" /\ saved = Kept
         /\ report[1].agreement = Classify(collected)
         /\ report[1].pass = (/\ Cardinality(DistinctIndexers(collected)) >= MinSigners
                              /\ Classify(collected) = "byte-identical"
                              /\ \A c \in collected : c.resolved # <<>>)
<1>1. pc = "done" /\ saved = Kept /\ report = <<BuildReport(collected, targetedWorked)>>
  BY DEF Reported, CommandInv, OutcomeOK
<1>2. report[1] = BuildReport(collected, targetedWorked)  BY <1>1
<1>3. QED  BY <1>1, <1>2 DEF BuildReport

LEMMA ResolvedStands ==
  ASSUME CommandInv, NEW c \in collected, Resolved(c)
  PROVE  \E k \in Keys :
           /\ c.resolved = <<OperatorOf[k]>> /\ StandsBy(k, c.bundle.response, c.bundle)
           /\ setup.behaviour[OperatorOf[k]] # "lying" => c.bundle.response = Truth(OperatorOf[k])
<1>1. CollectedOK(c)  BY DEF CommandInv, EvidenceOK
<1>2. PICK k \in Keys :
        /\ c.allocation = Address(k) /\ c.resolved = <<OperatorOf[k]>>
        /\ DeploymentOf[k] = Deployment /\ stake[OperatorOf[k]] # "none"
  BY <1>1 DEF CollectedOK, ResolvedTo, Resolved
<1>3. RecoverAllocation(setup.domain, c.bundle.attestation) = Address(k)  BY <1>1, <1>2 DEF CollectedOK
<1>4. Genuine(c.bundle) /\ Verifies(c.bundle, setup.domain)  BY <1>1 DEF CollectedOK
<1>5. /\ c.bundle.attestation.signature =
           [key |-> k, over |-> <<TrueDomain, CanonicalRequestString(AuditQuery(pin)),
                                  c.bundle.response, Deployment>>]
      /\ setup.behaviour[OperatorOf[k]] # "lying" => c.bundle.response = Truth(OperatorOf[k])
  BY <1>3, <1>4, VerifiedStands
<1>6. QED  BY <1>2, <1>5 DEF StandsBy

\* As many indexers as distinct signers, if every signer is one.
LEMMA SignersAreIndexers ==
  ASSUME CommandInv, \A c \in collected : Resolved(c)
  PROVE  LET W == {c.resolved[1] : c \in collected}
         IN /\ W \subseteq Indexers /\ IsFiniteSet(W)
            /\ Cardinality(W) = Cardinality(DistinctIndexers(collected))
            /\ Cardinality(W) \in Nat
<1> DEFINE W == {c.resolved[1] : c \in collected}
           S == DistinctIndexers(collected)
           f == [i \in W |-> <<i>>]
<1>1. \A c \in collected : c.resolved = <<c.resolved[1]>> /\ c.resolved[1] \in Indexers
  <2> SUFFICES ASSUME NEW c \in collected
               PROVE  c.resolved = <<c.resolved[1]>> /\ c.resolved[1] \in Indexers
    OBVIOUS
  <2>1. PICK k \in Keys : c.resolved = <<OperatorOf[k]>>  BY ResolvedStands
  <2>2. QED  BY <2>1, KeyHolders
<1>2. W \subseteq Indexers /\ IsFiniteSet(W)
  <2>1. W \subseteq Indexers  BY <1>1
  <2>2. IsFiniteSet(Indexers)  BY ConsistencyAssumption
  <2>3. QED  BY <2>1, <2>2, FS_Subset
<1>3. S = {<<i>> : i \in W}
  <2>1. \A c \in collected : Signer(c) = <<c.resolved[1]>>  BY <1>1 DEF Signer, Resolved
  <2>2. QED  BY <2>1 DEF DistinctIndexers
<1>4. f \in Bijection(W, S)
  <2>1. f \in [W -> S]  BY <1>3
  <2>2. \A a, b \in W : f[a] = f[b] => a = b  OBVIOUS
  <2>3. \A s \in S : \E i \in W : f[i] = s  BY <1>3
  <2> HIDE DEF f, S, W
  <2>4. QED  BY <2>1, <2>2, <2>3 DEF Bijection, Injection, Surjection, IsInjective
<1> HIDE DEF f, S, W
<1>5. Cardinality(S) = Cardinality(W) /\ Cardinality(W) \in Nat
  BY <1>2, <1>4, FS_Bijection, FS_CardinalityType DEF ExistsBijection
<1>6. QED  BY <1>2, <1>5 DEF W, S

(***************************************************************************)
(* A PASS of the consistency command is k distinct staked indexers who     *)
(* signed the same bytes in answer to the pinned query (consistency.rs:    *)
(* 1-21), for every behaviour of indexers, gateway and network.            *)
(***************************************************************************)
THEOREM PassIsAlwaysReal == Spec => []PassIsReal
<1>1. CommandInv => PassIsReal
  <2> SUFFICES ASSUME CommandInv, Reported, report[1].pass
               PROVE  \E body \in {c.bundle.response : c \in collected}, W \in SUBSET Indexers :
                        /\ Cardinality(W) >= MinSigners
                        /\ \A i \in W : \E k \in Keys, c \in collected :
                             OperatorOf[k] = i /\ StandsBy(k, body, c.bundle)
    BY DEF PassIsReal
  <2>1. /\ Cardinality(DistinctIndexers(collected)) >= MinSigners
        /\ Classify(collected) = "byte-identical"
        /\ \A c \in collected : Resolved(c)
    BY ReportIs DEF Resolved
  <2>2. \A c, d \in collected : c.bundle.response = d.bundle.response  BY <2>1 DEF Classify
  <2>3. collected # {}  BY DEF CommandInv, OutcomeOK, Reported
  <2>4. PICK c0 \in collected : TRUE  BY <2>3
  <2> DEFINE W == {c.resolved[1] : c \in collected}
  <2>5. W \in SUBSET Indexers /\ Cardinality(W) >= MinSigners  BY <2>1, SignersAreIndexers
  <2>6. ASSUME NEW i \in W
        PROVE  \E k \in Keys, c \in collected : OperatorOf[k] = i /\ StandsBy(k, c0.bundle.response, c.bundle)
    <3>1. PICK c \in collected : i = c.resolved[1]  OBVIOUS
    <3>2. PICK k \in Keys : c.resolved = <<OperatorOf[k]>> /\ StandsBy(k, c.bundle.response, c.bundle)
      BY <2>1, ResolvedStands
    <3>3. c.bundle.response = c0.bundle.response  BY <2>2
    <3>4. QED  BY <3>1, <3>2, <3>3
  <2>7. c0.bundle.response \in {c.bundle.response : c \in collected}  OBVIOUS
  <2> HIDE DEF W
  <2>8. QED  BY <2>5, <2>6, <2>7
<1>2. QED  BY <1>1, CommandInvariant, PTL

(***************************************************************************)
(* Indexers that do not lie are never reported to disagree about the data, *)
(* whatever blocks they are at (main.rs:517).                              *)
(***************************************************************************)
THEOREM NeverFalseDivergence == Spec => []NoFalseDivergence
<1>1. CommandInv => NoFalseDivergence
  <2> SUFFICES ASSUME CommandInv, Reported,
                      \A c \in collected : Resolved(c) /\ setup.behaviour[c.resolved[1]] # "lying"
               PROVE  report[1].agreement # "data-divergence"
    BY DEF NoFalseDivergence
  <2>1. \A c \in collected : c.bundle.response.data = pin
    <3> SUFFICES ASSUME NEW c \in collected  PROVE c.bundle.response.data = pin
      OBVIOUS
    <3>1. PICK k \in Keys :
            /\ c.resolved = <<OperatorOf[k]>>
            /\ setup.behaviour[OperatorOf[k]] # "lying" => c.bundle.response = Truth(OperatorOf[k])
      BY ResolvedStands
    <3>2. QED  BY <3>1 DEF Truth
  <2>2. report[1].agreement = Classify(collected)  BY ReportIs
  <2>3. QED  BY <2>1, <2>2 DEF Classify
<1>2. QED  BY <1>1, CommandInvariant, PTL

(***************************************************************************)
(* Enough honest indexers, all resolved, make the report pass.             *)
(***************************************************************************)
THEOREM HonestAgreementAlwaysPasses == Spec => []HonestAgreementPasses
<1>1. CommandInv => HonestAgreementPasses
  <2> SUFFICES ASSUME CommandInv, Reported,
                      \A c \in collected : Resolved(c) /\ setup.behaviour[c.resolved[1]] = "honest",
                      Cardinality({c.resolved[1] : c \in collected}) >= MinSigners
               PROVE  report[1].pass
    BY DEF HonestAgreementPasses
  <2>1. \A c \in collected : c.bundle.response = [data |-> pin, format |-> "compact"]
    <3> SUFFICES ASSUME NEW c \in collected
                 PROVE  c.bundle.response = [data |-> pin, format |-> "compact"]
      OBVIOUS
    <3>1. PICK k \in Keys :
            /\ c.resolved = <<OperatorOf[k]>>
            /\ setup.behaviour[OperatorOf[k]] # "lying" => c.bundle.response = Truth(OperatorOf[k])
      BY ResolvedStands
    <3>2. QED  BY <3>1 DEF Truth
  <2>2. Classify(collected) = "byte-identical"  BY <2>1 DEF Classify
  <2>3. Cardinality(DistinctIndexers(collected)) >= MinSigners  BY SignersAreIndexers
  <2>4. QED  BY <2>2, <2>3, ReportIs DEF Resolved
<1>2. QED  BY <1>1, CommandInvariant, PTL

(***************************************************************************)
(* Diverging answers fail the report and are all on file, each verifying   *)
(* to the allocation listed for it.                                        *)
(***************************************************************************)
THEOREM EvidenceAlwaysKept == Spec => []EvidenceKept
<1>1. CommandInv => EvidenceKept
  <2> SUFFICES ASSUME CommandInv, Reported, Diverged
               PROVE  /\ ~report[1].pass
                      /\ \A c \in collected :
                           /\ c.bundle \in saved
                           /\ Verifies(c.bundle, setup.domain)
                           /\ c.allocation = RecoverAllocation(setup.domain, c.bundle.attestation)
    BY DEF EvidenceKept
  <2>1. Classify(collected) # "byte-identical"  BY DEF Diverged, Classify
  <2>2. ~report[1].pass  BY <2>1, ReportIs
  <2>3. saved = {c.bundle : c \in collected}  BY <2>1, ReportIs DEF Kept, BuildReport
  <2>4. \A c \in collected : CollectedOK(c)  BY DEF CommandInv, EvidenceOK
  <2>5. QED  BY <2>2, <2>3, <2>4 DEF CollectedOK
<1>2. QED  BY <1>1, CommandInvariant, PTL

(***************************************************************************)
(* Without a report nothing is on file, so DivergencePreserved fails.  It  *)
(* has this one way to fail: a later answer that does not verify (the `?'  *)
(* after collect, main.rs:556 and :577).  No failure of a request, of a    *)
(* route or of the network subgraph loses diverging answers.               *)
(***************************************************************************)
THEOREM EvidenceOnlyLostByBadAnswer ==
  Spec => [](~DivergencePreserved => pc = "failed" /\ inFlight # <<>>
                                       /\ ~Verifies(inFlight[1], setup.domain))
<1> DEFINE BadAnswer == /\ pc = "failed" /\ inFlight # <<>>
                        /\ ~Verifies(inFlight[1], setup.domain)
<1>1. CommandInv /\ EvidenceKept => (~DivergencePreserved => BadAnswer)
  <2> SUFFICES ASSUME CommandInv, EvidenceKept, ~DivergencePreserved  PROVE BadAnswer
    OBVIOUS
  <2>1. pc # "done"
    <3>1. <<BuildReport(collected, targetedWorked)>> # <<>>  OBVIOUS
    <3>2. pc = "done" => Reported  BY <3>1 DEF CommandInv, OutcomeOK, Reported
    <3>3. QED  BY <3>2 DEF EvidenceKept, DivergencePreserved
  <2>2. pc = "failed" /\ collected # {}  BY <2>1 DEF DivergencePreserved, Diverged
  <2>3. QED  BY <2>2 DEF CommandInv, OutcomeOK
<1>2. QED  BY <1>1, CommandInvariant, EvidenceAlwaysKept, PTL

(***************************************************************************)
(* verify-attestation with a network subgraph passes a file only if an     *)
(* indexer with stake signed exactly what is in it.                        *)
(***************************************************************************)
THEOREM VerifiedIsAlwaysAttributed == Spec => []VerifiedIsAttributed
<1>1. CommandInv => VerifiedIsAttributed
  <2> SUFFICES ASSUME CommandInv, verdict # <<>>, verdict[1].pass, verdict[1].resolving
               PROVE  \E k \in Keys :
                        /\ verdict[1].allocation = Address(k)
                        /\ StandsBy(k, verdict[1].bundle.response, verdict[1].bundle)
    BY DEF VerifiedIsAttributed
  <2>1. PICK v : verdict = <<v>> /\ VerdictOK(v)  BY DEF CommandInv, OutcomeOK
  <2>2. v = verdict[1]  BY <2>1
  <2>3. PICK domain \in Domains :
          /\ v.allocation = RecoverAllocation(domain, v.bundle.attestation)
          /\ Verifies(v.bundle, domain) /\ Resolve(v.allocation) # <<>>
    BY <2>1, <2>2 DEF VerdictOK
  <2>4. PICK k \in Keys :
          /\ v.allocation = Address(k)
          /\ DeploymentOf[k] = Deployment /\ stake[OperatorOf[k]] # "none"
    BY <2>3, ResolveFinds DEF ResolvedTo
  <2>5. Genuine(v.bundle)
    <3>1. pc = "done" /\ saved \subseteq {c.bundle : c \in collected}
      BY <2>1 DEF CommandInv, OutcomeOK, Kept
    <3>2. \A b \in saved : Genuine(b)  BY <3>1 DEF CommandInv, EvidenceOK, CollectedOK
    <3>3. PICK b \in saved : v.bundle = b \/ v.bundle = [b EXCEPT !.response = Forged]
      BY <2>1 DEF VerdictOK, BundleFiles
    <3>4. v.bundle.request = b.request /\ v.bundle.deployment = b.deployment
          /\ v.bundle.attestation = b.attestation
      BY <3>2, <3>3 DEF Genuine
    <3>5. {"request", "deployment", "attestation"} \subseteq DOMAIN v.bundle
      BY <3>2, <3>3 DEF Genuine
    <3>6. Genuine(b)  BY <3>2
    <3>7. QED  BY <3>4, <3>5, <3>6 DEF Genuine
  <2>6. v.bundle.attestation.signature =
          [key |-> k, over |-> <<TrueDomain, CanonicalRequestString(AuditQuery(pin)), v.bundle.response, Deployment>>]
    <3>1. RecoverAllocation(domain, v.bundle.attestation) = Address(k)  BY <2>3, <2>4
    <3>2. Verifies(v.bundle, domain)  BY <2>3
    <3>3. QED  BY <2>5, <3>1, <3>2, VerifiedStands
  <2>7. QED  BY <2>2, <2>4, <2>6 DEF StandsBy
<1>2. QED  BY <1>1, CommandInvariant, PTL
=============================================================================
