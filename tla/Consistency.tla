----------------------------- MODULE Consistency -----------------------------
(***************************************************************************)
(* bond-replay consistency: pin a block, enumerate the indexers with an    *)
(* active allocation, ask each of them the identical query until enough    *)
(* distinct ones have signed an answer, or sample the main route if the    *)
(* targeted one answers nobody, and report whether the answers agree.      *)
(*                                                                         *)
(* Indexers are at different heads, may write the same data in other       *)
(* bytes, or lie.  The gateway may fail, answer with another indexer than  *)
(* asked, or meddle with what it passes on.  Meanwhile allocations close,  *)
(* stake is withdrawn and indexers advance.  An indexer that has not       *)
(* reached the pinned block gives no attested answer.                      *)
(*                                                                         *)
(* The answers collected are a set: how often one was given, and in which  *)
(* order, makes no difference to what is reported of them.                 *)
(***************************************************************************)
EXTENDS Gateway, Integers, FiniteSets

CONSTANTS Indexers,
          Keys,          \* allocation keys, of real allocations and thrown away
          OperatorOf,    \* who holds a key
          DeploymentOf,  \* where a key has its allocation; NoDeployment: nowhere
          Deployment,    \* the subgraph deployment asked
          NoDeployment,
          Domains, TrueDomain,  \* attestation domains, and the one indexers use
          Meddling,      \* what the gateway may do to answers
          MinSigners, MaxAttempts,
          FIRST,         \* allocations per enumeration: 100
          Setups,        \* bound: the ways the run may be set up
          MaxBlock,      \* bound: the highest block
          MaxMoves       \* bound: changes of the network during the run

\* How indexers behave, who has stake, who has reached which block, the domain
\* given to the command, and whether the gateway exposes the targeted route.
SetupType == [behaviour : [Indexers -> {"honest", "respaced", "lying"}],
              stake : [Indexers -> {"staked", "none"}], head : [Indexers -> 1 .. MaxBlock],
              domain : Domains, exposed : BOOLEAN]

ASSUME ConsistencyAssumption ==
  /\ Setups \subseteq SetupType
  /\ IsFiniteSet(Indexers)
  /\ OperatorOf \in [Keys -> Indexers]
  /\ NoAddress \notin Keys
  /\ Deployment # NoDeployment
  /\ TrueDomain \in Domains
  /\ Meddling \subseteq {"misroute", "alter", "recast", "garble", "strip", "replay"}
  /\ {MinSigners, MaxAttempts, FIRST, MaxBlock, MaxMoves} \subseteq Nat

VARIABLES
  setup,      \* chosen once
  status,     \* of each key's allocation
  stake,      \* of each indexer: "staked", "withdrawn", or "none" ever
  headOf,     \* the block each indexer has reached
  moves,      \* how often the network has changed
  pc,         \* what the command does next
  pin, candidates, targetedWorked, attempts,
  inFlight,   \* the answer fetched and not yet collected: none, or one
  collected,
  report,     \* none, or one
  saved,      \* the bundle files
  verdict     \* of verify-attestation on one of them: none, or one

network == <<status, stake, headOf, moves>>
command == <<pin, candidates, targetedWorked, attempts, collected, report, saved, verdict>>
vars == <<setup, network, pc, inFlight, command>>

-----------------------------------------------------------------------------
(* The indexers and the gateway. *)

MetaQuery == [asks |-> "meta", block |-> 0]

\* Mutant: the query is for the latest block.
AuditQueryUnpinned(block) == [asks |-> "anchors", block |-> 0]

\* A block pinned by hash; 0 stands for none, the latest.
AuditQuery(block) == [asks |-> "anchors", block |-> block]

\* Data of a block that does not exist.
Forged == [data |-> MaxBlock + 1, format |-> "compact"]

TrueBody(i, query) ==
  [data |-> IF query.block = 0 THEN headOf[i] ELSE query.block,
   format |-> IF setup.behaviour[i] = "respaced" THEN "spaced" ELSE "compact"]

\* An honest indexer attests with an open allocation, at a block it has reached.
Attests(k, query) ==
  /\ status[k] = "Active"
  /\ DeploymentOf[k] = Deployment
  /\ query.block <= headOf[OperatorOf[k]]

Bodies(k, query) ==
  LET i == OperatorOf[k]
  IN IF setup.behaviour[i] = "lying" THEN {TrueBody(i, query), Forged}
     ELSE IF Attests(k, query) THEN {TrueBody(i, query)} ELSE {}

\* The indexer signs over what the gateway forwards.
Signs(k, query) ==
  {Attest(TrueDomain, k, Deployment, CanonicalRequest(ClientPostBody(query)), body) :
     body \in Bodies(k, query)}

OnTheWire(att) ==
  {Attested(att, att.responseCID)}
    \cup (IF "alter" \in Meddling THEN {Attested(att, Forged)} ELSE {})
    \cup (IF "recast" \in Meddling THEN {Attested([att EXCEPT !.responseCID = Forged], Forged)} ELSE {})
    \cup (IF "garble" \in Meddling THEN {Attested(Malformed(att), att.responseCID)} ELSE {})
    \cup (IF "strip" \in Meddling THEN {Unattested(att.responseCID)} ELSE {})

\* What may come back: nothing usable, or what one of the answerers signs, or
\* has signed in answer to another query, as the gateway passes it on.
Replies(query, answerers) ==
  LET keys == {k \in Keys : OperatorOf[k] \in answerers}
      asked == {query} \cup (IF "replay" \in Meddling THEN {MetaQuery} ELSE {})
  IN {NotFound} \cup UNION {OnTheWire(att) : att \in UNION {Signs(k, q) : k \in keys, q \in asked}}

Results(query, answerers, routed) ==
  {FetchResult(query, reply, Deployment, routed) : reply \in Replies(query, answerers)}

TargetedAnswerers(i) ==
  LET asked == HandleTargeted(setup.exposed, Indexers, i)
  IN IF asked # {} /\ "misroute" \in Meddling THEN Indexers ELSE asked

ActiveAllocations == {k \in Keys : DeploymentOf[k] = Deployment /\ status[k] = "Active"}

(***************************************************************************)
(* What the network subgraph says of an allocation, and who is behind it:  *)
(* none, or one indexer.                                                   *)
(***************************************************************************)
Row(k) == [deployment |-> DeploymentOf[k], staked |-> stake[OperatorOf[k]] = "staked"]

Resolve(allocation) ==
  IF /\ allocation \in {Address(k) : k \in Keys}
     /\ DeploymentOf[allocation[1]] # NoDeployment
     /\ Backed(Row(allocation[1]), Deployment)
  THEN <<OperatorOf[allocation[1]]>>
  ELSE <<>>

-----------------------------------------------------------------------------
(* consistency.rs *)

\* Who signed: the indexer the allocation resolves to, or the bare allocation.
Signer(c) ==
  IF c.resolved = <<>> THEN <<"unresolved-allocation", c.allocation>> ELSE c.resolved

\* Mutant: whoever was asked is taken to have answered.
DistinctByRoute(answers) == {<<c.bundle.routedIndexer>> : c \in answers}

DistinctIndexers(answers) == {Signer(c) : c \in answers}

\* Mutant: the attestations are compared with the bodies.
ClassifyBundles(answers) ==
  IF \A c, d \in answers : c.bundle = d.bundle THEN "byte-identical"
  ELSE IF \A c, d \in answers : c.bundle.response.data = d.bundle.response.data
  THEN "serialization-level" ELSE "data-divergence"

Classify(answers) ==
  IF \A c, d \in answers : c.bundle.response = d.bundle.response THEN "byte-identical"
  ELSE IF \A c, d \in answers : c.bundle.response.data = d.bundle.response.data
  THEN "serialization-level" ELSE "data-divergence"

BuildReport(answers, targeted) ==
  LET distinct == Cardinality(DistinctIndexers(answers))
      agreement == Classify(answers)
  IN [agreement |-> agreement, distinct |-> distinct, coverageClaim |-> targeted,
      pass |-> /\ distinct >= MinSigners
               /\ agreement = "byte-identical"
               /\ \A c \in answers : c.resolved # <<>>]

-----------------------------------------------------------------------------
(* The command. *)

Enough == Cardinality(DistinctIndexers(collected)) >= MinSigners

\* The answer to _meta is not checked: whoever gives it chooses the block.
Pin ==
  /\ pc = "pin"
  /\ \E result \in Results(MetaQuery, HandleMain(Indexers), NoAddress) :
       IF result = <<>> THEN pc' = "failed" /\ UNCHANGED pin
       ELSE pc' = "enumerate" /\ pin' = result[1].response.data
  /\ UNCHANGED <<setup, network, inFlight, candidates, targetedWorked, attempts, collected,
                 report, saved, verdict>>

\* Allocations are listed, indexers asked: one with many may crowd out others.
FetchActiveIndexers ==
  /\ pc = "enumerate"
  /\ \/ pc' = "failed" /\ UNCHANGED candidates
     \/ \E rows \in SUBSET ActiveAllocations :
          /\ Cardinality(rows) = FIRST \/ (rows = ActiveAllocations /\ Cardinality(rows) < FIRST)
          /\ candidates' = {OperatorOf[k] : k \in rows}
          /\ pc' = "targeted"
  /\ UNCHANGED <<setup, network, inFlight, pin, targetedWorked, attempts, collected,
                 report, saved, verdict>>

\* Mutant: an indexer that gives no answer is asked again.
AskUntilAnswered ==
  /\ pc = "targeted" /\ inFlight = <<>> /\ ~Enough
  /\ \E i \in candidates :
       /\ inFlight' \in Results(AuditQuery(pin), TargetedAnswerers(i), i)
       /\ candidates' = IF inFlight' = <<>> THEN candidates ELSE candidates \ {i}
       /\ targetedWorked' = (targetedWorked \/ inFlight' # <<>>)
  /\ UNCHANGED <<setup, network, pc, pin, attempts, collected, report, saved, verdict>>

AskIndexer ==
  /\ pc = "targeted" /\ inFlight = <<>> /\ ~Enough
  /\ \E i \in candidates :
       /\ candidates' = candidates \ {i}
       /\ inFlight' \in Results(AuditQuery(pin), TargetedAnswerers(i), i)
       /\ targetedWorked' = (targetedWorked \/ inFlight' # <<>>)
  /\ UNCHANGED <<setup, network, pc, pin, attempts, collected, report, saved, verdict>>

\* Mutant: one attempt too many.
SampleOnceMore ==
  /\ pc = "main" /\ inFlight = <<>> /\ ~Enough
  /\ attempts <= MaxAttempts
  /\ attempts' = attempts + 1
  /\ inFlight' \in Results(AuditQuery(pin), HandleMain(Indexers), NoAddress)
  /\ UNCHANGED <<setup, network, pc, pin, candidates, targetedWorked, collected, report, saved,
                 verdict>>

Sample ==
  /\ pc = "main" /\ inFlight = <<>> /\ ~Enough
  /\ attempts < MaxAttempts
  /\ attempts' = attempts + 1
  /\ inFlight' \in Results(AuditQuery(pin), HandleMain(Indexers), NoAddress)
  /\ UNCHANGED <<setup, network, pc, pin, candidates, targetedWorked, collected, report, saved,
                 verdict>>

\* One answer that does not verify ends the command; one that cannot be
\* resolved, or whose resolution fails, is kept as unresolved.
Collect ==
  /\ pc \in {"targeted", "main"} /\ inFlight # <<>>
  /\ LET bundle == inFlight[1]
         allocation == RecoverAllocation(setup.domain, bundle.attestation)
     IN IF Verifies(bundle, setup.domain)
        THEN /\ \E resolved \in {Resolve(allocation), <<>>} :
                  collected' = collected \cup
                    {[bundle |-> bundle, allocation |-> allocation, resolved |-> resolved]}
             /\ inFlight' = <<>>
             /\ UNCHANGED pc
        ELSE pc' = "failed" /\ UNCHANGED <<inFlight, collected>>
  /\ UNCHANGED <<setup, network, pin, candidates, targetedWorked, attempts, report, saved,
                 verdict>>

\* The main route is only sampled if the targeted one gave no answer at all.
FallBack ==
  /\ pc = "targeted" /\ inFlight = <<>>
  /\ Enough \/ candidates = {}
  /\ pc' = IF targetedWorked THEN "report" ELSE "main"
  /\ UNCHANGED <<setup, network, inFlight, command>>

StopSampling ==
  /\ pc = "main" /\ inFlight = <<>>
  /\ Enough \/ attempts = MaxAttempts
  /\ pc' = "report"
  /\ UNCHANGED <<setup, network, inFlight, command>>

\* Mutant: serialization-level divergence is not worth keeping.
WriteReportKeepingLess ==
  /\ pc = "report"
  /\ LET made == BuildReport(collected, targetedWorked)
     IN IF collected = {} THEN pc' = "failed" /\ UNCHANGED <<report, saved>>
        ELSE /\ pc' = "done"
             /\ report' = <<made>>
             /\ saved' = IF made.agreement = "data-divergence" THEN {c.bundle : c \in collected} ELSE {}
  /\ UNCHANGED <<setup, network, inFlight, pin, candidates, targetedWorked, attempts,
                 collected, verdict>>

WriteReport ==
  /\ pc = "report"
  /\ LET made == BuildReport(collected, targetedWorked)
     IN IF collected = {} THEN pc' = "failed" /\ UNCHANGED <<report, saved>>
        ELSE /\ pc' = "done"
             /\ report' = <<made>>
             /\ saved' = IF made.agreement # "byte-identical" THEN {c.bundle : c \in collected} ELSE {}
  /\ UNCHANGED <<setup, network, inFlight, pin, candidates, targetedWorked, attempts,
                 collected, verdict>>

-----------------------------------------------------------------------------
(* verify-attestation, by anyone, on a bundle file, as saved or altered,    *)
(* under any domain, with or without a network subgraph to resolve with.    *)

BundleFiles == saved \cup {[b EXCEPT !.response = Forged] : b \in saved}

\* Mutant: a signer that does not resolve is reported and does not fail.
VerifyAttestationLenient ==
  /\ pc = "done" /\ verdict = <<>>
  /\ \E bundle \in BundleFiles, domain \in Domains, resolving \in BOOLEAN :
       verdict' = <<[bundle |-> bundle, resolving |-> resolving,
                     allocation |-> RecoverAllocation(domain, bundle.attestation),
                     pass |-> Verifies(bundle, domain)]>>
  /\ UNCHANGED <<setup, network, pc, inFlight, pin, candidates, targetedWorked, attempts,
                 collected, report, saved>>

VerifyAttestation ==
  /\ pc = "done" /\ verdict = <<>>
  /\ \E bundle \in BundleFiles, domain \in Domains, resolving \in BOOLEAN :
       LET allocation == RecoverAllocation(domain, bundle.attestation)
       IN verdict' = <<[bundle |-> bundle, resolving |-> resolving, allocation |-> allocation,
                        pass |-> Verifies(bundle, domain)
                                   /\ (resolving => Resolve(allocation) # <<>>)]>>
  /\ UNCHANGED <<setup, network, pc, inFlight, pin, candidates, targetedWorked, attempts,
                 collected, report, saved>>

-----------------------------------------------------------------------------
(* The network goes on while the command runs. *)

CloseAllocation ==
  /\ \E k \in ActiveAllocations : status' = [status EXCEPT ![k] = "Closed"]
  /\ UNCHANGED <<stake, headOf>>

WithdrawStake ==
  /\ \E i \in Indexers : stake[i] = "staked" /\ stake' = [stake EXCEPT ![i] = "withdrawn"]
  /\ UNCHANGED <<status, headOf>>

Advance ==
  /\ \E i \in Indexers : headOf[i] < MaxBlock /\ headOf' = [headOf EXCEPT ![i] = @ + 1]
  /\ UNCHANGED <<status, stake>>

NetworkMoves ==
  /\ moves < MaxMoves /\ moves' = moves + 1
  /\ pc \notin {"done", "failed"}
  /\ CloseAllocation \/ WithdrawStake \/ Advance
  /\ UNCHANGED <<setup, pc, inFlight, command>>

Init ==
  /\ setup \in Setups
  /\ status = [k \in Keys |-> "Active"]
  /\ stake = setup.stake
  /\ headOf = setup.head
  /\ moves = 0
  /\ pc = "pin" /\ pin = 0 /\ candidates = {} /\ targetedWorked = FALSE /\ attempts = 0
  /\ inFlight = <<>> /\ collected = {}
  /\ report = <<>> /\ saved = {} /\ verdict = <<>>

Command ==
  \/ Pin \/ FetchActiveIndexers \/ AskIndexer \/ Sample \/ Collect
  \/ FallBack \/ StopSampling \/ WriteReport

Next == Command \/ VerifyAttestation \/ NetworkMoves

Spec == Init /\ [][Next]_vars

\* The command is one sequential async function, and every request it awaits
\* ends in an answer or an error.
FairSpec == Spec /\ WF_vars(Command)

-----------------------------------------------------------------------------
(* Properties. *)

Resolved(c) == c.resolved # <<>>
Reported == report # <<>>

(***************************************************************************)
(* Type invariant: the command's bookkeeping is consistent with where it   *)
(* is, and it asks no more often than it may.                              *)
(***************************************************************************)
ConsistencyTypeOK ==
  /\ pc \in {"pin", "enumerate", "targeted", "main", "report", "done", "failed"}
  /\ candidates \subseteq Indexers
  /\ attempts \in 0 .. MaxAttempts
  /\ targetedWorked => attempts = 0
  /\ Len(inFlight) \in 0 .. 1 /\ Len(verdict) \in 0 .. 1
  /\ Reported <=> pc = "done"
  /\ \A c \in collected : Resolved(c) => c.resolved[1] \in Indexers
  /\ saved \subseteq {c.bundle : c \in collected}

(***************************************************************************)
(* Key k's operator signed this body as the answer to the pinned query, k  *)
(* has its allocation on the deployment, and there was stake behind it     *)
(* during the run.  A signature is only ever made in Signs.                *)
(***************************************************************************)
StandsBy(k, body, bundle) ==
  /\ DeploymentOf[k] = Deployment
  /\ stake[OperatorOf[k]] # "none"
  /\ bundle.attestation.signature =
       [key |-> k, over |-> <<TrueDomain, CanonicalRequestString(AuditQuery(pin)), body, Deployment>>]

(***************************************************************************)
(* consistency.rs:1-21: a PASS means that k distinct staked indexers       *)
(* signed byte-identical answers to the same query at the same block,      *)
(* whoever the gateway let answer, whatever it did to the answers, and     *)
(* whichever allocations closed since they were listed.                    *)
(***************************************************************************)
PassIsReal ==
  Reported /\ report[1].pass =>
    \E body \in {c.bundle.response : c \in collected}, W \in SUBSET Indexers :
      /\ Cardinality(W) >= MinSigners
      /\ \A i \in W : \E k \in Keys, c \in collected : OperatorOf[k] = i /\ StandsBy(k, body, c.bundle)

(***************************************************************************)
(* main.rs:517: "honest head-drift cannot masquerade as divergence".       *)
(* Indexers that do not lie are never reported to disagree about the data, *)
(* however far apart their heads are.                                      *)
(***************************************************************************)
NoFalseDivergence ==
  Reported /\ (\A c \in collected : Resolved(c) /\ setup.behaviour[c.resolved[1]] # "lying") =>
    report[1].agreement # "data-divergence"

(***************************************************************************)
(* If enough honest indexers answered and all answers resolved, the report *)
(* passes: nothing the gateway did on the way can turn it.                 *)
(***************************************************************************)
HonestAgreementPasses ==
  Reported /\ (\A c \in collected : Resolved(c) /\ setup.behaviour[c.resolved[1]] = "honest") =>
    (Cardinality({c.resolved[1] : c \in collected}) >= MinSigners => report[1].pass)

Diverged == \E c, d \in collected : c.bundle.response # d.bundle.response

(***************************************************************************)
(* A report over answers that differ fails, and every one of them is on    *)
(* file, each verifying on its own to the allocation the report lists for  *)
(* it (the bundles run_consistency writes before it writes the report).    *)
(***************************************************************************)
EvidenceKept ==
  Reported /\ Diverged =>
    /\ ~report[1].pass
    /\ \A c \in collected :
         /\ c.bundle \in saved
         /\ Verifies(c.bundle, setup.domain)
         /\ c.allocation = RecoverAllocation(setup.domain, c.bundle.attestation)

(***************************************************************************)
(* main.rs:628, as it is written: divergence evidence is always preserved. *)
(* However the command ends, once collected answers have diverged each of  *)
(* them is on file.                                                        *)
(***************************************************************************)
DivergencePreserved ==
  pc \in {"done", "failed"} /\ Diverged => \A c \in collected : c.bundle \in saved

(***************************************************************************)
(* A bundle file that verify-attestation passes with a network subgraph    *)
(* names an indexer with stake who signed exactly these bytes, whatever    *)
(* became of the file and under whichever domain it was checked.           *)
(***************************************************************************)
VerifiedIsAttributed ==
  verdict # <<>> /\ verdict[1].pass /\ verdict[1].resolving =>
    \E k \in Keys :
      /\ verdict[1].allocation = Address(k)
      /\ StandsBy(k, verdict[1].bundle.response, verdict[1].bundle)

\* The command ends, however the route and the gateway behave.
CommandEnds == <>(pc \in {"done", "failed"})
=============================================================================
