------------------------------- MODULE Tamper -------------------------------
(***************************************************************************)
(* bond-replay tamper (main.rs, tamper.rs): on a saved bundle and the      *)
(* issuer's files, alter one thing, run the audit, and exit with 0 only if *)
(* the audit fails.  Three tripwires, each to be caught by another check.  *)
(*                                                                         *)
(* The saved bundle carries the server's attestation over what it served;  *)
(* here the attestation is checked and not assumed to verify.              *)
(***************************************************************************)
EXTENDS BondReplay, Attestation

CONSTANTS ServerKey, ThrowawayKey

ASSUME TamperAssumption == NoAddress \notin {ServerKey, ThrowawayKey}

VARIABLE demo  \* the outcome of a tamper run: absent, or one

tamperVars == <<vars, demo>>

Tripwires == {"altered-record", "altered-response-byte", "resigned-altered-anchors"}

\* Tripwire::expected_detector
ExpectedDetector(tripwire) ==
  CASE tripwire = "altered-record" -> "records"
    [] tripwire = "altered-response-byte" -> "responseCID"
    [] OTHER -> "roots"

Domain == "dispute manager"
Subgraph == "bond deployment"

\* The bundle file with its attestation.
AuditBundle ==
  [request |-> bundle[1].pin, response |-> bundle[1].answer, deployment |-> Subgraph,
   attestation |-> Attest(Domain, ServerKey, Subgraph, bundle[1].pin, bundle[1].answer)]

FailedOffline(b) ==
  LET checks == OfflineChecks(b, Domain) IN {step \in DOMAIN checks : ~checks[step]}

-----------------------------------------------------------------------------
(* What is altered. *)

\* What nobody anchored, served or disclosed.
Altered == -1

\* A field of a record, and with it the commitment it hashes to.
AlterRecord(disclosure, k) == [disclosure EXCEPT !.entries[k].record = Altered]

\* The first hex digit of the response, wherever that is: other bytes.
AlterOneResponseByte(answer) == [otherBytesThan |-> answer]

\* Mutant: the alteration lands outside the anchor log.
AlterMetadata(answer) == [answer EXCEPT !.bond = "another"]

\* The first hex digit of the first served commitment.
AlterServedCommitment(answer) == [answer EXCEPT !.commitments[1].value = Altered]

ResignAlteredAnchors(b) ==
  LET altered == AlterServedCommitment(b.response)
  IN [b EXCEPT !.response = altered,
               !.attestation = Attest(Domain, ThrowawayKey, b.deployment, b.request, altered)]

-----------------------------------------------------------------------------
(* The command. *)

\* Nobody lied, and the auditor has a node.
Fair(disclosure, run) ==
  /\ bundle[1].honest
  /\ disclosure = HonestDisclosure(bundle[1].pin)
  /\ run.rpc
  /\ WalkKeptUp

Ends(tripwire, outcome, failed, inField, fair) ==
  /\ demo' = <<[tripwire |-> tripwire, outcome |-> outcome, failed |-> failed,
                inField |-> inField, fair |-> fair]>>
  /\ UNCHANGED vars

TripAlteredRecord(disclosure, run) ==
  \E k \in {j \in DOMAIN disclosure.entries : IsRecord(disclosure.entries[j])} :
    LET altered == AlterRecord(disclosure, k)
        failed == Failures(bundle[1].answer, altered, run)
        readable == Readable(bundle[1].answer, altered)
    IN Ends("altered-record", IF ~readable THEN "error" ELSE IF failed = {} THEN "not caught" ELSE "caught",
            IF readable THEN failed ELSE {}, TRUE, Fair(disclosure, run))

TripAlteredResponseByte(disclosure, run) ==
  LET altered == [AuditBundle EXCEPT !.response = AlterOneResponseByte(@)]
      failed == FailedOffline(altered)
  IN Ends("altered-response-byte", IF failed = {} THEN "not caught" ELSE "caught", failed, TRUE,
          Fair(disclosure, run))

\* Mutant: any failure will do.
TripResignedByAnything(disclosure, run) ==
  \E inField \in BOOLEAN :
    LET liar == ResignAlteredAnchors(AuditBundle)
        failed == Failures(liar.response, disclosure, run)
        reached == FailedOffline(liar) = {} /\ run.rpc /\ inField /\ Readable(liar.response, disclosure)
    IN /\ bundle[1].answer.commitments # <<>>
       /\ Ends("resigned-altered-anchors", IF reached /\ failed # {} THEN "caught" ELSE "error",
               IF reached THEN failed ELSE {}, inField, Fair(disclosure, run))

(***************************************************************************)
(* An error unless the attestation verifies, there is a node, and a root   *)
(* fails.  A commitment is below the field order, and with another first   *)
(* digit it need not be: then the altered answer is not read at all.       *)
(***************************************************************************)
TripResignedAlteredAnchors(disclosure, run) ==
  \E inField \in BOOLEAN :
    LET liar == ResignAlteredAnchors(AuditBundle)
        failed == Failures(liar.response, disclosure, run)
        reached == FailedOffline(liar) = {} /\ run.rpc /\ inField /\ Readable(liar.response, disclosure)
    IN /\ bundle[1].answer.commitments # <<>>
       /\ Ends("resigned-altered-anchors", IF reached /\ "roots" \in failed THEN "caught" ELSE "error",
               IF reached THEN failed ELSE {}, inField, Fair(disclosure, run))

\* On the files of an honest issuer, with or without a node, or of one who fits
\* them to another log that is served; the second, as a bound, before the chain
\* goes on.
RunTamper ==
  /\ bundle # <<>> /\ report = <<>> /\ demo = <<>>
  /\ LET pin == bundle[1].pin
         answer == bundle[1].answer
         honest == bundle[1].honest
         runs == {run \in Runs(answer, honest) : run.contract = "named"}
         atHead == {run \in runs : run.rpc /\ ~run.verifyOnchain /\ run.block = head - 1}
     IN /\ honest \/ metaBlock = head - 1
        /\ \E disclosure \in IF honest THEN {HonestDisclosure(pin)} ELSE FittingDisclosures(pin, answer),
              run \in IF honest THEN atHead \cup {r \in runs : ~r.rpc} ELSE atHead :
             \/ TripAlteredRecord(disclosure, run)
             \/ TripAlteredResponseByte(disclosure, run)
             \/ TripResignedAlteredAnchors(disclosure, run)

TamperInit == Init /\ demo = <<>>

TamperNext == (demo = <<>> /\ Next /\ UNCHANGED demo) \/ RunTamper

TamperSpec == TamperInit /\ [][TamperNext]_tamperVars

-----------------------------------------------------------------------------
(* Properties. *)

(***************************************************************************)
(* tamper.rs:3-12 and 37-39: the tripwires fail in different places, and   *)
(* one that fails for the wrong reason is no demonstration.  Whatever was  *)
(* served and disclosed, "caught" means caught by the expected check.      *)
(***************************************************************************)
CaughtWhereExpected ==
  demo # <<>> /\ demo[1].outcome = "caught" => ExpectedDetector(demo[1].tripwire) \in demo[1].failed

(***************************************************************************)
(* Between honest parties, and while what was altered can still be read,   *)
(* every tripwire is caught and nothing else fails: an altered record      *)
(* leaves the roots alone, an altered byte everything but responseCID, and *)
(* a re-signed answer passes the attestation and fails at the roots        *)
(* (main.rs, cmd_tamper).                                                  *)
(***************************************************************************)
TripwiresExactInField ==
  demo # <<>> /\ demo[1].fair /\ demo[1].inField =>
    /\ demo[1].outcome = "caught"
    /\ CASE demo[1].tripwire = "altered-record" ->
              demo[1].failed = {"records", "manifest", "accounting"}
         [] demo[1].tripwire = "altered-response-byte" -> demo[1].failed = {"responseCID"}
         [] OTHER -> {"roots", "accounting"} \subseteq demo[1].failed

(***************************************************************************)
(* tamper.rs:7-12 and 44, as they are written: between honest parties each *)
(* tripwire is caught by its detector; the third passes the attestation    *)
(* and fails at the root replay, whatever the commitment altered.          *)
(***************************************************************************)
TripwiresCaughtAsDocumented ==
  demo # <<>> /\ demo[1].fair =>
    demo[1].outcome = "caught" /\ ExpectedDetector(demo[1].tripwire) \in demo[1].failed
=============================================================================
