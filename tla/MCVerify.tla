------------------------------ MODULE MCVerify ------------------------------
(* The two halves of `verify': the command at work while the owner, a        *)
(* stranger and the index go on, and its comparison, pass by pass, on any    *)
(* disclosure and any answer.  One run checks both; `half' is chosen once.   *)
EXTENDS MCAnchorAudit, MCCompletenessChecker

VARIABLE half

VerifyInit ==
  /\ CheckerInit
  /\ AuditInit
  /\ \/ half = "command"
     \/ half = "comparison" /\ records = <<"a">>

VerifyNext ==
  /\ \/ half = "command" /\ AuditNext /\ UNCHANGED checkerVars
     \/ half = "comparison" /\ CheckerNext /\ UNCHANGED auditVars
  /\ UNCHANGED half

VerifySpec == VerifyInit /\ [][VerifyNext]_<<auditVars, checkerVars, half>>
=============================================================================
