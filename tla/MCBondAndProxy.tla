--------------------------- MODULE MCBondAndProxy ---------------------------
(* The audit of the bond and the proxy before the gateway.  They meet only   *)
(* in the signed answer and share no state: one run checks each of them,     *)
(* and `system' is chosen once.                                              *)
EXTENDS MCBondReplay, MCProxy

VARIABLE system

BondAndProxyInit ==
  /\ TamperInit
  /\ ProxyInit
  /\ \/ system = "bond"
     \/ system = "proxy" /\ deployment = "blocks"

BondAndProxyNext ==
  /\ \/ system = "bond" /\ TamperNext /\ UNCHANGED proxyVars
     \/ system = "proxy" /\ ProxyNext /\ UNCHANGED tamperVars
  /\ UNCHANGED system

BondAndProxySpec ==
  BondAndProxyInit /\ [][BondAndProxyNext]_<<tamperVars, proxyVars, system>>
=============================================================================
