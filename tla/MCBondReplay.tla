---------------------------- MODULE MCBondReplay ----------------------------
(* Small instances of BondReplay. *)
EXTENDS Tamper
=============================================================================
