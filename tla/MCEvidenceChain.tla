---------------------------- MODULE MCEvidenceChain ----------------------------
(***************************************************************************)
(* Measurements, artifacts, the ledger that only the later records read,   *)
(* and a generated record are edited.                                      *)
(***************************************************************************)
EXTENDS EvidenceChain

EditedMC == {"browsers", "artifacts", "ledger", "closure"}
=============================================================================
