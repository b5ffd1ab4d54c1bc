----------------------------- MODULE MCPhaseGates -----------------------------
(***************************************************************************)
(* Pairs of successive phases, from six starts.                            *)
(***************************************************************************)
EXTENDS PhaseGates

FirstsMC == {1, 3, 5, 7, 9, 11}
QualitiesMC == {"good", "drifted", "broken"}
=============================================================================
