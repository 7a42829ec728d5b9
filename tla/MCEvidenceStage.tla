-------------------------- MODULE MCEvidenceStage --------------------------
(***************************************************************************)
(* Two runs with up to two tier outcomes each, which may share an artifact.*)
(***************************************************************************)
EXTENDS EvidenceStage, TLC

RunSymmetry == Permutations(Run)
=============================================================================
