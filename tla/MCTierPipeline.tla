--------------------------- MODULE MCTierPipeline --------------------------
(***************************************************************************)
(* A golden set with one perturbed condition.                              *)
(***************************************************************************)
EXTENDS TierPipeline

MCPerturbed == <<"low_light">>
=============================================================================
