---------------------------- MODULE MCJobIntents ----------------------------
(***************************************************************************)
(* JobIntents on small sets.  Intents and workers are interchangeable, so  *)
(* the runs that check safety only are reduced by symmetry.                *)
(***************************************************************************)
EXTENDS JobIntents, TLC

Symmetry == Permutations(Worker) \cup Permutations(Intent)
=============================================================================
