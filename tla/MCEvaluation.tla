---------------------------- MODULE MCEvaluation ----------------------------
(***************************************************************************)
(* Evaluation on small sets.  Workers and versions are interchangeable.    *)
(***************************************************************************)
EXTENDS Evaluation, TLC

MCIntent == Version \X (0..(MaxGolden + MaxRetries))

WorkerSymmetry == Permutations(Worker)
=============================================================================
