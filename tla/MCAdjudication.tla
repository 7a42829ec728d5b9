--------------------------- MODULE MCAdjudication ---------------------------
(***************************************************************************)
(* Adjudication on small sets.  Workers are interchangeable, and so are    *)
(* reviewers.                                                              *)
(***************************************************************************)
EXTENDS Adjudication, TLC

MCIntent == Version \X (0..(MaxGolden + MaxRetries))

Symmetry == Permutations(Worker) \cup Permutations(Reviewer)
=============================================================================
