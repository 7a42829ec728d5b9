-------------------------- MODULE MCArtifactIngest -------------------------
(***************************************************************************)
(* Submissions that share a model name, and may share the version.         *)
(***************************************************************************)
EXTENDS ArtifactIngest
=============================================================================
