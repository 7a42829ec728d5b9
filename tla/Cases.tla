------------------------------- MODULE Cases -------------------------------
(***************************************************************************)
(* The pure decisions of the program have no state of their own.  A module *)
(* about them states its properties of one input, the case; a run picks    *)
(* the cases from small sets.  A case is a record with a field kind.       *)
(***************************************************************************)

CONSTANT None      \* what is absent: no label, no score, no value

VARIABLE case

NoCase == [kind |-> "none"]

Consider(cases) == case = NoCase /\ case' \in cases

Is(kind) == case.kind = kind
=============================================================================
