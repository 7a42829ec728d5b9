----------------------------- MODULE ModelCards -----------------------------
(***************************************************************************)
(* The Model Card: split_human_sections and generate of                    *)
(* engine/cards/generator.py, and the two ways the orchestrator fills them *)
(* in: _upsert_card from the outcomes of the run in hand, _regenerate_card *)
(* from the stored rows when a reviewer decides.                           *)
(*                                                                         *)
(* A text is a sequence of "word", "blank" and "begin", the marker of the  *)
(* machine block.  A run, oldest first in runs, is [verdict, golden,       *)
(* outcomes]; an outcome is [tier, passed, minimum, unsafe, grounding,     *)
(* mode, readable], the last two of the evidence file of its row.          *)
(***************************************************************************)
EXTENDS Cases, Naturals, Sequences, FiniteSets, SequencesExt, FiniteSetsExt

TBC == "to be confirmed"
Tbc(value) == IF value = None THEN TBC ELSE value

DefaultHumanSections == <<"word">>

Rstrip(text) == SubSeq(text, 1, Max({0} \cup {i \in DOMAIN text : text[i] # "blank"}))

SplitHumanSections(text) ==
  LET marks == {i \in DOMAIN text : text[i] = "begin"}
  IN Rstrip(IF marks = {} THEN text ELSE SubSeq(text, 1, Min(marks) - 1))

\* The template around the human sections; block stands for its contents.
Generate(existing) ==
  (IF existing = <<>> THEN DefaultHumanSections ELSE SplitHumanSections(existing))
    \o <<"blank", "begin", "block">>

-----------------------------------------------------------------------------
(* The machine block                                                       *)

TierRow(o) ==
  [tier |-> o.tier, minimum |-> Tbc(o.minimum),
   result |-> CASE o.passed = "yes" -> "pass" [] o.passed = "no" -> "FAIL"
                [] o.passed = "open" -> "pending"]

Limitations(outcomes) ==
  LET unsafe == {o \in outcomes : o.unsafe}
  IN IF unsafe = {} THEN {TBC} ELSE {o.tier : o \in unsafe}

AdjudicationBlock(verdict, decisions) ==
  CASE decisions # {} -> decisions
    [] decisions = {} /\ verdict = "pending_adjudication" -> {"PENDING human adjudication"}
    [] OTHER -> {"No adjudication required for this run."}

\* inputs: CardInputs, outcomes as the set of their rows
Block(inputs) ==
  [verdict |-> Tbc(inputs.verdict), mode |-> Tbc(inputs.mode), golden |-> Tbc(inputs.golden),
   rows |-> {TierRow(o) : o \in inputs.outcomes},
   grounding |-> Tbc(inputs.grounding),
   limitations |-> Limitations(inputs.outcomes),
   adjudication |-> AdjudicationBlock(inputs.verdict, inputs.decisions),
   missing |-> {f \in {"verdict", "mode", "golden"} : inputs[f] = None}]

GroundingOf(outcomes) ==
  LET last == {o \in outcomes : o.tier = "operational_safety"}
  IN IF last = {} THEN None ELSE (CHOOSE o \in last : TRUE).grounding

\* evaluate_version: the mode of the tier 1 job; a run that ended earlier has none
UpsertInputs(run) ==
  [verdict |-> run.verdict, golden |-> run.golden, outcomes |-> ToSet(run.outcomes),
   grounding |-> GroundingOf(ToSet(run.outcomes)), decisions |-> {},
   mode |-> IF run.outcomes = <<>> THEN None ELSE Head(run.outcomes).mode]

Latest(runs) == runs[Len(runs)]

\* mutant: the rows of every run of the version
RowsOfEveryRun(runs) == UNION {ToSet(runs[i].outcomes) : i \in DOMAIN runs}

StoredRows(runs) == ToSet(Latest(runs).outcomes)

\* The rows have no order; the first whose file is there names the mode.
RecoveredModes(outcomes) ==
  LET readable == {o \in outcomes : o.readable /\ o.mode # None}
  IN IF readable = {} THEN {None} ELSE {o.mode : o \in readable}

RegenerateInputs(runs, decision, mode) ==
  [verdict |-> Latest(runs).verdict, golden |-> Latest(runs).golden,
   outcomes |-> StoredRows(runs), grounding |-> GroundingOf(StoredRows(runs)),
   decisions |-> {decision}, mode |-> mode]

-----------------------------------------------------------------------------
\* "Human-owned qualitative sections are preserved" (generator.py:3-5, 60): any
\* number of regenerations keeps an author's text but its trailing blanks, with
\* one machine block below it, as long as the text itself holds no marker.
HumanTextKept ==
  (Is("text") /\ "begin" \notin ToSet(case.human)) =>
    LET once == Generate(case.human \o <<"begin", "block">>)
        twice == Generate(once)
    IN /\ SplitHumanSections(once) = Rstrip(case.human)
       /\ twice = once
       /\ Cardinality({i \in DOMAIN twice : twice[i] = "begin"}) = 1

\* The card a decision rebuilds from the stored rows says what the card of the
\* run itself said, the adjudication apart (orchestrator.py:660-662), and its
\* isolation mode is lost only when every evidence file is (698-709).
RegeneratedAgrees ==
  Is("card") =>
    \A mode \in RecoveredModes(StoredRows(case.runs)) :
      LET run == Latest(case.runs)
          written == Block(UpsertInputs(run))
          again == Block(RegenerateInputs(case.runs, "decision", mode))
      IN /\ \A f \in {"verdict", "golden", "rows", "grounding", "limitations"} :
              again[f] = written[f]
         /\ again.adjudication = {"decision"}
         /\ (\A i, j \in DOMAIN run.outcomes : run.outcomes[i].mode = run.outcomes[j].mode) =>
              again.mode = IF \E i \in DOMAIN run.outcomes : run.outcomes[i].readable
                           THEN written.mode ELSE TBC

\* The two authors of a card keep to their parts across regenerations.
CardKeepsItsWord == HumanTextKept /\ RegeneratedAgrees
=============================================================================
