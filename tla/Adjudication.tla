---------------------------- MODULE Adjudication ----------------------------
(***************************************************************************)
(* Human decisions on flagged versions (backend/app/api/adjudication.py    *)
(* and apply_adjudication), beside the evaluations of module Evaluation.   *)
(*                                                                         *)
(* A decision request reads the run, the version's status, the latest run  *)
(* and the tier results in one place and writes the record and the status  *)
(* in another; nothing locks the version in between.  What the write meets *)
(* is the unique constraint on AdjudicationRecord.run_id, and nothing that *)
(* compares the status with the one read.                                  *)
(*                                                                         *)
(* Requests that are refused with 404 or 409 before they write change      *)
(* nothing and are left out.                                               *)
(***************************************************************************)
EXTENDS Evaluation

CONSTANTS
  Reviewer,   \* verified principals with the adjudicator role
  Decisions   \* bound: decisions a reviewer may take

ASSUME AdjudicationAssumption ==
  Decisions \subseteq {"approve", "reject", "request_changes"}

VARIABLES
  lineage,    \* runs with a TierResult for every tier
  requests,   \* decision requests between their reads and their commit
  records     \* the AdjudicationRecord table

reviewVars == <<lineage, requests, records>>
gateVars == <<allVars, reviewVars>>

AdjudicationRecord == [run : runs, decision : Decisions]

AdjudicationTypeOK ==
  /\ EvaluationTypeOK
  /\ lineage \subseteq runs
  /\ requests \subseteq
       [reviewer : Reviewer, run : runs, decision : Decisions, asOf : Nat]
  /\ \A p, q \in requests : p.reviewer = q.reviewer => p = q
  /\ records \subseteq AdjudicationRecord

AdjudicationInit ==
  /\ EvaluationInit
  /\ lineage = {}
  /\ requests = {}
  /\ records = {}

CaseOf(r) == VersionOf(r.intent)

Recorded(r) == \E a \in records : a.run = r

\* apply_adjudication: request_changes rejects, a corrected model is a new version
ApplyAdjudication(decision) ==
  IF decision = "approve" THEN "approved" ELSE "rejected"

\* mutant: an older run of the case may be decided
ReviewableThoughSuperseded(r) ==
  /\ r.outcome = "pending_adjudication"
  /\ status[CaseOf(r)] = "pending_adjudication"

\* the checks of decide on the run it is asked to decide
Reviewable(r) ==
  /\ r.outcome = "pending_adjudication"
  /\ status[CaseOf(r)] = "pending_adjudication"
  /\ IsLatestRun(r)

\* mutant: a halted run may be approved
MayDecideWithoutLineage(r, decision) == TRUE

\* approval needs results of every tier
MayDecide(r, decision) == decision = "approve" => r \in lineage

Review(p, r, decision) ==
  /\ \A q \in requests : q.reviewer # p
  /\ Reviewable(r)
  /\ MayDecide(r, decision)
  /\ requests' = requests \cup {[reviewer |-> p, run |-> r, decision |-> decision,
                                 asOf |-> starts[CaseOf(r)]]}
  /\ UNCHANGED <<allVars, lineage, records>>

\* an evaluation of the case has begun since the request read it
Late(q) == starts[CaseOf(q.run)] # q.asOf

\* mutant: no unique constraint on run_id
DecideTwice(q) ==
  /\ IF Late(q) THEN Fault("late_decision") ELSE NoFault
  /\ records' = records \cup {[run |-> q.run, decision |-> q.decision]}
  /\ SetStatus(CaseOf(q.run), ApplyAdjudication(q.decision))
  /\ requests' = requests \ {q}
  /\ UNCHANGED <<intentVars, queue, dispatcherVars, workerVars, golden, runs, starts,
                 claims, claimedAt, apiVars, runVars, outlives, lineage>>

\* the flush and commit of decide: record, status and card together
Decide(q) ==
  /\ ~Recorded(q.run)
  /\ IF Late(q) THEN Fault("late_decision") ELSE NoFault
  /\ records' = records \cup {[run |-> q.run, decision |-> q.decision]}
  /\ SetStatus(CaseOf(q.run), ApplyAdjudication(q.decision))
  /\ requests' = requests \ {q}
  /\ UNCHANGED <<intentVars, queue, dispatcherVars, workerVars, golden, runs, starts,
                 claims, claimedAt, apiVars, runVars, outlives, lineage>>

\* mutant: the refused request stays open
DecisionRefusedButKept(q) ==
  /\ requests' = (requests \ {q}) \cup {[q EXCEPT !.asOf = @ + 1], q}
  /\ UNCHANGED <<allVars, lineage, records>>

\* IntegrityError (another reviewer was first), or a failing card or commit
DecisionRefused(q) ==
  /\ requests' = requests \ {q}
  /\ UNCHANGED <<allVars, lineage, records>>

\* the tiers a new run has results for: a pass has them all, a flagged run may
\* have been halted, and no golden set means Tier 1 only
RecordLineage ==
  \E full \in SUBSET (runs' \ runs) :
    /\ \A r \in runs' \ runs :
         /\ r.outcome = "pass" => r \in full
         /\ r \in full => r.golden # 0 /\ r.outcome # "infra"
    /\ lineage' = lineage \cup full

AdjudicationNext ==
  \/ EvaluationNext /\ RecordLineage /\ UNCHANGED <<requests, records>>
  \/ \E p \in Reviewer, r \in runs, decision \in Decisions : Review(p, r, decision)
  \/ \E q \in requests : Decide(q) \/ DecisionRefused(q)

AdjudicationSpec == AdjudicationInit /\ [][AdjudicationNext]_gateVars
-----------------------------------------------------------------------------
(* Properties *)

\* what run r, and the decision on it if there is one, make of its version
Standing(r) ==
  IF Recorded(r)
  THEN {ApplyAdjudication(a.decision) : a \in {b \in records : b.run = r}}
  ELSE {StatusForVerdict[r.outcome]}

\* Constitution I: a version stands where its newest run, or the reviewer's
\* decision on that very run, put it, and an approved one has results of every
\* tier. No order of runs, decisions, failures and re-evaluations approves a
\* flagged version without a decision on its current evidence
\* (state_machine.py: "the ONLY edge into `approved` from a flagged run passes
\* through an AdjudicationRecord with decision=approve").
StatusIsAccounted ==
  \A v \in Version : status[v] \in Decided =>
    \E r \in RunsOn(v) :
      /\ IsLatestRun(r) /\ r.outcome # "infra"
      /\ status[v] \in Standing(r)
      /\ status[v] = "approved" => r \in lineage

\* Two reviewers who both passed the status check never both decide
\* (AdjudicationRecord: "exactly ONE permanent decision per run").
OneDecisionPerRun ==
  \A a, b \in records : a.run = b.run => a = b

NewestRun(v) == CHOOSE r \in RunsOn(v) : IsLatestRun(r)
NoRun == [intent |-> NoIntent]
EvidenceOf(v) == IF RunsOn(v) = {} THEN NoRun ELSE NewestRun(v)

StandingOf(v) ==
  CASE status[v] = "pending_adjudication" -> "flagged"
    [] status[v] = "approved" -> IF Recorded(EvidenceOf(v)) THEN "granted" ELSE "passed"
    [] status[v] = "rejected" -> IF Recorded(EvidenceOf(v)) THEN "denied" ELSE "failed"
    [] OTHER -> "open"

Gate == INSTANCE ApprovalGate WITH
  NoEvidence <- NoRun,
  standing <- [v \in Version |-> StandingOf(v)],
  evidence <- [v \in Version |-> EvidenceOf(v)],
  decisions <- records

\* Whatever workers, reviewers and the dispatcher do between the reads and the
\* writes of a decision, each step is one the gate allows: a flagged version is
\* approved by a decision recorded on its newest run and by nothing else
\* (adjudication.py: "decisions must never be recorded against stale evidence";
\* apply_adjudication: "requires status=pending_adjudication").
ImplementsGate == Gate!GateSpec
=============================================================================
