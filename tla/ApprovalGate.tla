---------------------------- MODULE ApprovalGate ----------------------------
(***************************************************************************)
(* What the gate promises about approvals (Constitution I), without        *)
(* workers, intents, golden sets or reviewers' requests: a version stands  *)
(* where its newest evidence or a recorded human decision put it.          *)
(*                                                                         *)
(* Evidence is judged once, when it is new.  If the judgement is a flag,   *)
(* the version leaves that standing in two ways only: a decision recorded  *)
(* on that very evidence, or a new evaluation.                             *)
(***************************************************************************)
CONSTANTS Version, NoEvidence

VARIABLES
  standing,    \* "open" while no judgement counts
  evidence,    \* the newest evidence of a version
  decisions    \* recorded decisions: [run, decision]

gate == <<standing, evidence, decisions>>

GateInit ==
  /\ standing = [v \in Version |-> "open"]
  /\ evidence = [v \in Version |-> NoEvidence]
  /\ decisions = {}

Stand(v, at) == standing' = [standing EXCEPT ![v] = at]

\* a new evaluation of v begins
Reopen(v) ==
  /\ standing[v] # "open"
  /\ Stand(v, "open")
  /\ UNCHANGED <<evidence, decisions>>

\* an evaluation of v ends with new evidence, on which nobody has decided
Judge(v) ==
  /\ standing[v] = "open"
  /\ \E at \in {"open", "passed", "failed", "flagged"} : Stand(v, at)
  /\ evidence'[v] # evidence[v]
  /\ \A w \in Version \ {v} : evidence'[w] = evidence[w]
  /\ \A d \in decisions : d.run # evidence'[v]
  /\ UNCHANGED decisions

\* a human decides on the evidence that flagged v
Decide(v) ==
  /\ standing[v] = "flagged"
  /\ \E decision \in {"approve", "reject", "request_changes"} :
       /\ decisions' = decisions \cup {[run |-> evidence[v], decision |-> decision]}
       /\ Stand(v, IF decision = "approve" THEN "granted" ELSE "denied")
  /\ UNCHANGED evidence

GateNext == \E v \in Version : Reopen(v) \/ Judge(v) \/ Decide(v)

GateSpec == GateInit /\ [][GateNext]_gate
=============================================================================
