SPECIFICATION EvidenceSpec
CONSTANTS
  Run = {r1, r2}
  Body = {b1}
  NoBody = NoBody
  MaxOutcomes = 2
SYMMETRY RunSymmetry
INVARIANTS EvidenceTypeOK CommittedKeepsEvidence FailureLeavesOnlyRefused
CHECK_DEADLOCK FALSE
