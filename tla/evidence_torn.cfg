SPECIFICATION EvidenceSpec
CONSTANTS
  Run = {r1, r2}
  Body = {b1}
  NoBody = NoBody
  MaxOutcomes = 1
SYMMETRY RunSymmetry
INVARIANTS ReferencedIsWhole
CHECK_DEADLOCK FALSE
