SPECIFICATION Spec
CONSTANTS
  MaxIssueExamples = 1
  NaN = NaN
  None = None
  Label <- MCLabels
  Invalid = Invalid
INVARIANTS AccountingIsExact OmissionNeverHelps RecallIsNotInflated OwnerIsMostConfident GroundingIsEvidence RegistrationIsSound ReadersAgree AdmittedRunsAsDeclared CardKeepsItsWord
CHECK_DEADLOCK FALSE
