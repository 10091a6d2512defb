SPECIFICATION Spec
CONSTANTS
  MaxLevel = 2
  Cells = 4
  Inputs <- MCInputs
INVARIANTS
  PlanValid
  PlanExact
  SamplesEnclosed
