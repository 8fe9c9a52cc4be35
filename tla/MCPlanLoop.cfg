\* One entry, and one that cannot be read, are named by the caller; every limit on and off.
SPECIFICATION PlanSpec
CONSTANTS
  None = None
  Inputs <- MCInputs
  Policies <- MCPolicies
  Now = 2
  Dates = {2, 3}
  Protected = {2, 4}
INVARIANTS
  LoopsComputePlan
  PlanSound
CHECK_DEADLOCK FALSE
