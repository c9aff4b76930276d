CONSTANTS
  Days = {0, 1}
  MergeMins = {0, 3}
  MaxSeq = 5
SPECIFICATION Spec
INVARIANTS
  CurrentPlanExact
  TimeTravelExact
PROPERTIES
  OnlyExpiryOfRewrittenBreaks
