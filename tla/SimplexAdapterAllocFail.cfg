\* Cold starts may get no instance back from SPX_Simplexe (allocation failure).
CONSTANTS
  i1 = i1
  i2 = i2
  i3 = i3
  i4 = i4
  i5 = i5
  i6 = i6
  NULL = NULL
  Problems <- MCProblems
  NbJoursDUnProbleme <- MCNbJoursDUnProbleme
  MonthLengths <- MCMonthLengths
  Instances <- MCInstances
  MaxCalls = 4
  AllocationMayFail = TRUE

SPECIFICATION Spec

INVARIANT NoDanglingInstance

CHECK_DEADLOCK FALSE
