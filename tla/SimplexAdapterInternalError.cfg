\* Solver statuses as in the passing run; the retry may end in an internal error.
CONSTANTS
  i1 = i1
  i2 = i2
  i3 = i3
  i4 = i4
  i5 = i5
  i6 = i6
  NULL = NULL
  Problems <- MCProblems
  NbJoursDUnProbleme <- MCNbJoursDUnProbleme
  MonthLengths <- MCMonthLengths
  Instances <- MCInstances
  MaxCalls = 4
  AllocationMayFail = FALSE

SPECIFICATION Spec

INVARIANT InternalErrorIsFatal


CHECK_DEADLOCK FALSE
