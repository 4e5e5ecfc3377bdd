\* The adapter, its safety and liveness, and its contract: two problems, four calls, no allocation failure.
CONSTANTS
  i1 = i1
  i2 = i2
  i3 = i3
  i4 = i4
  i5 = i5
  i6 = i6
  NULL = NULL
  Problems <- MCProblems
  NbJoursDUnProbleme <- MCNbJoursDUnProbleme
  MonthLengths <- MCMonthLengths
  Instances <- MCInstances
  MaxCalls = 4
  AllocationMayFail = FALSE

SPECIFICATION Spec

INVARIANT TypeOK
INVARIANT NoDanglingInstance
INVARIANT AtMostOneColdRetry
PROPERTY CallReturns
PROPERTY ContractSpec

CHECK_DEADLOCK FALSE
