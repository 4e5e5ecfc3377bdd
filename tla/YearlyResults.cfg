\* Three years run two at a time (the second set is partial), two hours a
\* year, one short-term storage; hourly energies 0 or 1, a water value of
\* 1, a marginal price of -1 (the solver's sign), pumping efficiency 1.
CONSTANTS
  NbYears = 3
  NbYearsParallel = 2
  NbHours = 2
  NbClusters = 1
  PumpRatio = 1
  Energies = {0, 1}
  WaterValues = {1}
  Prices <- MCPrices
  Transits = {0, 1}
SPECIFICATION Spec
INVARIANT TypeOK SummaryMatchesYears
\* The simulation ends once the last set is summarised.
CHECK_DEADLOCK FALSE
