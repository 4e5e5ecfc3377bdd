\* One thermal cluster through integrityCheck, the spinning, the
\* availability correction and the cost series, in every order.
\* Availability: one loaded value of one unit against a capacity of two
\* units (or a negative one) and a minimum stable power of three, so that
\* the correction lifts it; the spinning below range or at 50 percent;
\* up times of 0 and above 168, a down time of 168 (the whole week); the weekly
\* horizon of 168 hours. Costs: two availability series
\* against fuel and CO2 matrices of one or two columns, both cost modes.
SPECIFICATION Spec
CONSTANTS
  NbSeries = 2
  NbHours = 2
  NbYears = 1
  RawAvailabilities = {1}
  RawNominals <- MCRawNominals
  RawMinStables = {3}
  RawSpinnings <- MCRawSpinnings
  RawTimes = {0, 200}
  RawDownTimes = {168}
  OptimisationHorizon = 168
  CostModes = {"setManually", "useCostTimeseries"}
  FuelWidths = {1, 2}
  Co2Widths = {1, 2}
  CostValues = {1, 2}
  ModulationValues = {1}
  CapModValues = {0, 50, 150}
  RawUnitCounts = {1}
  NPOValues = {0, 1, 2}
  NbDays = 1
  CostMatrices <- MCCostMatrices
  SourceClusters <- MCSourceClusters
  NaN = NaN
  Inf = Inf
INVARIANT TypeOK
INVARIANT AvailabilityServable
INVARIANT OperatingCostIsModulatedMarginal
INVARIANT MinDivModulationFresh
INVARIANT NPOWithinUnitCount
INVARIANT MinDownTimeRowWellFormed
\* The loading sequence ends once every step has run.
CHECK_DEADLOCK FALSE
