\* getMarketBidCost against the market bid of the drawn series at the hour,
\* two series (no more than the hours, since the code indexes an hourly
\* column by the series) against fuel and CO2 matrices of one or two
\* columns.
SPECIFICATION Spec
CONSTANTS
  NbSeries = 2
  NbHours = 2
  NbYears = 1
  RawAvailabilities = {1}
  RawNominals = {1}
  RawMinStables = {1}
  RawSpinnings = {0}
  RawTimes = {1}
  RawDownTimes = {1}
  OptimisationHorizon = 168
  CostModes = {"setManually", "useCostTimeseries"}
  FuelWidths = {1, 2}
  Co2Widths = {1, 2}
  CostValues = {1, 2}
  ModulationValues = {1, 2}
  CapModValues = {0, 50, 150}
  RawUnitCounts = {1}
  NPOValues = {0, 1, 2}
  NbDays = 1
  SourceClusters = {}
  NaN = NaN
  Inf = Inf

INVARIANT MarketBidUsesHourlyModulation
CHECK_DEADLOCK FALSE
