\* The leeway band against the daily generating capacity, on the turbine
\* instance: the band is clipped by strict comparisons only.
CONSTANTS
  NbDays = 2
  Capacity = 2
  Efficiencies = {1}
  Leeways = {0, 1, 2}
  TargetValues = {0, 1, 2}
  PowerValues = {0, 1, 2}
  PumpPowerValues = {1}
  ModulationValues = {0, 1, 2}
  InflowValues = {0, 1}
  MingenValues = {1}
  HoursPerDay = 2
  PumpModes = {FALSE}
  Settings <- MCTurbineSettings

SPECIFICATION Spec

INVARIANT TurbineWithinDailyCapacity


\* The run builds one week and stops there (see BuildWeek).
CHECK_DEADLOCK FALSE
