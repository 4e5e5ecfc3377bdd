\* Bounds of one area for a week of two days, a reservoir of capacity 3.
\* Turbine family: every loadable turbine setting, every leeway band,
\* target, generating capacity and modulation over {0,1,2}. Pumping
\* family: a managed reservoir with pumping, efficiencies, pumping
\* capacities and modulations over {0,1,2}. Every initial level and
\* rule-curve pair for both.
CONSTANTS
  NbDays = 2
  Capacity = 3
  Efficiencies = {0, 1, 2}
  Leeways = {0, 1, 2}
  TargetValues = {0, 1, 2}
  PowerValues = {0, 1, 2}
  PumpPowerValues = {0, 1, 2}
  ModulationValues = {0, 1, 2}
  InflowValues = {0, 1}
  MingenValues = {1}
  HoursPerDay = 2
  PumpModes = {FALSE, TRUE}
  Settings <- MCBothSettings
  WeekDataFor <- MCWeekDataFor

SPECIFICATION Spec

INVARIANT TypeOK
INVARIANT WeekBoundsRespectReservoir
INVARIANT TurbineBoundsFreshWhenUsed

\* The run builds one week and stops there (see BuildWeek).
CHECK_DEADLOCK FALSE
