\* One thread, three years of three weeks of two days of two hours, hot
\* start on, four binding constraints whose group draws a column per year.
\* Four studies whose adequacy patch sections the check accepts or refuses.
CONSTANTS
  NbYears = 3
  NbWeeks = 3
  Capacity = 2
  InitialLevels = {0, 2}
  HotStart = TRUE
  DaysPerWeek = 2
  HoursPerDay = 2
  bcHourly = bcHourly
  bcDaily = bcDaily
  bcWeekly = bcWeekly
  bcWeeklyAlone = bcWeeklyAlone
  g1 = g1
  NoGroup = NoGroup
  BindingConstraints <- MCBindingConstraints
  BCType <- MCBCType
  BCGroup <- MCBCGroup
  RHSWidth <- MCRHSWidth
  RHS <- MCRHS
  Studies <- MCStudies
  lnk1 = lnk1
  lnk2 = lnk2
  Links = {lnk1, lnk2}
  UseHurdlesCost <- MCUseHurdlesCost
  UseLoopFlow <- MCUseLoopFlow
  HurdlesCost <- MCHurdlesCost
  Garbage = Garbage
  LocalMatchingEnabledDefault = TRUE
  defaultThresholdToRunCurtailmentSharing = 0
  defaultThresholdDisplayLocalMatchingRuleViolations = 0
  defaultValueThresholdVarBoundsRelaxation = 3
SPECIFICATION Spec
INVARIANT TypeOK PostProcessUsesCurrentLevels BindingRHSOfWeek
INVARIANT HurdleCostsOfWeekCopied
INVARIANT AdqPatchSaveLoadRoundTrip
\* The run ends when the last year is done or on a FatalError.
CHECK_DEADLOCK FALSE
