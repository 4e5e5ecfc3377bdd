\* Two areas, a year of 3 days (a 1-day month, then a 2-day month, the
\* year starting in the second calendar month), 2 hours a day, weeks of 2
\* days (the second one partial). The minimum-generation studies (one year,
\* every configuration of a1) and the effective-demand studies (two years,
\* every allocation) of MCHydroManagement.
CONSTANTS
  a1 = a1
  a2 = a2
  Areas <- MCAreas
  NbYears = 2
  MonthDays <- MCMonthDays
  RealMonthOf <- MCRealMonthOf
  WeekDays = 2
  HoursPerDay = 2
  Eps = 1
  Studies <- MCStudies
  Columns <- MCColumns
SPECIFICATION Spec
INVARIANT TypeOK MinGenCheckMatchesWindows EffectiveDemandClipped
\* The run ends after the last year or on the FatalError.
CHECK_DEADLOCK FALSE
