\* The solver loads a study whose area a2, a managed reservoir with hard
\* bounds on rule curves, has a maximum rule curve of 50 (a percentage, as
\* spec.md expresses levels), then builds weeks.
CONSTANTS
  a1 = a1
  a2 = a2
  Absent = Absent
  Garbage = Garbage
  Areas <- MCAreas
  Top = 2
  LevelSteps = 3
  IniFiles <- MCIniFiles
  MatrixFiles <- MCPercentRuleCurveFiles
  StorageAreas = {}
  STSFiles <- MCSTSFiles
  InitialLevelDefault = 500

SPECIFICATION Spec

INVARIANT EnvelopeWithinReservoir

\* The solver stops when LoadFromFolder returns false.
CHECK_DEADLOCK FALSE
