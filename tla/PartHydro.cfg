\* The hydro data of two areas, loaded by the solver (then weeks read at
\* levels 0, 1/3, 2/3, 1 of the capacity) or by the GUI (then reset,
\* copyFrom, SaveToFolder and reloads), from every file set MCPartHydro
\* lists, with and without hydro.ini, and with each section of a2's
\* short-term storage.
CONSTANTS
  a1 = a1
  a2 = a2
  Absent = Absent
  Garbage = Garbage
  Areas <- MCAreas
  Top = 2
  LevelSteps = 3
  IniFiles <- MCIniFiles
  MatrixFiles <- MCMatrixFiles
  StorageAreas <- MCStorageAreas
  STSFiles <- MCSTSFiles
  InitialLevelDefault = 500    \* initiallevelDefault (properties.h), any value in [0, 1]

SPECIFICATION Spec

INVARIANT TypeOK
INVARIANT InterpolationMatchesReference
INVARIANT RandomLevelShapesValid

\* The solver stops when LoadFromFolder returns false: the study is not
\* simulated.
CHECK_DEADLOCK FALSE
