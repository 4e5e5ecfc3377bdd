----------------------------- MODULE PartHydro -----------------------------
(***************************************************************************)
(* The hydro data of the areas (libs/antares/study/parts/hydro/            *)
(* container.cpp): the settings of hydro.ini and the per-area matrices,    *)
(* their life cycle (constructor, reset, LoadFromFolder, SaveToFolder,     *)
(* copyFrom), and the reading of the level-indexed tables at the start of *)
(* a week (getWeeklyModulation, getWaterValue, called by                   *)
(* SIM_RenseignementProblemeHebdo).                                        *)
(*                                                                         *)
(* LoadFromFolder and SaveToFolder run on one thread without interruption *)
(* and are one action each. The files on disk are a variable: the solver  *)
(* loads them once; the GUI loads, edits (reset, copyFrom), saves and     *)
(* reloads them.                                                          *)
(*                                                                         *)
(* The study loader and the GUI's save (not under src) handle the short-   *)
(* term storages of the areas in the same pass: each storage's section of  *)
(* list.ini is read by Properties::loadKey and validated, or written by    *)
(* saveToFolder (module STStorageProperties). The first week of the solver *)
(* imports them into the weekly problem (importShortTermStorages).        *)
(*                                                                         *)
(* Numbers: the ini values are integers; reservoirCapacity is a rational  *)
(* [num, den], so that the thresholds 1e-6 and 1e-3 of the loader are     *)
(* exact. Matrix entries are in thousandths: SaveToFolder writes some     *)
(* matrices with 3 decimals, exactly, and the others with 2, rounded.     *)
(***************************************************************************)
EXTENDS Integers, STStorageProperties

CONSTANTS
  Areas,
  Top,              \* last row of creditModulation and waterValues (100 in the code)
  LevelSteps,       \* a week starts at a level k / LevelSteps of the capacity
  IniFiles,         \* the contents hydro.ini may have: ini[f][a], an entry or Absent
  MatrixFiles,      \* the contents the matrix files may have: m[a], per area
  StorageAreas,     \* the areas with one short-term storage
  STSFiles          \* the sections list.ini may have for a storage: <<key, value>> entries

Rows == 0..Top

\* The settings of an area, with the section of hydro.ini each one is
\* read from, in the order LoadFromFolder reads them.
DoubleFields == {"interDailyBreakdown",         \* inter-daily-breakdown
                 "intraDailyModulation",        \* intra-daily-modulation
                 "intermonthlyBreakdown",       \* inter-monthly-breakdown
                 "initializeReservoirLevelDate",\* initialize reservoir date (int)
                 "leewayLowerBound",            \* leeway low
                 "leewayUpperBound",            \* leeway up
                 "pumpingEfficiency"}           \* pumping efficiency
BoolFields == {"reservoirManagement",           \* reservoir
               "followLoadModulations",         \* follow load
               "useWaterValue",                 \* use water
               "hardBoundsOnRuleCurves",        \* hard bounds
               "useHeuristicTarget",            \* use heuristic
               "powerToLevel",                  \* power to level
               "useLeeway"}                     \* use leeway
Fields == DoubleFields \cup BoolFields \cup {"reservoirCapacity"}  \* reservoir capacity

\* reservoirCapacity is a rational [num, den] (den > 0), compared exactly
\* with the thresholds n / d of the loader and of SaveToFolder.
Rat(n, d) == [num |-> n, den |-> d]
Below(c, n, d) == c.num * d < n * c.den
Above(c, n, d) == c.num * d > n * c.den

\* Matrix entries are in thousandths. One day is kept: maxPower
\* [genMaxP, genMaxE, pumpMaxP, pumpMaxE], the inflow pattern, the rule
\* curves [minimum, average, maximum] and the day's water values; the
\* credit modulations have a generating and a pumping column.
PowerCols == 0..3
Milli == 1000

\* The settings PartHydro() sets.
ConstructorSettings ==
  [f \in Fields |->
     CASE f = "interDailyBreakdown" -> 0
       [] f = "intraDailyModulation" -> 2
       [] f = "intermonthlyBreakdown" -> 0
       [] f = "reservoirCapacity" -> Rat(0, 1)
       [] f = "initializeReservoirLevelDate" -> 0
       [] f \in {"leewayLowerBound", "leewayUpperBound", "pumpingEfficiency"} -> 1
       [] f \in {"followLoadModulations", "useHeuristicTarget"} -> TRUE
       [] OTHER -> FALSE]

\* The defaults LoadFromFolder sets for every area before reading hydro.ini;
\* reset() sets the same ones except pumpingEfficiency, which it leaves.
LoaderDefaults ==
  [ConstructorSettings EXCEPT !["interDailyBreakdown"] = 1,
                              !["intraDailyModulation"] = 24,
                              !["intermonthlyBreakdown"] = 1]
ResetSettings(h) == [LoaderDefaults EXCEPT !["pumpingEfficiency"] = h["pumpingEfficiency"]]

\* The matrices reset() fills.
ResetMatrices ==
  [maxPower |-> [c \in PowerCols |-> IF c % 2 = 1 THEN 24 * Milli ELSE 0],
   inflowPattern |-> Milli,
   reservoirLevel |-> [minimum |-> 0, average |-> Milli \div 2, maximum |-> Milli],
   waterValues |-> [r \in Rows |-> 0],
   creditModulation |-> [r \in Rows |-> [gen |-> Milli, pump |-> Milli]]]

\* An ini value that does not parse: to<T> returns false; the field keeps
\* its value or is set to zero, depending on the conversion.
Zero(f) == CASE f \in BoolFields -> FALSE
             [] f = "reservoirCapacity" -> Rat(0, 1)
             [] OTHER -> 0

\* Mutant: the intra-daily modulation is not truncated to 1.
CorrectNoIntraClamp(f, v) ==
  CASE f = "reservoirCapacity" -> IF Below(v, 1, 1000000) THEN Rat(0, 1) ELSE v
    [] f \in {"intermonthlyBreakdown", "initializeReservoirLevelDate", "leewayLowerBound",
              "leewayUpperBound", "pumpingEfficiency"} -> IF v < 0 THEN 0 ELSE v
    [] OTHER -> v

\* The correction LoadFromFolder applies right after reading field f.
Correct(f, v) ==
  CASE f = "intraDailyModulation" -> IF v < 1 THEN 1 ELSE v
    [] f = "reservoirCapacity" -> IF Below(v, 1, 1000000) THEN Rat(0, 1) ELSE v
    [] f \in {"intermonthlyBreakdown", "initializeReservoirLevelDate", "leewayLowerBound",
              "leewayUpperBound", "pumpingEfficiency"} -> IF v < 0 THEN 0 ELSE v
    [] OTHER -> v

\* The entries of the ini file that do not parse.
GarbageCells(d) == {<<a, f>> \in Areas \X Fields : d.ini[f][a] = Garbage}

\* The settings of every area once the sections of hydro.ini are read:
\* the loader's defaults, overwritten by the entries present, each
\* corrected; keep[<<a, f>>] says what a failed conversion leaves.
LoadedSettings(d, keep) ==
  [a \in Areas |->
     [f \in Fields |->
        LET e == d.ini[f][a]
        IN CASE e = Absent -> LoaderDefaults[f]
             [] e = Garbage -> Correct(f, IF keep[<<a, f>>] THEN LoaderDefaults[f] ELSE Zero(f))
             [] OTHER -> Correct(f, e)]]

\* The checks of the matrices of an area, done when usedByTheSolver:
\* inflows, rule curves (compared with 100), powers and energies (hours
\* columns at most 24), credit modulations.
MatricesValid(m) ==
  /\ m.inflowPattern >= 0
  /\ LET lv == m.reservoirLevel
     IN ~(lv.minimum < 0 \/ lv.average < 0 \/ lv.minimum > lv.maximum
          \/ lv.average > 100 * Milli \/ lv.maximum > 100 * Milli)
  /\ \A c \in PowerCols : ~(m.maxPower[c] < 0 \/ (c % 2 = 1 /\ m.maxPower[c] > 24 * Milli))
  /\ \A r \in Rows : m.creditModulation[r].gen >= 0 /\ m.creditModulation[r].pump >= 0

\* After "reservoir capacity": a managed reservoir needs a capacity of at
\* least 1e-3 (the builder divides by it).
CapacityCheck(h) ==
  \A a \in Areas : ~(Below(h[a]["reservoirCapacity"], 1, 1000) /\ h[a]["reservoirManagement"])

\* At the end: "use water value = no" conflicts with "use heuristic = no".
HeuristicCheck(h) ==
  \A a \in Areas : h[a]["useHeuristicTarget"] \/ h[a]["useWaterValue"]

\* The value LoadFromFolder returns: every matrix check (solver only),
\* hydro.ini opened (else it returns false at once), every conversion, the
\* capacity check and the heuristic check.
LoaderRet(solver, d, h) ==
  /\ solver => \A a \in Areas : MatricesValid(d.mats[a])
  /\ d.iniPresent
  /\ GarbageCells(d) = {}
  /\ CapacityCheck(h)
  /\ HeuristicCheck(h)

\* SaveToFolder's ini entries: the breakdowns, date, leeways and efficiency
\* always; the capacity when above 1e-6; a flag only when it differs from
\* the loader's default.
SavedEntry(f, v) ==
  CASE f = "reservoirCapacity" -> IF Above(v, 1, 1000000) THEN v ELSE Absent
    [] f \in {"followLoadModulations", "useHeuristicTarget"} -> IF ~v THEN FALSE ELSE Absent
    [] f \in BoolFields -> IF v THEN TRUE ELSE Absent
    [] OTHER -> v

\* saveToCSVFile with 2 decimals, on thousandths (nearest, ties away from 0).
Round2(v) == IF v >= 0 THEN ((v + 5) \div 10) * 10 ELSE -(((-v + 5) \div 10) * 10)

\* The matrices as SaveToFolder writes them: maxPower, creditModulation and
\* waterValues with 2 decimals, inflowPattern and reservoirLevel with 3.
SavedMatrices(m) ==
  [m EXCEPT !.maxPower = [c \in PowerCols |-> Round2(m.maxPower[c])],
            !.waterValues = [r \in Rows |-> Round2(m.waterValues[r])],
            !.creditModulation = [r \in Rows |-> [gen |-> Round2(m.creditModulation[r].gen),
                                                  pump |-> Round2(m.creditModulation[r].pump)]]]

-----------------------------------------------------------------------------
(* getWaterValue and getWeeklyModulation, called by the builder at the   *)
(* level previousSimulationFinalLevel * 100 / reservoirCapacity. A level  *)
(* k / LevelSteps of the capacity is the percentage k * Top / LevelSteps   *)
(* (Top = 100), and every interpolated value is kept times LevelSteps,    *)
(* which makes the computation exact.                                     *)

\* ceil and floor of the level in percent.
LevelDown(k) == (k * Top) \div LevelSteps
LevelUp(k) == IF (k * Top) % LevelSteps = 0 THEN LevelDown(k) ELSE LevelDown(k) + 1

\* Mutant: the short-cut for an integer level is missing.
GetWaterValueNoShortcut(t, k) ==
  t[LevelUp(k)] * (k * Top - LevelDown(k) * LevelSteps)
  + t[LevelDown(k)] * (LevelUp(k) * LevelSteps - k * Top)

\* getWaterValue: value(levelUp) * (level - levelDown)
\* + value(levelDown) * (levelUp - level), or the entry at an integer level.
GetWaterValue(t, k) ==
  IF LevelUp(k) = LevelDown(k)
  THEN t[LevelUp(k)] * LevelSteps
  ELSE t[LevelUp(k)] * (k * Top - LevelDown(k) * LevelSteps)
       + t[LevelDown(k)] * (LevelUp(k) * LevelSteps - k * Top)

\* getWeeklyModulation, the same interpolation on a column of creditMod.
GetWeeklyModulation(t, k) ==
  IF LevelUp(k) = LevelDown(k)
  THEN t[LevelUp(k)] * LevelSteps
  ELSE t[LevelUp(k)] * (k * Top - LevelDown(k) * LevelSteps)
       + t[LevelDown(k)] * (LevelUp(k) * LevelSteps - k * Top)

(* The hourly level envelope of a week, NiveauHoraireInf and               *)
(* NiveauHoraireSup, as rationals. The model's rule curves are the same    *)
(* every day, so the interpolation between two days is constant.           *)

\* SIM_InitialisationProblemeHebdo: [0, capacity].
DefaultEnvelope(cap) == [inf |-> Rat(0, 1), sup |-> cap]

\* With hard bounds on rule curves: minLvl and maxLvl times TailleReservoir.
RuleCurveEnvelope(m, cap) ==
  [inf |-> Rat(m.reservoirLevel.minimum * cap.num, Milli * cap.den),
   sup |-> Rat(m.reservoirLevel.maximum * cap.num, Milli * cap.den)]

\* The areas whose week may be built with hard bounds: a managed reservoir
\* with hardBoundsOnRuleCurves. Whether it is also depends on SuiviNiveauHoraire
\* (weekly optimisation, accurate water values, pumping) and on the
\* scratchpad's hydroHasMod, which the study parameters and series decide.
HardBoundsPossible(h) == h["reservoirManagement"] /\ h["hardBoundsOnRuleCurves"]

(* The draw of a reservoir's initial level from its rule curves            *)
(* (randomReservoirLevel, hydro/management/management.cpp), in exact        *)
(* rationals reduced to lowest terms. A division by zero gives [1, 0], the  *)
(* +inf of IEEE (its numerator is positive where it happens), which QLess   *)
(* orders above every number. Math::Equals compares levels given in         *)
(* thousandths, so it is equality; Math::Min(a, b) is a < b ? a : b.        *)

RECURSIVE GCD(_, _)
GCD(x, y) == IF y = 0 THEN x ELSE GCD(y, x % y)
QAbs(x) == IF x < 0 THEN -x ELSE x
Q(n, d) == LET g == GCD(QAbs(n), QAbs(d))
               s == IF d < 0 THEN -1 ELSE 1
           IN Rat((s * n) \div g, (s * d) \div g)
QAdd(x, y) == Q(x.num * y.den + y.num * x.den, x.den * y.den)
QSub(x, y) == Q(x.num * y.den - y.num * x.den, x.den * y.den)
QMul(x, y) == Q(x.num * y.num, x.den * y.den)
QDiv(x, y) == Q(x.num * y.den, x.den * y.num)
QLess(x, y) == x.num * y.den < y.num * x.den
QMin(x, y) == IF QLess(x, y) THEN x ELSE y

\* Mutant: v is the smaller of v1 and v2, without the factor .5.
BetaShapesNoHalf(min, avg, max) ==
  IF min = max \/ avg = min \/ avg = max THEN [early |-> TRUE]
  ELSE LET one == Rat(1, 1)
           e == Q(avg - min, max - min)
           re == QSub(one, e)
           v1 == QDiv(QMul(QMul(e, e), re), QAdd(one, e))
           v2 == QDiv(QMul(QMul(e, re), re), QSub(Rat(2, 1), e))
           v == QMin(v1, v2)
           k == QSub(QDiv(QMul(e, re), v), one)
       IN [early |-> FALSE, a |-> QMul(e, k), b |-> QMul(re, k)]

\* randomReservoirLevel up to the draw: the average itself when the curves
\* meet (min = max, or the average on a bound), else the shapes a and b
\* of the Beta variable x, whose level is x * max + (1 - x) * min.
BetaShapes(min, avg, max) ==
  IF min = max \/ avg = min \/ avg = max THEN [early |-> TRUE]
  ELSE LET one == Rat(1, 1)
           e == Q(avg - min, max - min)
           re == QSub(one, e)
           v1 == QDiv(QMul(QMul(e, e), re), QAdd(one, e))
           v2 == QDiv(QMul(QMul(e, re), re), QSub(Rat(2, 1), e))
           v == QMul(QMin(v1, v2), Rat(1, 2))
           k == QSub(QDiv(QMul(e, re), v), one)
       IN [early |-> FALSE, a |-> QMul(e, k), b |-> QMul(re, k)]

\* GammaVariable(r) asserts w * (r - 0.25) > 0 with w = u(1 - u) > 0,
\* s = r - 1 not 0, and z / s > 0 with z > 0, and takes log(x / s): its
\* rejection loop is sound for r > 1 only. The draw itself is not modelled.
GammaShapeValid(r) == QLess(Rat(1, 1), r)

\* BetaVariable(a, b): GammaVariable(a), then GammaVariable(b).
BetaShapesValid(s) == GammaShapeValid(s.a) /\ GammaShapeValid(s.b)

-----------------------------------------------------------------------------
VARIABLES
  usedByTheSolver,  \* study.usedByTheSolver: the solver, or the GUI
  hydro,            \* hydro[a]: the settings of area a
  mats,             \* mats[a]: the matrices of area a
  hydroModulable,   \* hydro[a].hydroModulable
  disk,             \* hydro.ini (iniPresent, ini[f][a]) and the matrix files
  ret,              \* what the last LoadFromFolder returned
  lastOp,           \* the last operation: "init", "load", "save", "edit", "week"
  snapshot,         \* what the last SaveToFolder wrote, until the next edit
  level,            \* previousSimulationFinalLevel[a], in steps of the capacity
  generatingModulation, \* WeeklyGeneratingModulation, times LevelSteps
  pumpingModulation,    \* WeeklyPumpingModulation, times LevelSteps
  waterValue,           \* WeeklyWaterValueStateRegular, times LevelSteps
  hourlyBounds,         \* the week of area a is built with hard bounds
  envelope,             \* [inf, sup]: NiveauHoraireInf, NiveauHoraireSup
  sts,                  \* sts[a]: the Properties of area a's storage
  stsImported           \* sts[a] as importShortTermStorages copied it, or "none"

weekVars == <<level, generatingModulation, pumpingModulation, waterValue, hourlyBounds, envelope>>
stsVars == <<sts, stsImported>>
vars == <<usedByTheSolver, hydro, mats, hydroModulable, disk, ret, lastOp, snapshot, weekVars,
          stsVars>>

NoSnapshot == [none |-> TRUE]

\* The files of a study, with or without hydro.ini.
Disks == [iniPresent : BOOLEAN, ini : IniFiles, mats : MatrixFiles,
          sts : [StorageAreas -> STSFiles]]

\* The storages read from the disk: each section loaded key by key, then
\* validated. The loader either goes on past a key loadKey refused (it
\* warns) or fails the load (strict); which one is not under src.
LoadStorages(d) == [a \in StorageAreas |-> LoadSection(d.sts[a])]
StoragesRet(loads, strict) ==
  \A a \in StorageAreas : validate(loads[a].pr).ok /\ (strict => loads[a].ok)

\* The areas are built (PartHydro(), the matrices as reset() fills them);
\* the study on disk is not read yet.
Init ==
  /\ usedByTheSolver \in BOOLEAN
  /\ hydro = [a \in Areas |-> ConstructorSettings]
  /\ mats = [a \in Areas |-> ResetMatrices]
  /\ hydroModulable = [a \in Areas |-> FALSE]
  /\ disk \in Disks
  /\ ret = TRUE
  /\ lastOp = "init"
  /\ snapshot = NoSnapshot
  /\ level = [a \in Areas |-> 0]
  /\ generatingModulation = [a \in Areas |-> 0]
  /\ pumpingModulation = [a \in Areas |-> 0]
  /\ waterValue = [a \in Areas |-> 0]
  /\ hourlyBounds = [a \in Areas |-> FALSE]
  /\ envelope = [a \in Areas |-> DefaultEnvelope(Rat(0, 1))]
  /\ sts = [a \in StorageAreas |-> STSDefaults]
  /\ stsImported = [a \in StorageAreas |-> "none"]

\* LoadFromFolder: the matrices of every area (checked by the solver; the
\* GUI notes whether the area is hydro modulable), then hydro.ini if it
\* opens, section by section, with the checks in between. The solver loads
\* the study once; the GUI loads it, and reloads it after a save.
LoadFromFolder ==
  /\ usedByTheSolver => lastOp = "init"
  /\ ~usedByTheSolver => lastOp \in {"init", "save"}
  /\ \E keep \in [GarbageCells(disk) -> BOOLEAN] :
       LET h == IF disk.iniPresent THEN LoadedSettings(disk, keep)
                ELSE [a \in Areas |-> LoaderDefaults]
           loads == LoadStorages(disk)
       IN /\ hydro' = h
          /\ sts' = [a \in StorageAreas |-> validate(loads[a].pr).pr]
          /\ \E strict \in BOOLEAN :
               ret' = (LoaderRet(usedByTheSolver, disk, h) /\ StoragesRet(loads, strict))
  /\ mats' = disk.mats
  /\ hydroModulable' = IF usedByTheSolver THEN hydroModulable
                       ELSE [a \in Areas |-> hydroModulable[a] \/ disk.mats[a].maxPower[0] > 0]
  /\ lastOp' = "load"
  /\ UNCHANGED <<usedByTheSolver, disk, snapshot, weekVars, stsImported>>

\* SaveToFolder (GUI): hydro.ini rewritten from the settings, every matrix
\* file rewritten.
SaveToFolder ==
  /\ ~usedByTheSolver /\ lastOp # "init"
  /\ disk' = [iniPresent |-> TRUE,
              ini |-> [f \in Fields |-> [a \in Areas |-> SavedEntry(f, hydro[a][f])]],
              mats |-> [a \in Areas |-> SavedMatrices(mats[a])],
              sts |-> [a \in StorageAreas |-> saveToFolder(sts[a])]]
  /\ snapshot' = [hydro |-> hydro, mats |-> [a \in Areas |-> SavedMatrices(mats[a])], sts |-> sts]
  /\ lastOp' = "save"
  /\ UNCHANGED <<usedByTheSolver, hydro, mats, hydroModulable, ret, weekVars, stsVars>>

\* reset() of one area (GUI): settings and matrices to their defaults;
\* pumpingEfficiency and hydroModulable are left as they are.
reset ==
  /\ ~usedByTheSolver /\ lastOp # "init"
  /\ \E a \in Areas :
       /\ hydro' = [hydro EXCEPT ![a] = ResetSettings(@)]
       /\ mats' = [mats EXCEPT ![a] = ResetMatrices]
  /\ snapshot' = NoSnapshot
  /\ lastOp' = "edit"
  /\ UNCHANGED <<usedByTheSolver, hydroModulable, disk, ret, weekVars, stsVars>>

\* copyFrom (GUI): area b takes the matrices and the settings of area a;
\* hydroModulable is not copied.
copyFrom ==
  /\ ~usedByTheSolver /\ lastOp # "init"
  /\ \E a, b \in Areas :
       /\ a # b
       /\ hydro' = [hydro EXCEPT ![b] = hydro[a]]
       /\ mats' = [mats EXCEPT ![b] = mats[a]]
  /\ snapshot' = NoSnapshot
  /\ lastOp' = "edit"
  /\ UNCHANGED <<usedByTheSolver, hydroModulable, disk, ret, weekVars, stsVars>>

\* The start of a week in SIM_RenseignementProblemeHebdo, once the study
\* has loaded: for a managed reservoir, the level the previous week left
\* is read, and the modulations (power to level) and the water value (use
\* water) are interpolated at it; other values are left as they were. With
\* hard bounds the hourly envelope is the rule curves times the capacity;
\* otherwise it is the [0, capacity] the first week's initialisation set.
PrepareWeek ==
  /\ usedByTheSolver /\ ret /\ lastOp \in {"load", "week"}
  /\ \E k \in [Areas -> 0..LevelSteps] :
       LET managed(a) == hydro[a]["reservoirManagement"]
           ptl(a) == managed(a) /\ hydro[a]["powerToLevel"]
           wv(a) == managed(a) /\ hydro[a]["useWaterValue"]
           cm(a) == mats[a].creditModulation
       IN /\ \A a \in Areas : ~managed(a) => k[a] = 0
          /\ level' = [a \in Areas |-> IF managed(a) THEN k[a] ELSE level[a]]
          /\ generatingModulation' =
               [a \in Areas |-> IF ptl(a) THEN GetWeeklyModulation([r \in Rows |-> cm(a)[r].gen], k[a])
                                ELSE generatingModulation[a]]
          /\ pumpingModulation' =
               [a \in Areas |-> IF ptl(a) THEN GetWeeklyModulation([r \in Rows |-> cm(a)[r].pump], k[a])
                                ELSE pumpingModulation[a]]
          /\ waterValue' =
               [a \in Areas |-> IF wv(a) THEN GetWaterValue(mats[a].waterValues, k[a])
                                ELSE waterValue[a]]
  /\ stsImported' = IF lastOp = "load"
                     THEN [a \in StorageAreas |-> importShortTermStorages(sts[a])]
                     ELSE stsImported
  /\ IF lastOp = "load"
     THEN hourlyBounds' \in {hb \in [Areas -> BOOLEAN] :
                               \A a \in Areas : hb[a] => HardBoundsPossible(hydro[a])}
     ELSE UNCHANGED hourlyBounds
  /\ envelope' = [a \in Areas |->
                    IF hourlyBounds'[a] THEN RuleCurveEnvelope(mats[a], hydro[a]["reservoirCapacity"])
                    ELSE DefaultEnvelope(hydro[a]["reservoirCapacity"])]
  /\ lastOp' = "week"
  /\ UNCHANGED <<usedByTheSolver, hydro, mats, hydroModulable, disk, ret, snapshot, sts>>

Next == LoadFromFolder \/ SaveToFolder \/ reset \/ copyFrom \/ PrepareWeek

Spec == Init /\ [][Next]_vars

-----------------------------------------------------------------------------
(* Properties.                                                            *)

\* The settings of an area, with the ranges the loader's corrections give.
IsSettings(h) ==
  /\ DOMAIN h = Fields
  /\ \A f \in BoolFields : h[f] \in BOOLEAN
  /\ \A f \in DoubleFields : h[f] \in Int
  /\ h["reservoirCapacity"] \in [num : Nat, den : Nat \ {0}]
  /\ h["intraDailyModulation"] >= 1
  /\ \A f \in DoubleFields \ {"interDailyBreakdown"} : h[f] >= 0

\* Every setting has its type, and keeps the ranges the loader enforces
\* (intra-daily modulation at least 1, capacity, breakdowns, date, leeways
\* and pumping efficiency not negative) whatever the operations did.
TypeOK ==
  /\ usedByTheSolver \in BOOLEAN
  /\ \A a \in Areas : IsSettings(hydro[a])
  /\ hydroModulable \in [Areas -> BOOLEAN]
  /\ disk.iniPresent \in BOOLEAN /\ DOMAIN disk.mats = Areas
  /\ ret \in BOOLEAN
  /\ lastOp \in {"init", "load", "save", "edit", "week"}
  /\ level \in [Areas -> 0..LevelSteps]
  /\ hourlyBounds \in [Areas -> BOOLEAN]
  /\ \A a \in Areas : {generatingModulation[a], pumpingModulation[a], waterValue[a]} \subseteq Int

\* The piecewise linear function through the points (row, t[row]) of a
\* table, at the level k / LevelSteps, times LevelSteps.
ReferenceInterpolation(t, k) ==
  LET pos == k * Top
      r == pos \div LevelSteps
  IN IF r = Top THEN t[Top] * LevelSteps
     ELSE t[r] * LevelSteps + (t[r + 1] - t[r]) * (pos - r * LevelSteps)

\* At the start of a week, the generating and pumping modulations of an
\* area with power to level, and the water value of an area with water
\* values, are the piecewise linear reading of the loaded tables at the
\* level the previous week left (getWeeklyModulation, getWaterValue).
InterpolationMatchesReference ==
  lastOp = "week" =>
    \A a \in Areas :
      /\ hydro[a]["reservoirManagement"] /\ hydro[a]["powerToLevel"] =>
           /\ generatingModulation[a]
                = ReferenceInterpolation([r \in Rows |-> mats[a].creditModulation[r].gen], level[a])
           /\ pumpingModulation[a]
                = ReferenceInterpolation([r \in Rows |-> mats[a].creditModulation[r].pump], level[a])
      /\ hydro[a]["reservoirManagement"] /\ hydro[a]["useWaterValue"] =>
           waterValue[a] = ReferenceInterpolation(mats[a].waterValues, level[a])

\* The hourly envelope the builder gives the weekly problem of a managed
\* reservoir lies within the reservoir: 0 <= NiveauHoraireInf <=
\* NiveauHoraireSup <= capacity, for the rule curves the loader accepted.
EnvelopeWithinReservoir ==
  lastOp = "week" =>
    \A a \in Areas :
      LET e == envelope[a]
          cap == hydro[a]["reservoirCapacity"]
      IN hydro[a]["reservoirManagement"] =>
           /\ e.inf.num >= 0
           /\ ~Below(e.sup, e.inf.num, e.inf.den)
           /\ ~Above(e.sup, cap.num, cap.den)

\* The initial level randomReservoirLevel draws for an area, from the
\* minimum, average and maximum rule curves, calls GammaVariable with
\* shapes it is sound for (both above 1) exactly when the average lies
\* strictly between the minimum and the maximum; on a bound it returns the
\* average without a draw. This holds for every curve a successful solver
\* load accepts, and the loader's check (min <= max, average in [0, 100])
\* lets an average outside [min, max] through: such a study reaches
\* GammaVariable with a shape of 0 or below.
RandomLevelShapesValid ==
  usedByTheSolver /\ ret /\ lastOp = "load" =>
    \A a \in Areas :
      LET lv == mats[a].reservoirLevel
          s == BetaShapes(lv.minimum, lv.average, lv.maximum)
      IN ~s.early =>
           (BetaShapesValid(s) <=> lv.minimum < lv.average /\ lv.average < lv.maximum)

=============================================================================
