------------------------- MODULE HydroWeeklyBounds -------------------------
(***************************************************************************)
(* The hydro bounds of one area's weekly problem, as                       *)
(* SIM_RenseignementProblemeHebdo (solver/simulation/                      *)
(* sim_calcul_economique.cpp) fills them before each weekly solve, with    *)
(* the hydro flags SIM_InitialisationProblemeHebdo derives from the area's *)
(* settings:                                                               *)
(*   - the daily turbine energy bounds MinEnergieHydrauParIntervalleOptimise*)
(*     (DGL) and MaxEnergieHydrauParIntervalleOptimise (DGU), either the   *)
(*     plain daily capacity or the leeway heuristic scaled to the water    *)
(*     the week may use;                                                   *)
(*   - the daily turbine energy CntEnergieH2OParIntervalleOptimise, scaled *)
(*     down when the reservoir holds less than the week's target;          *)
(*   - the daily pumping bound MaxEnergiePompageParIntervalleOptimise      *)
(*     (DPU), scaled to the room left in the reservoir.                    *)
(* The arrays belong to the thread's PROBLEME_HEBDO and keep their value   *)
(* from one week to the next when a week does not write them.              *)
(*                                                                         *)
(* The week has NbDays days (7 in the code). Reservoir levels, inflows and *)
(* energies are integers in one unit; rule-curve levels are given in that  *)
(* unit too (minLvl * reservoirCapacity in the code). A bound the code     *)
(* computes as x / d is kept as the numerator x over the denominator d of  *)
(* the week, so every comparison is exact.                                 *)
(***************************************************************************)
EXTENDS Integers

CONSTANTS
  NbDays,
  Capacity,          \* reservoirCapacity
  Efficiencies,      \* pumpingEfficiency values (>= 0 after loading)
  Leeways,           \* leeway bound values (>= 0 after loading)
  TargetValues,      \* HydrauliqueModulableQuotidien[day] (DNT)
  PowerValues,       \* maxPower[genMaxP][day] * maxPower[genMaxE][day] (DGC)
  PumpPowerValues,   \* maxPower[pumpMaxP][day] * maxPower[pumpMaxE][day] (DPC)
  ModulationValues,  \* WeeklyGeneratingModulation / WeeklyPumpingModulation
  InflowValues,      \* srcinflows[day]
  MingenValues,      \* srcmingen[hour]
  HoursPerDay,       \* the hours of a day (24 in the code)
  PumpModes          \* the values pumpHasMod may take

Days == 1..NbDays
\* The hours of the week (NombreDePasDeTemps), from 0, and the day of each.
WeekHours == 0..NbDays * HoursPerDay - 1
DayOf(t) == t \div HoursPerDay + 1
Levels == 0..Capacity

(***************************************************************************)
(* An area's hydro settings as PartHydro::LoadFromFolder accepts them, with *)
(* the thread's optimisation mode. The loader resets negative leeways and  *)
(* efficiencies to 0, refuses reservoirManagement without capacity, and    *)
(* refuses useHeuristicTarget = useWaterValue = false; it only logs a      *)
(* leeway lower bound above the upper one.                                 *)
(***************************************************************************)
SettingsType ==
  [reservoirManagement : BOOLEAN, useHeuristicTarget : BOOLEAN,
   useLeeway : BOOLEAN, hardBoundsOnRuleCurves : BOOLEAN,
   useWaterValue : BOOLEAN, pumpHasMod : PumpModes,
   pumpingEfficiency : Efficiencies,
   leewayLowerBound : Leeways, leewayUpperBound : Leeways,
   OptimisationAuPasHebdomadaire : BOOLEAN, WaterValueAccurate : BOOLEAN]

LoadedSettings ==
  { s \in SettingsType : s.useHeuristicTarget \/ s.useWaterValue }

\* The settings an area starts a simulation with.
Settings == LoadedSettings

\* The flags of CaracteristiquesHydrauliques set once per thread by
\* SIM_InitialisationProblemeHebdo, for an area with modulable hydro.
PresenceDePompageModulable(s) ==
  s.reservoirManagement /\ s.pumpHasMod /\ s.pumpingEfficiency > 0

TurbinageEntreBornes(s) ==
  s.reservoirManagement /\ (~s.useHeuristicTarget \/ s.useLeeway)

SuiviNiveauHoraire(s) ==
  \/ s.reservoirManagement /\ s.OptimisationAuPasHebdomadaire
       /\ (~s.useHeuristicTarget \/ PresenceDePompageModulable(s))
  \/ s.WaterValueAccurate /\ s.useWaterValue

\* One week's inputs: the ventilation's daily targets, the daily generating
\* and pumping capacities, the two modulations read at the previous level,
\* the initial level, the inflows and the next week's rule-curve levels;
\* the area scratchpad's daily optimalMaxPower and pumpingMaxPower (omp,
\* pmp) and the hourly minimum generation of the year's series.
WeekData ==
  [dnt : [Days -> TargetValues], dgc : [Days -> PowerValues],
   dpc : [Days -> PumpPowerValues], dgm : ModulationValues, dpm : ModulationValues,
   wsl : Levels, inflow : [Days -> InflowValues],
   minNext : Levels, maxNext : Levels,
   omp : [Days -> PowerValues], pmp : [Days -> PumpPowerValues],
   mingen : [WeekHours -> MingenValues]]

\* The weeks an area with settings s may see: any week.
WeekDataFor(s) == WeekData

\* A bound x / d held as numerators over one denominator.
Bounds == [num : [Days -> Nat], den : Nat \ {0}]
ZeroBounds == [num |-> [j \in Days |-> 0], den |-> 1]

VARIABLES
  settings,   \* the area's hydro settings
  wk,         \* the inputs of the last week built
  built,      \* at least one week was built
  DGL,        \* MinEnergieHydrauParIntervalleOptimise
  DGU,        \* MaxEnergieHydrauParIntervalleOptimise
  Cnt,        \* CntEnergieH2OParIntervalleOptimise
  DPU,        \* MaxEnergiePompageParIntervalleOptimise
  writtenDG,  \* DGL/DGU written by the last week built (history)
  writtenCnt, \* Cnt written by the last week built (history)
  writtenDP,  \* DPU written by the last week built (history)
  MingenHoraire,                          \* [WeekHours -> value]
  InflowForTimeInterval,                  \* [Days -> inflow]
  ApportNaturelHoraire,                   \* [num : [WeekHours -> inflow], den]
  ContrainteDePmaxHydrauliqueHoraire,     \* [WeekHours -> power]
  ContrainteDePmaxHydrauliqueHoraireRef,
  ContrainteDePmaxPompageHoraire          \* [WeekHours -> power]

hourlyVars == <<MingenHoraire, InflowForTimeInterval, ApportNaturelHoraire,
                ContrainteDePmaxHydrauliqueHoraire, ContrainteDePmaxHydrauliqueHoraireRef,
                ContrainteDePmaxPompageHoraire>>
vars == <<settings, wk, built, DGL, DGU, Cnt, DPU, writtenDG, writtenCnt, writtenDP,
          hourlyVars>>

\* The sum of a function over the days of the week.
Sum(f) ==
  LET RECURSIVE SumTo(_)
      SumTo(k) == IF k = 0 THEN 0 ELSE f[k] + SumTo(k - 1)
  IN SumTo(NbDays)
MinOf(a, b) == IF a <= b THEN a ELSE b
MaxOf(a, b) == IF a >= b THEN a ELSE b

\* Weekly natural inflows WNI.
WNI(d) == Sum(d.inflow)

(***************************************************************************)
(* The plain bounds: no heuristic target, or pumping with a weekly         *)
(* optimisation. DGL = 0, DGU = maxP * maxE * WeeklyGeneratingModulation. *)
(***************************************************************************)
PlainBoundsCase(s) ==
  ~s.useHeuristicTarget \/ (PresenceDePompageModulable(s) /\ s.OptimisationAuPasHebdomadaire)

PlainDGU(d) == [num |-> [j \in Days |-> d.dgc[j] * d.dgm], den |-> 1]

\* Mutant: the leeway heuristic only serves pumping with daily optimisation.
LeewayBoundsCaseNoLeeway(s) ==
  s.useHeuristicTarget /\ PresenceDePompageModulable(s) /\ ~s.OptimisationAuPasHebdomadaire

\* The leeway heuristic is used for the turbine bounds.
LeewayBoundsCase(s) ==
  s.useHeuristicTarget
  /\ (s.useLeeway \/ (PresenceDePompageModulable(s) /\ ~s.OptimisationAuPasHebdomadaire))

LUB(s) == IF s.useLeeway THEN s.leewayUpperBound ELSE 1
LLB(s) == IF s.useLeeway THEN s.leewayLowerBound ELSE 1

\* DGU_tmp[j] and DGL_tmp[j]: the leeway band around the day's target,
\* clipped to the day's generating capacity DGC * DGM by the two tests of
\* the code (strict comparisons, in that order).
DGUtmp(s, d, j) ==
  LET c == d.dgc[j] * d.dgm
      lo == d.dnt[j] * LLB(s)
      up == d.dnt[j] * LUB(s)
  IN IF c < lo THEN c ELSE IF c > lo /\ c < up THEN c ELSE up

DGLtmp(s, d, j) ==
  LET c == d.dgc[j] * d.dgm
      lo == d.dnt[j] * LLB(s)
  IN IF c < lo THEN c ELSE lo

\* Weekly generation upper bound WGU.
WGU(s, d) == Sum([j \in Days |-> DGUtmp(s, d, j)])

\* The water the week may turbine: stock plus inflows, or, with hard rule
\* curves, what lies above next week's minimum level.
Usable(s, d) ==
  IF s.hardBoundsOnRuleCurves
  THEN MaxOf(0, d.wsl - d.minNext + WNI(d))
  ELSE d.wsl + WNI(d)

\* Mutant: no Math::Zero(WGU) test before the division.
LeewayDGUNoZeroGuard(s, d) ==
  LET w == WGU(s, d)
  IN [num |-> [j \in Days |-> DGUtmp(s, d, j) * MinOf(w, Usable(s, d))], den |-> w]

\* DGU[j] = DGU_tmp[j] * min(WGU, usable) / WGU, 0 when WGU is zero.
LeewayDGU(s, d) ==
  LET w == WGU(s, d)
      m == MinOf(w, Usable(s, d))
  IN IF w = 0 THEN ZeroBounds
     ELSE [num |-> [j \in Days |-> DGUtmp(s, d, j) * m], den |-> w]

\* DGL[j] = min(DGU[j], DGL_tmp[j]), over DGU's denominator.
LeewayDGL(s, d) ==
  LET u == LeewayDGU(s, d)
  IN [num |-> [j \in Days |-> MinOf(u.num[j], DGLtmp(s, d, j) * u.den)], den |-> u.den]

(***************************************************************************)
(* The daily turbine energy: with a heuristic target and no leeway, the    *)
(* week's target is replaced by the initial level when the reservoir holds *)
(* less (marginGen); otherwise the target is taken as it is.               *)
(***************************************************************************)
HeuristicTargetCase(s) ==
  s.reservoirManagement /\ s.useHeuristicTarget /\ ~s.useLeeway

WeekTarget(d) == Sum(d.dnt)

weekGenerationTarget(s, d) ==
  IF HeuristicTargetCase(s) /\ WeekTarget(d) # 0 THEN WeekTarget(d) ELSE 1

\* Mutant: the target is kept even when the reservoir holds less.
marginGenNoStockCheck(s, d) ==
  IF ~HeuristicTargetCase(s) THEN 1 ELSE weekGenerationTarget(s, d)

marginGen(s, d) ==
  CASE ~HeuristicTargetCase(s)  -> 1
    [] d.wsl < WeekTarget(d)    -> d.wsl
    [] OTHER                    -> weekGenerationTarget(s, d)

EnergyCnt(s, d) ==
  [num |-> [j \in Days |-> d.dnt[j] * d.dgm * marginGen(s, d)],
   den |-> weekGenerationTarget(s, d)]

(***************************************************************************)
(* The daily pumping bound: the plain capacity when the level is followed *)
(* hour by hour, otherwise the capacity scaled to the room left in the    *)
(* reservoir (below capacity, or below next week's maximum rule curve).   *)
(***************************************************************************)
PlainDPU(d) == [num |-> [j \in Days |-> d.dpc[j] * d.dpm], den |-> 1]

\* Mutant: the pumping efficiency is left out of U.
PumpCapacityNoEfficiency(s, d) == Sum(d.dpc) * d.dpm

\* U = WPU * DPM * pumping_ratio.
PumpCapacity(s, d) == Sum(d.dpc) * d.dpm * s.pumpingEfficiency

Room(s, d) ==
  IF s.hardBoundsOnRuleCurves
  THEN MaxOf(0, d.maxNext - (WNI(d) + d.wsl))
  ELSE MaxOf(0, Capacity - (WNI(d) + d.wsl))

\* Mutant: no Math::Zero(U) test before the division.
ScaledDPUNoZeroGuard(s, d) ==
  LET u == PumpCapacity(s, d)
  IN [num |-> [j \in Days |-> d.dpc[j] * d.dpm * MinOf(u, Room(s, d))], den |-> u]

ScaledDPU(s, d) ==
  LET u == PumpCapacity(s, d)
      m == MinOf(u, Room(s, d))
  IN IF u = 0 THEN ZeroBounds
     ELSE [num |-> [j \in Days |-> d.dpc[j] * d.dpm * m], den |-> u]

(***************************************************************************)
(* The hourly copies. The hour loop gives each hour the scratchpad's      *)
(* maximum turbine power of its day times WeeklyGeneratingModulation and, *)
(* with modulable pumping, the maximum pumping power times                *)
(* WeeklyPumpingModulation; the hydro block copies the hourly minimum     *)
(* generation, each day's inflow, and that inflow spread evenly over the  *)
(* hours of the day (srcinflows[day] / 24, kept over the denominator).    *)
(***************************************************************************)
PmaxHoraire(d) == [t \in WeekHours |-> d.omp[DayOf(t)] * d.dgm]

PmaxPompageHoraire(d) == [t \in WeekHours |-> d.pmp[DayOf(t)] * d.dpm]

Mingen(d) == [t \in WeekHours |-> d.mingen[t]]

Inflows(d) == [j \in Days |-> d.inflow[j]]

ApportHoraire(d) == [num |-> [t \in WeekHours |-> d.inflow[DayOf(t)]], den |-> HoursPerDay]

-----------------------------------------------------------------------------
TypeOK ==
  /\ settings \in SettingsType
  /\ wk \in WeekData
  /\ built \in BOOLEAN
  /\ {DGL, DGU, Cnt, DPU} \subseteq Bounds
  /\ {writtenDG, writtenCnt, writtenDP} \subseteq BOOLEAN
  /\ MingenHoraire \in [WeekHours -> MingenValues \cup {0}]
  /\ InflowForTimeInterval \in [Days -> InflowValues \cup {0}]
  /\ ApportNaturelHoraire \in [num : [WeekHours -> InflowValues \cup {0}], den : {1, HoursPerDay}]
  /\ {ContrainteDePmaxHydrauliqueHoraire, ContrainteDePmaxHydrauliqueHoraireRef,
      ContrainteDePmaxPompageHoraire} \subseteq [WeekHours -> Nat]

\* The arrays are allocated zeroed; no week is built yet.
Init ==
  /\ settings \in Settings
  /\ wk = CHOOSE d \in WeekDataFor(settings) : TRUE
  /\ built = FALSE
  /\ DGL = ZeroBounds /\ DGU = ZeroBounds /\ Cnt = ZeroBounds /\ DPU = ZeroBounds
  /\ writtenDG = FALSE /\ writtenCnt = FALSE /\ writtenDP = FALSE
  /\ InflowForTimeInterval = [j \in Days |-> 0]
  /\ ApportNaturelHoraire = [num |-> [t \in WeekHours |-> 0], den |-> 1]
  /\ MingenHoraire = [t \in WeekHours |-> 0]
  /\ ContrainteDePmaxHydrauliqueHoraire = MingenHoraire
  /\ ContrainteDePmaxHydrauliqueHoraireRef = MingenHoraire
  /\ ContrainteDePmaxPompageHoraire = MingenHoraire

\* The hydro part of SIM_RenseignementProblemeHebdo for one week: the hourly
\* maximum powers, the minimum generation and the inflows, then the plain
\* bounds and then the leeway bounds (the second overwrites the first), the
\* daily energy, and the pumping bound, and last the copy of the hourly
\* turbine maximum into its reference. A week that does not write an
\* array leaves in it what the previous week left. The settings do not
\* change during a run, so every week takes the same branches and an
\* array a week does not write still holds its allocation: one week built
\* from the allocated arrays stands for every week. The rule curves come
\* from the loader, which refuses a minimum above the maximum.
BuildWeek ==
  /\ ~built
  /\ \E d \in WeekDataFor(settings) :
       LET s == settings IN
       /\ d.minNext <= d.maxNext
       /\ wk' = d
       /\ built' = TRUE
       /\ ContrainteDePmaxHydrauliqueHoraire' = PmaxHoraire(d)
       /\ ContrainteDePmaxPompageHoraire' =
            IF PresenceDePompageModulable(s) THEN PmaxPompageHoraire(d)
            ELSE ContrainteDePmaxPompageHoraire
       /\ MingenHoraire' = Mingen(d)
       /\ InflowForTimeInterval' = Inflows(d)
       /\ ApportNaturelHoraire' = ApportHoraire(d)
       /\ ContrainteDePmaxHydrauliqueHoraireRef' = PmaxHoraire(d)
       /\ IF s.reservoirManagement /\ (PlainBoundsCase(s) \/ LeewayBoundsCase(s))
          THEN /\ DGU' = IF LeewayBoundsCase(s) THEN LeewayDGU(s, d) ELSE PlainDGU(d)
               /\ DGL' = IF LeewayBoundsCase(s) THEN LeewayDGL(s, d) ELSE ZeroBounds
               /\ writtenDG' = TRUE
          ELSE UNCHANGED <<DGU, DGL>> /\ writtenDG' = FALSE
       /\ IF ~TurbinageEntreBornes(s)
          THEN Cnt' = EnergyCnt(s, d) /\ writtenCnt' = TRUE
          ELSE UNCHANGED Cnt /\ writtenCnt' = FALSE
       /\ IF PresenceDePompageModulable(s)
          THEN /\ DPU' = IF SuiviNiveauHoraire(s) THEN PlainDPU(d) ELSE ScaledDPU(s, d)
               /\ writtenDP' = TRUE
          ELSE UNCHANGED DPU /\ writtenDP' = FALSE
       /\ UNCHANGED settings

Next == BuildWeek

Spec == Init /\ [][Next]_vars

-----------------------------------------------------------------------------
\* When the weekly problem turbines between bounds (TurbinageEntreBornes,
\* set once by SIM_InitialisationProblemeHebdo), the week being solved has
\* written DGL and DGU itself: the two branches of
\* SIM_RenseignementProblemeHebdo that write them cover every such area,
\* so no week solves against the bounds a previous week left.
TurbineBoundsFreshWhenUsed ==
  (built /\ TurbinageEntreBornes(settings)) => writtenDG

\* The weekly bounds never let the reservoir go where it cannot: with the
\* leeway heuristic the daily turbine bounds add up to at most the water
\* the week may use; with a heuristic target the forced daily energies add
\* up to at most the initial level times the modulation; the scaled
\* pumping bounds, times the pumping efficiency, fit in the room left.
WeekBoundsRespectReservoir ==
  built =>
    /\ (settings.reservoirManagement /\ LeewayBoundsCase(settings))
         => Sum(DGU.num) <= Usable(settings, wk) * DGU.den
    /\ HeuristicTargetCase(settings)
         => Sum(Cnt.num) <= wk.dgm * wk.wsl * Cnt.den
    /\ (PresenceDePompageModulable(settings) /\ ~SuiviNiveauHoraire(settings))
         => Sum(DPU.num) * settings.pumpingEfficiency <= Room(settings, wk) * DPU.den

\* The leeway band the builder writes lies inside the day's generating
\* capacity maxP * maxE * WeeklyGeneratingModulation, which the two
\* clipping tests of DGU_tmp and DGL_tmp are there to enforce, and its
\* lower bound is below its upper bound.
TurbineWithinDailyCapacity ==
  writtenDG =>
    \A j \in Days :
      /\ DGL.num[j] <= DGU.num[j]
      /\ DGU.num[j] <= wk.dgc[j] * wk.dgm * DGU.den

=============================================================================
