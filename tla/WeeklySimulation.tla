-------------------------- MODULE WeeklySimulation --------------------------
(***************************************************************************)
(* The weekly hydro-thermal pipeline run by one simulation thread          *)
(* (numSpace) for the Monte-Carlo years it is given, with the adequacy     *)
(* patch enabled:                                                          *)
(*   - once per year, HydroManagement::makeVentilation; an invalid minimum *)
(*     generation throws FatalError and ends the run;                      *)
(*   - the reservoir level of the first week comes from the hydro          *)
(*     configuration, or from the previous year's final level (hot start); *)
(*   - each week, SIM_RenseignementProblemeHebdo reads the level left by   *)
(*     the previous week (previousSimulationFinalLevel) and throws         *)
(*     FatalError when it is < 0 or over capacity;                         *)
(*   - OPT_OptimisationHebdomadaire solves the week (linear or quadratic)  *)
(*     or throws UnfeasibleProblemError, recorded as a failed week;        *)
(*   - after a solve, the commands of AdqPatchPostProcessList run in       *)
(*     their list order; the last one carries the final level to the next  *)
(*     week.                                                               *)
(*                                                                         *)
(* SIM_RenseignementProblemeHebdo also copies each link's hurdle costs    *)
(* from the week's first hour, and fills the right-hand sides of the      *)
(* binding constraints (preparerBindingConstraint) from the column of the *)
(* constraint's time series drawn for the year's group.                   *)
(*                                                                         *)
(* The hydro schedule and the levels computed from it are abstracted to    *)
(* the version of the schedule they come from ("solved" by the LP, or      *)
(* "remixed" by RemixHydro); reservoir levels are integers 0..Capacity.    *)
(***************************************************************************)
EXTENDS Integers, Sequences, Functions, FiniteSetsExt, AdqPatchParams

CONSTANTS
  NbYears,         \* Monte-Carlo years run by this thread
  NbWeeks,         \* weeks per year
  Capacity,        \* reservoirCapacity
  InitialLevels,   \* levels the hydro configuration may give at year start
  HotStart,        \* hydro hot start: a year starts from the previous final level
  DaysPerWeek,     \* 7 in the code
  HoursPerDay,     \* 24 in the code
  BindingConstraints, \* the active binding constraints
  BCType,          \* [BindingConstraints -> {"hourly", "daily", "weekly"}]
  BCGroup,         \* the group of a constraint, or NoGroup
  NoGroup,
  RHSWidth,        \* width of RHSTimeSeries()
  RHS,             \* RHS[bc][column]: hourly series by hour of the year,
                   \* daily and weekly series by day of the year
  Links,           \* the interconnections
  UseHurdlesCost,  \* [Links -> BOOLEAN]: lnk->useHurdlesCost
  UseLoopFlow,     \* [Links -> BOOLEAN]: lnk->useLoopFlow
  HurdlesCost,     \* [Links -> [{"direct", "indirect"} -> [hour of the year -> cost]]]:
                   \* lnk->parameters[fhlHurdlesCostDirect / Indirect]
  Studies          \* [mode, areaModes, hurdleCosts, section]: the study mode,
                   \* the adequacyPatchMode of its areas, whether hurdle costs
                   \* are included, its section "adequacy patch"

ASSUME /\ NbYears \in Nat \ {0} /\ NbWeeks \in Nat \ {0}
       /\ Capacity \in Nat \ {0}
       /\ InitialLevels \subseteq 0..Capacity /\ InitialLevels # {}
       /\ HotStart \in BOOLEAN
       /\ DaysPerWeek \in Nat \ {0} /\ HoursPerDay \in Nat \ {0}
       /\ \A bc \in BindingConstraints :
            /\ BCType[bc] \in {"hourly", "daily", "weekly"}
            /\ RHSWidth[bc] \in Nat \ {0}
            /\ DOMAIN RHS[bc] = 0..RHSWidth[bc] - 1

\* Mutant: the remix is pushed after the final level update.
PostProcessListRemixLate ==
  << "DispatchableMargin", "CurtailmentSharing", "HydroLevelsUpdate",
     "DTGmarginForAdqPatch", "HydroLevelsUpdateFinal", "RemixHydro",
     "InterpolateWaterValue", "HydroLevelsFinalUpdate" >>

\* The commands pushed by the AdqPatchPostProcessList constructor, in order.
PostProcessList ==
  << "DispatchableMargin", "CurtailmentSharing", "HydroLevelsUpdate",
     "RemixHydro", "DTGmarginForAdqPatch", "HydroLevelsUpdateFinal",
     "InterpolateWaterValue", "HydroLevelsFinalUpdate" >>

NoLevel == -1      \* the value SIM_InitialisationProblemeHebdo stores
Versions == {"none", "solved", "remixed"}

Groups == {BCGroup[bc] : bc \in BindingConstraints} \ {NoGroup}
HoursOfWeek == 0..DaysPerWeek * HoursPerDay - 1
\* The first hour and the first day of a week in the year's calendar.
PasDeTempsDebut(w) == (w - 1) * DaysPerWeek * HoursPerDay
weekFirstDay(w) == (w - 1) * DaysPerWeek
\* The time series of a group have the width of its constraints.
MaxWidth == Max({RHSWidth[bc] : bc \in BindingConstraints})
GroupWidth(g) == Max({RHSWidth[bc] : bc \in {c \in BindingConstraints : BCGroup[c] = g}})

VARIABLES
  year, week,
  phase,           \* "yearStart" | "build" | "solve" | "post" | "done" | "fatal"
  previousSimulationFinalLevel,
  previousYearFinalLevel,   \* kept for the hot start of the next year
  NiveauInitialReservoir,
  endLevel,        \* level at the end of the week in the solution
  schedule,        \* version of the hourly hydro schedule
  levelsOf,        \* version of the schedule the hourly levels were computed from
  remixInput,      \* version of the levels RemixHydro read this week
  waterValueOf,    \* version of the levels the water values were interpolated at
  carriedOf,       \* version of the levels carried to the next week
  step,            \* index of the next command in PostProcessList
  failedWeeks,     \* number of weeks that threw UnfeasibleProblemError
  timeseriesNumbers, \* group->timeseriesNumbers[0][year], drawn before the run
  SecondMembre,    \* SecondMembreDeLaContrainteCouplante of each constraint
  CoutDeTransport, \* problem.CoutDeTransport of each link
  study,           \* the study being simulated
  adqPatchParams   \* parameters.adqPatchParams as loaded

vars == <<year, week, phase, previousSimulationFinalLevel, previousYearFinalLevel,
          NiveauInitialReservoir, endLevel, schedule, levelsOf, remixInput,
          waterValueOf, carriedOf, step, failedWeeks, timeseriesNumbers, SecondMembre,
          CoutDeTransport, study, adqPatchParams>>
bcVars == <<timeseriesNumbers, SecondMembre, CoutDeTransport>>
paramVars == <<study, adqPatchParams>>

Levels == 0..Capacity

\* COUTS_DE_TRANSPORT: the two flags and the four hourly cost arrays.
CostArrays == {"CoutDeTransportOrigineVersExtremite", "CoutDeTransportOrigineVersExtremiteRef",
               "CoutDeTransportExtremiteVersOrigine", "CoutDeTransportExtremiteVersOrigineRef"}
CoutsDeTransport ==
  [IntercoGereeAvecDesCouts : BOOLEAN, IntercoGereeAvecLoopFlow : BOOLEAN,
   costs : [CostArrays -> [HoursOfWeek -> Int]]]

TypeOK ==
  /\ year \in 1..NbYears /\ week \in 1..NbWeeks
  /\ phase \in {"params", "rejected", "yearStart", "build", "solve", "post", "done", "fatal"}
  /\ previousSimulationFinalLevel \in Levels \cup {NoLevel}
  /\ previousYearFinalLevel \in Levels \cup {NoLevel}
  /\ NiveauInitialReservoir \in Levels \cup {NoLevel}
  /\ endLevel \in Levels
  /\ {schedule, levelsOf, remixInput, waterValueOf, carriedOf} \subseteq Versions
  /\ step \in 1..Len(PostProcessList) + 1
  /\ failedWeeks \in 0..NbYears * NbWeeks
  /\ SecondMembre \in [BindingConstraints -> [HoursOfWeek -> Int]]
  /\ CoutDeTransport \in [Links -> CoutsDeTransport]

-----------------------------------------------------------------------------
\* SIM_InitialisationProblemeHebdo: levels set to -1. The study's
\* parameters are loaded; the adequacy patch post-process list is the one
\* built when the patch is enabled.
Init ==
  /\ year = 1 /\ week = 1
  /\ phase = "params"
  /\ study \in Studies
  /\ adqPatchParams \in {p \in LoadAdqPatchSection(AdqPatchParamsConstructed, study.section) :
                          p.enabled}
  /\ previousSimulationFinalLevel = NoLevel
  /\ previousYearFinalLevel = NoLevel
  /\ NiveauInitialReservoir = NoLevel
  /\ endLevel = 0
  /\ schedule = "none" /\ levelsOf = "none" /\ remixInput = "none"
  /\ waterValueOf = "none" /\ carriedOf = "none"
  /\ step = 1
  /\ failedWeeks = 0
  /\ timeseriesNumbers \in {n \in [Groups -> [1..NbYears -> 0..MaxWidth - 1]] :
                              \A g \in Groups, y \in 1..NbYears : n[g][y] < GroupWidth(g)}
  /\ SecondMembre = [bc \in BindingConstraints |-> [t \in HoursOfWeek |-> 0]]
  \* The arrays as the problem's allocation leaves them: zeroed, no flag.
  /\ CoutDeTransport =
       [k \in Links |-> [IntercoGereeAvecDesCouts |-> FALSE, IntercoGereeAvecLoopFlow |-> FALSE,
                         costs |-> [a \in CostArrays |-> [t \in HoursOfWeek |-> 0]]]]

\* The solver's start: checkAdqPatchParams throws and nothing is simulated,
\* or the years start.
CheckParameters ==
  /\ phase = "params"
  /\ phase' = IF checkAdqPatchParams(adqPatchParams, study) = "ok" THEN "yearStart" ELSE "rejected"
  /\ UNCHANGED <<bcVars, paramVars, year, week, previousSimulationFinalLevel, previousYearFinalLevel,
                 NiveauInitialReservoir, endLevel, schedule, levelsOf, remixInput,
                 waterValueOf, carriedOf, step, failedWeeks>>

\* makeVentilation: checkMinGeneration fails, FatalError ends the run.
VentilationFails ==
  /\ phase = "yearStart"
  /\ phase' = "fatal"
  /\ UNCHANGED <<bcVars, paramVars, year, week, previousSimulationFinalLevel, previousYearFinalLevel,
                 NiveauInitialReservoir, endLevel, schedule, levelsOf, remixInput,
                 waterValueOf, carriedOf, step, failedWeeks>>

\* The year loop (Economy::year, not under src; from spec.md) after a
\* successful makeVentilation: the level of the first week is set from the
\* configuration, or from the previous year's final level on a hot start.
StartYear ==
  /\ phase = "yearStart"
  /\ \E lvl \in InitialLevels :
       previousSimulationFinalLevel' =
         IF HotStart /\ previousYearFinalLevel # NoLevel
         THEN previousYearFinalLevel ELSE lvl
  /\ week' = 1
  /\ phase' = "build"
  /\ UNCHANGED <<bcVars, paramVars, year, previousYearFinalLevel, NiveauInitialReservoir, endLevel,
                 schedule, levelsOf, remixInput, waterValueOf, carriedOf, step, failedWeeks>>

\* Mutant: the weekly sum stops one day short.
WeeklySumShort(column, w) ==
  SumFunctionOnSet(column, {weekFirstDay(w) + d : d \in 0..DaysPerWeek - 2})

\* The weekly case: the sum of the week's daily values.
WeeklySum(column, w) ==
  SumFunctionOnSet(column, {weekFirstDay(w) + d : d \in 0..DaysPerWeek - 1})

\* preparerBindingConstraint over the hours of the week: the column is the
\* group's series of the year, or 0 for a single series (or no group);
\* hourly constraints copy one value per hour, daily ones the week's days
\* into the first slots, weekly ones the sum into slot 0. Slots a type does
\* not write keep their value.
preparerBindingConstraint(bc, y, w, sm) ==
  LET tsIndexForBc == IF BCGroup[bc] # NoGroup THEN timeseriesNumbers[BCGroup[bc]][y] ELSE 0
      ts_number == IF RHSWidth[bc] = 1 THEN 0 ELSE tsIndexForBc
      column == RHS[bc][ts_number]
  IN CASE BCType[bc] = "hourly" -> [t \in HoursOfWeek |-> column[PasDeTempsDebut(w) + t]]
       [] BCType[bc] = "daily" ->
            [t \in HoursOfWeek |-> IF t < DaysPerWeek THEN column[weekFirstDay(w) + t]
                                                     ELSE sm[t]]
       [] BCType[bc] = "weekly" -> [sm EXCEPT ![0] = WeeklySum(column, w)]

\* Mutant: the costs are copied from the first hour of the year.
HurdleCostsYearStart(k, w) ==
  [t \in HoursOfWeek |-> HurdlesCost[k]["direct"][t]]

\* The memcpy of NombreDePasDeTemps values of a hurdle-cost column of link
\* k from the first hour of week w.
HurdleCostsOfWeek(k, w) ==
  [t \in HoursOfWeek |-> HurdlesCost[k]["direct"][PasDeTempsDebut(w) + t]]
IndirectCostsOfWeek(k, w) ==
  [t \in HoursOfWeek |-> HurdlesCost[k]["indirect"][PasDeTempsDebut(w) + t]]

\* The link loop of SIM_RenseignementProblemeHebdo: a link with hurdle
\* costs gets the week's costs in both arrays of each direction; one
\* without keeps the arrays and is flagged; the loop-flow flag follows
\* the link.
CopyHurdleCosts(ct, w) ==
  [k \in Links |->
     [ct[k] EXCEPT
        !.IntercoGereeAvecDesCouts = UseHurdlesCost[k],
        !.IntercoGereeAvecLoopFlow = UseLoopFlow[k],
        !.costs = IF UseHurdlesCost[k]
                  THEN [a \in CostArrays |->
                          IF a \in {"CoutDeTransportOrigineVersExtremite",
                                    "CoutDeTransportOrigineVersExtremiteRef"}
                          THEN HurdleCostsOfWeek(k, w) ELSE IndirectCostsOfWeek(k, w)]
                  ELSE @]]

\* SIM_RenseignementProblemeHebdo: the link costs are copied first; the
\* initial level of the week is the
\* level left by the previous week; out of [0, capacity] is fatal, before
\* the right-hand sides are prepared.
BuildWeek ==
  /\ phase = "build"
  /\ CoutDeTransport' = CopyHurdleCosts(CoutDeTransport, week)
  /\ NiveauInitialReservoir' = previousSimulationFinalLevel
  /\ LET fatal == previousSimulationFinalLevel < 0 \/ previousSimulationFinalLevel > Capacity
     IN /\ phase' = IF fatal THEN "fatal" ELSE "solve"
        /\ SecondMembre' =
             IF fatal THEN SecondMembre
             ELSE [bc \in BindingConstraints |->
                     preparerBindingConstraint(bc, year, week, SecondMembre[bc])]
  /\ UNCHANGED <<paramVars, timeseriesNumbers, year, week, previousSimulationFinalLevel,
                 previousYearFinalLevel, endLevel, schedule, levelsOf, remixInput,
                 waterValueOf, carriedOf, step, failedWeeks>>

\* OPT_OptimisationHebdomadaire finds a solution (linear, or quadratic
\* after the simplex problems are released): the schedule and the end
\* level of the week come from the LP, whose level bounds are
\* NiveauHoraireInf = 0 and NiveauHoraireSup = TailleReservoir.
SolveWeek ==
  /\ phase = "solve"
  /\ \E e \in Levels : endLevel' = e
  /\ schedule' = "solved" /\ levelsOf' = "none" /\ remixInput' = "none"
  /\ waterValueOf' = "none" /\ carriedOf' = "none"
  /\ step' = 1
  /\ phase' = "post"
  /\ UNCHANGED <<bcVars, paramVars, year, week, previousSimulationFinalLevel, previousYearFinalLevel,
                 NiveauInitialReservoir, failedWeeks>>

\* Moving to the next week, or to the end of the year.
NextWeekOrYear ==
  IF week < NbWeeks
  THEN /\ week' = week + 1 /\ phase' = "build"
       /\ UNCHANGED <<year, previousYearFinalLevel>>
  ELSE /\ previousYearFinalLevel' = previousSimulationFinalLevel'
       /\ IF year < NbYears
          THEN /\ year' = year + 1 /\ phase' = "yearStart" /\ UNCHANGED week
          ELSE /\ phase' = "done" /\ UNCHANGED <<year, week>>

\* Mutant: a failed week is recorded twice.
WeekFailsCountsTwice ==
  /\ phase = "solve"
  /\ failedWeeks' = failedWeeks + 2
  /\ UNCHANGED previousSimulationFinalLevel
  /\ NextWeekOrYear
  /\ UNCHANGED <<bcVars, paramVars, NiveauInitialReservoir, endLevel, schedule, levelsOf, remixInput,
                 waterValueOf, carriedOf, step>>

\* The optimisation throws UnfeasibleProblemError: the week is recorded
\* as failed, no post-process runs, the level is left as it was.
WeekFails ==
  /\ phase = "solve"
  /\ failedWeeks' = failedWeeks + 1
  /\ UNCHANGED previousSimulationFinalLevel
  /\ NextWeekOrYear
  /\ UNCHANGED <<bcVars, paramVars, NiveauInitialReservoir, endLevel, schedule, levelsOf, remixInput,
                 waterValueOf, carriedOf, step>>

-----------------------------------------------------------------------------
(* The commands of PostProcessList. Each runs when it is the next one of  *)
(* the list (PostProcessList[step] = its name) and passes to the next.    *)

Cmd(name) == phase = "post" /\ step <= Len(PostProcessList) /\ PostProcessList[step] = name
NextCmd == step' = step + 1

\* Commands that do not touch the hydro schedule or the levels:
\* DispatchableMargin, CurtailmentSharing (whose own solve falls back to
\* the weekly solution on failure) and DTGmarginForAdqPatch.
OtherCommand ==
  /\ \E name \in {"DispatchableMargin", "CurtailmentSharing", "DTGmarginForAdqPatch"} : Cmd(name)
  /\ NextCmd
  /\ UNCHANGED <<bcVars, paramVars, year, week, phase, previousSimulationFinalLevel, previousYearFinalLevel,
                 NiveauInitialReservoir, endLevel, schedule, levelsOf, remixInput,
                 waterValueOf, carriedOf, failedWeeks>>

\* HydroLevelsUpdate (before the remix) and HydroLevelsUpdateFinal (after
\* it) recompute the hourly levels from the current schedule.
HydroLevelsUpdate ==
  /\ Cmd("HydroLevelsUpdate") \/ Cmd("HydroLevelsUpdateFinal")
  /\ levelsOf' = schedule
  /\ NextCmd
  /\ UNCHANGED <<bcVars, paramVars, year, week, phase, previousSimulationFinalLevel, previousYearFinalLevel,
                 NiveauInitialReservoir, endLevel, schedule, remixInput,
                 waterValueOf, carriedOf, failedWeeks>>

\* RemixHydro moves hydro generation between hours within the week, under
\* the reservoir levels it reads; the weekly total, hence the end level,
\* is kept.
RemixHydro ==
  /\ Cmd("RemixHydro")
  /\ remixInput' = levelsOf
  /\ schedule' = "remixed"
  /\ NextCmd
  /\ UNCHANGED <<bcVars, paramVars, year, week, phase, previousSimulationFinalLevel, previousYearFinalLevel,
                 NiveauInitialReservoir, endLevel, levelsOf, waterValueOf, carriedOf,
                 failedWeeks>>

\* InterpolateWaterValue reads the water values at the current levels.
InterpolateWaterValue ==
  /\ Cmd("InterpolateWaterValue")
  /\ waterValueOf' = levelsOf
  /\ NextCmd
  /\ UNCHANGED <<bcVars, paramVars, year, week, phase, previousSimulationFinalLevel, previousYearFinalLevel,
                 NiveauInitialReservoir, endLevel, schedule, levelsOf, remixInput,
                 carriedOf, failedWeeks>>

\* HydroLevelsFinalUpdate stores the end-of-week level as the level the
\* next week starts from; the week is over.
HydroLevelsFinalUpdate ==
  /\ Cmd("HydroLevelsFinalUpdate")
  /\ carriedOf' = levelsOf
  /\ previousSimulationFinalLevel' = endLevel
  /\ NextCmd
  /\ NextWeekOrYear
  /\ UNCHANGED <<bcVars, paramVars, NiveauInitialReservoir, endLevel, schedule, levelsOf, remixInput,
                 waterValueOf, failedWeeks>>

Next ==
  \/ CheckParameters \/ VentilationFails \/ StartYear \/ BuildWeek \/ SolveWeek \/ WeekFails
  \/ OtherCommand \/ HydroLevelsUpdate \/ RemixHydro
  \/ InterpolateWaterValue \/ HydroLevelsFinalUpdate

\* One thread runs its years sequentially; every step it can take it
\* eventually takes.
Spec == Init /\ [][Next]_vars /\ WF_vars(Next)

-----------------------------------------------------------------------------

\* While a week is solved and post-processed, each binding constraint's
\* right-hand side is the one of that week and that year, as spec.md
\* (weekly problem builder) states it: the series' column 0 when it has one
\* column, the column drawn for the constraint's group in the year
\* otherwise; one value per hour of the week for an hourly constraint,
\* one per day of the week for a daily one, and the total of the week's
\* days for a weekly one.
BindingRHSOfWeek ==
  phase \in {"solve", "post"} =>
    \A bc \in BindingConstraints :
      LET col == RHS[bc][IF RHSWidth[bc] = 1 \/ BCGroup[bc] = NoGroup THEN 0
                         ELSE timeseriesNumbers[BCGroup[bc]][year]]
          days == {d \in DOMAIN col : weekFirstDay(week) <= d
                                       /\ d < weekFirstDay(week) + DaysPerWeek}
          sm == SecondMembre[bc]
      IN CASE BCType[bc] = "hourly" ->
                \A t \in HoursOfWeek : sm[t] = col[PasDeTempsDebut(week) + t]
           [] BCType[bc] = "daily" ->
                \A d \in days : sm[d - weekFirstDay(week)] = col[d]
           [] BCType[bc] = "weekly" -> sm[0] = SumFunctionOnSet(col, days)

\* While a week is solved and post-processed, the problem's costs of every
\* link with hurdle costs, in both directions and in the reference arrays
\* the adequacy patch reads back, are the link's hurdle costs of that
\* week's hours of the year, and its flags are the link's: the memcpy
\* from the week's first hour of the column is redone each week.
HurdleCostsOfWeekCopied ==
  phase \in {"solve", "post"} =>
    \A k \in Links :
      /\ CoutDeTransport[k].IntercoGereeAvecDesCouts = UseHurdlesCost[k]
      /\ CoutDeTransport[k].IntercoGereeAvecLoopFlow = UseLoopFlow[k]
      /\ UseHurdlesCost[k] =>
           \A t \in HoursOfWeek, a \in CostArrays :
             LET dir == IF a \in {"CoutDeTransportOrigineVersExtremite",
                                  "CoutDeTransportOrigineVersExtremiteRef"}
                        THEN "direct" ELSE "indirect"
             IN CoutDeTransport[k].costs[a][t] = HurdlesCost[k][dir][PasDeTempsDebut(week) + t]

\* RemixHydro works under the levels of the schedule it remixes, and what
\* leaves the week (water values, level carried to the next week) is
\* computed from the remixed schedule, not from the levels before the remix.
PostProcessUsesCurrentLevels ==
  /\ (phase = "post" /\ step > 4) => remixInput = "solved"
  /\ (phase \in {"build", "yearStart", "done"} /\ carriedOf # "none")
       => waterValueOf = "remixed" /\ carriedOf = "remixed"

\* The adequacy patch parameters the solver loaded, written by saveToINI
\* and read back by the loader (reset, then updateFromKeyValue entry by
\* entry), are the same: every key written is one a struct accepts, and
\* the price-taking order's text ("DENS", "Load") parses, after trim and
\* toLower, to the order written.
AdqPatchSaveLoadRoundTrip ==
  LoadAdqPatchSection(AdqPatchParamsConstructed, saveToINI(adqPatchParams)) = {adqPatchParams}

=============================================================================
