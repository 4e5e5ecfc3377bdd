# TLA+ models of the Antares weekly hydro-thermal pipeline

This directory holds TLA+ models of the part of the Antares simulator that
`spec.md` calls the core. That core is the weekly hydro-thermal dispatch
pipeline and the pieces around it that hold state or make control decisions.
Every module is written from the C++ under `src/`. `PROJECT.json` maps each
definition to the source lines it models. Where the code is not under `src/`
(the year loop in `economy.cpp`, the post-process command bodies), the map
marks the definition `spec_modelled` and the definition follows `spec.md`.

## 1. The system and its parts

| Part | Source | State | Operations |
|---|---|---|---|
| Hydro ventilation heuristic | `solver/hydro/management/management.cpp` | `tmpDataByArea_` (monthly inflows, mingen, DLN/DLE/MLE), `ventilationResults_` | `makeVentilation` = `prepareInflowsScaling`, `minGenerationScaling`, `checkMinGeneration` (fatal), `prepareNetDemand`, `prepareEffectiveDemand`, the monthly and daily optimal generations |
| Monthly / daily simplex adapters | `solver/hydro/monthly/h2o_m_*.cpp`, `solver/hydro/daily2/h2o2_j_*.cpp`, `solver/hydro/daily/h2o_j_optimiser_un_mois.cpp` | `ProblemeSpx[n]` (stored solver instance per reservoir or per day-count), `ResultatsValides` | `H2O_M_ResoudreLeProblemeLineaire` (warm start, one cold retry, emergency shut-down, write-back), `H2O_M_Free` |
| Weekly problem builder | `solver/simulation/sim_calcul_economique.cpp` | `PROBLEME_HEBDO`: `previousSimulationFinalLevel`, hydro bounds, binding-constraint RHS, thermal data | `SIM_InitialisationProblemeHebdo`, `SIM_RenseignementProblemeHebdo`, `preparerBindingConstraint` |
| Weekly solve | `solver/optimisation/opt_optimisation_hebdo.cpp` | none of its own | linear or quadratic solve, `UnfeasibleProblemError` on failure |
| Post-process pipeline | `solver/optimisation/adequacy_patch_csr/adq_patch_post_process_list.cpp` | the list of commands | eight commands run in list order after each solved week |
| Min down-time constraints | `solver/optimisation/constraints/MinDownTime.cpp` | constraint and term counters of the LP | counting pass and building pass |
| Hydro data of the areas | `libs/antares/study/parts/hydro/container.cpp` | settings of `hydro.ini`, matrices (max power, credit modulations, rule curves, water values, inflow pattern), `hydroModulable` | `PartHydro()`, `reset`, `LoadFromFolder`, `SaveToFolder`, `copyFrom`, `getWaterValue`, `getWeeklyModulation` |
| Thermal cluster data | `libs/antares/study/parts/thermal/cluster.cpp`, `prepro.cpp` | cluster parameters, availability series | `integrityCheck`, `checkAndCorrectAvailability`, cost getters, `checkMinStablePower`, `reset`, `copyFrom`, prepro `normalizeAndCheckNPO` |
| Adequacy patch parameters | `libs/antares/study/parameters/adq-patch-params.cpp` | `AdqPatchParams` (`enabled`, `LocalMatching`, `CurtailmentSharing`) | `reset`, `updateFromKeyValue`, `saveToINI`, `checkAdqPatchParams`, `addExcludedVariables` |
| Short-term storage properties | `libs/antares/study/parts/short-term-storage/properties.cpp` | `Properties` (group, capacities as `std::optional`, efficiency, initial level) | `loadKey`, `validate`, `saveToFolder`, `importShortTermStorages` |
| Output variables | `solver/variable/economy/hydroCost.h`, `STStorageCashFlowByCluster.h`, `all.h` | `pValuesForTheCurrentYear[numSpace]` (one slot per parallel year), `pResults` (all years) | `yearBegin`, `hourForEachArea`, `yearEnd`, `computeSummary` |
| Loaders, UI, writer, other output variables, benchmarking, tools | the rest of `src/` | files, matrices, widgets | I/O and presentation, outside the core (spec section 1) |

How the parts interact. One thread (a `numSpace`) runs one Monte-Carlo
year at a time.

1. The thread first runs the ventilation. Its monthly and daily LPs go
   through the simplex adapter.
2. Weeks then run strictly in sequence:
   - the builder reads the level the previous week left;
   - the weekly solve runs;
   - on success, the post-process list runs, and its last command stores
     the level for the next week;
   - a failed solve is recorded as a failed week.
3. A `FatalError` anywhere ends the whole run.

Years run in parallel threads, one `PROBLEME_HEBDO` per thread, in sets
of at most `maxNbYearsInParallel` years. Each year writes its output
variables into its own slot `numSpace`. When every year of a set has
ended (a barrier), `computeSummary` merges the set's slots into the
all-years results.

What makes this code hard to test:
- the monthly adapter's retry path after a failure;
- a solver that returns no instance;
- the order of the post-process commands, which read and write the same
  levels;
- the level sentinel `-1` that a year start must overwrite;
- failed weeks in the middle of a year;
- numeric edges: interpolation at grid points, the strict capacity check,
  and the effective-demand clipping;
- the loader's checks in between `hydro.ini` sections, and what a save
  followed by a reload loses;
- the units of the rule curves: the loader checks them one way, and the
  builder reads them another way.

`PROJECT.json` "hazards" lists each of these at its source line.

## 2. Modules

### `SimplexAdapter` (with `MCSimplexAdapter`)

This module models `H2O_M_ResoudreLeProblemeLineaire` and `H2O_M_Free`
together. `H2O2_J_ResoudreLeProblemeLineaire` (`daily2/`) has the same
control flow line for line. The caller modelled is `H2O_J_OptimiserUnMois`
(`daily/h2o_j_optimiser_un_mois.cpp`). It picks the problem by the month's
day count and calls `H2O_J_ResoudreLeProblemeLineaire`, the daily solve,
which is not under `src/`. spec.md (section 4.1, step 6, and section 4.3)
says the daily problem is solved by the same generic adapter, indexed by
the day count, so the adapter modelled here stands for it.

State:
- `ProblemeSpx[n]`: a solver instance (a model value) or `NULL`.
- `live` and `released`: the solver's allocation history.
- `pc`: the label the code is at.
- Locals: `ProbSpx`, `PremierPassage`, `Existence`, `ResultatsValides`.
- History: `passes`, `internalError`, `calls`.
- `NombreDeJoursDuMois`: the day count the caller passed for the month.

Actions:
- `H2O_J_OptimiserUnMois(nbJours)`: the loop `NumeroDeProbleme` finds the
  first problem whose `NbJoursDUnProbleme` is `nbJours`. When there is
  none, `ResultatsValides` becomes `EMERGENCY_SHUT_DOWN` and nothing is
  solved. Otherwise `ResultatsValides` becomes `NON` and `Begin` runs on
  that problem. The second member, the bounds and the smoothing of
  over-turbining change only data the model abstracts.
- `Begin`: read the slot.
- `CallSimplexe`: label `RESOLUTION`. A warm start keeps the instance. A
  cold start allocates a new instance, or returns none when allocation may
  fail. The returned instance is stored only if it is not `NULL`.
- `FallBackToColdStart`: release, `ProbSpx = NULL`, `goto`.
- `EmergencyShutDown`.
- `StoreSolution`.
- `ReportNoSolution`.
- `Free`.

The solver is a black box: it may return any status, as the spec treats it.

### `SolveContract` (with `MCSimplexAdapterContract`)

`SolveContract` is what the adapter promises its caller (spec section 4.3),
with the solver left out:
- `Start(n)`: a call on problem `n` takes over that problem's handle. The
  outcome belongs to the caller until the call returns; the daily caller
  resets it to `NON`.
- `Refuse`: a request with no problem of its size ends at once in
  `EMERGENCY_SHUT_DOWN`, with nothing solved.
- `Finish(o, h)`: the call returns `OUI`, `NON` or `EMERGENCY_SHUT_DOWN`.
  The primal values are written exactly on `OUI`. The problem's handle is
  left `none` or `live`, and it is `live` after `OUI`.
- `Free`: every handle is dropped.
- Weak fairness on `Finish`: every call returns.

`MCSimplexAdapterContract` maps the adapter onto the contract with
`INSTANCE SolveContract WITH`:
- `status` is `solving` at the labels `RESOLUTION` and after `SPX_Simplexe`,
  and `freed` after `H2O_M_Free`.
- `problem`, `outcome` and `written` are the call's reservoir,
  `ResultatsValides` and the write-back.
- A slot's handle is `inUse` for the running call's own problem. Otherwise
  it is `none` for `NULL`, `live` for an allocated instance, and `stale` for
  a released one. The contract has no `stale` value.

### `HydroManagement` (with `MCHydroManagement`)

This module models `makeVentilation` up to the optimal generations, once
per year, on the scratch data `tmpDataByArea_`:
- `ResetTmpData`: the resize and the `memset`.
- `PrepareInflowsScaling` and `MinGenerationScaling`: monthly and yearly
  totals.
- `CheckMinGeneration`: the hourly check always. With a heuristic target,
  it adds the weekly check (weeks `0 .. maxWeeksInYear - 2`), the yearly
  check or the monthly check, chosen by the flags.
- `PrepareNetDemand`: the `+=` accumulation.
- `PrepareEffectiveDemand`: the allocation-weighted sum and the clipping
  of each month's days and of the year's months.

Actions:
- `makeVentilation`: a year that passes the checks.
- `VentilationFatal`: the `FatalError` when the checks fail.
- `NextYear` and `LastYear`.

The calendar is cut to months of one or two days, and a month's calendar
month can differ from its position in the simulation. A study (the
`Studies` constant) fixes the number of years and each area's hydro flags
and allocation; `Columns(study)` are the series its years may draw.

### `HydroWeeklyBounds` (with `MCHydroWeeklyBounds`)

This module models one area's hydro bounds in the weekly problem.

Settings:
- `Settings` are the hydro settings `PartHydro::LoadFromFolder` accepts.
  Negative leeways and efficiencies are reset to 0. A leeway lower bound
  above the upper bound is only logged. `useHeuristicTarget =
  useWaterValue = false` is refused.
- From them, `PresenceDePompageModulable`, `TurbinageEntreBornes` and
  `SuiviNiveauHoraire` are derived as `SIM_InitialisationProblemeHebdo`
  does.

`BuildWeek` is the hydro part of `SIM_RenseignementProblemeHebdo`. It
writes:
- the hourly turbine maximum `ContrainteDePmaxHydrauliqueHoraire` (the
  scratchpad's `optimalMaxPower` of the hour's day times the generating
  modulation) and its copy `...Ref`, made last; with modulable pumping,
  the hourly pumping maximum `ContrainteDePmaxPompageHoraire`;
- the hourly minimum generation `MingenHoraire`, the daily inflows
  `InflowForTimeInterval`, and the hourly inflows `ApportNaturelHoraire`
  (the day's inflow over the hours of the day, kept as a fraction; the
  day has `HoursPerDay` hours, 24 in the code and 2 in the run);
- the plain turbine bounds, then the leeway bounds, which overwrite them;
  these are `DGL` and `DGU`;
- the daily energy `Cnt`, including the `marginGen` cut to the initial
  level;
- the plain or scaled pumping bound `DPU`.

Each array is written only under its own branch condition. A bound the code
computes as `x / d` is kept as numerator over denominator, so every
comparison is exact.

The settings do not change during a run, so every week takes the same
branches. An array a week does not write therefore still holds its
allocation. One week built from the allocated arrays stands for every
week, and the run stops after it.

The week's inputs are drawn from `WeekDataFor(settings)`, which is every
week in the module. `MCHydroWeeklyBounds` cuts it down per family. Without
pumping, the pumping capacities are not read and are fixed. With pumping,
the targets and generating capacities are fixed, because that family's
properties are about the pumping bound. This lets the turbine and pumping
families share one run.

### `ThermalCluster` (with `MCThermalCluster`)

Models one thermal cluster of `libs/antares/study/parts/thermal/cluster.cpp`
between loading and the solve. The loader and the GUI that call these
steps are not under `src/`, so after `integrityCheck` the steps may come
in any order. The loading steps run once each; the GUI's checks, edits
and `reset` may repeat.

- **State.** The parameters the solver copies are `nominalCapacity`,
  `nominalCapacityWithSpinning`, `minStablePower`, `spinning`, `minUpTime`
  and `minDownTime`. The rest is the availability series `ts`, the cost
  inputs (`costgeneration`, manual costs, the `fuelcost` and `co2cost`
  matrices, `modulation`), `costsTimeSeries`, and the series drawn per
  year. The capacity modulation (`capacityModulation`, in hundredths) and
  the `minDivModulation` cache are kept, and so are the unit count and the
  prepro's NPO min and max.
- **Units.** Powers are integers in hundredths of a unit, so scaling by an
  integer spinning percentage is exact. A division by zero yields the
  model values `NaN` and `Inf`. Any comparison with them is false, as in
  C++.
- **Actions:**
  - `integrityCheck`: the clamps of the times, the capacity and the
    spinning, including the reset of `nominalCapacityWithSpinning`.
  - `calculationOfSpinning` and `reverseCalculationOfSpinning`, the latter
    followed by `roundAllEntries`.
  - `checkAndCorrectAvailability`: `Pmin * ceil(e / Pmax)` per entry.
  - `ComputeCostTimeSeries`: both modes; in `useCostTimeseries` mode,
    `resizeCostTS`, `ComputeMarketBidTS`, `MarginalCostEqualsMarketBid`
    and `ComputeProductionCostTS`.
  - `checkMinStablePower`: computes the minimum of
    `modulation / ceil(modulation)` (`calculatMinDivModulation`, a
    RECURSIVE scan) if it is not cached. The result is validated against
    the border `min(Pmax', Pmin) / Pmax'`, where `Pmax'` is the code's
    `nominalCapacity * (1 - spinning / 101)`.
  - `checkMinStablePowerWithNewModulation`: the GUI writes one entry, then
    calls it. The cache is recomputed only when the edited entry held the
    minimum.
  - `normalizeAndCheckNPO`: caps NPO max at the unit count, then fails on
    a day whose NPO min exceeds it.
  - `reset`: the defaults of `ThermalCluster::reset` and
    `PreproThermal::reset`. The fields of `Cluster::reset` and
    `ecoInput.reset`, which are not under `src/`, are kept.
  - `copyFrom`: the GUI's copy of another cluster, one of the two
    `SourceClusters` of `MCThermalCluster` (a spun, corrected and costed
    cluster with its minimum quotient calculated, and a checked-only one
    with a modulated capacity and unnormalised NPO data). Every copied
    variable takes the source's value, the prepro data, the cached
    minimum and the ecoInput matrices included; the flags, the history of
    the copied data, come with it; `timeseriesNumbers` is cleared, so
    `MarketBidUsesHourlyModulation` speaks of states whose series are
    drawn. Only the GUI copies, so the weekly problem is not built. The
    prepro's back pointer, which `PreproThermal::copyFrom` also copies,
    is not modelled: it needs a third cluster to show.
  - `InitialisationProblemeHebdo`: the thermal loop of
    `SIM_InitialisationProblemeHebdo` (`sim_calcul_economique.cpp`). It
    copies the cluster into the weekly problem's `pbPalier`, with
    `PmaxDUnGroupeDuPalierThermique = nominalCapacityWithSpinning` and
    `pminDUnGroupeDuPalierThermique` clamped to it. It runs once the
    solver's loading steps are over (checked, spun, corrected, not
    reversed).
- **MinDownTime.** `MinDownTime::add` (`constraints/MinDownTime.cpp`) is
  read as operators over `pbPalier`: `MinDownTimeStopHours` lists the hours
  `k = pdt - D + 1 .. pdt` of the row, an hour before the week wrapping to
  `N + k`; `MinDownTimeRowBuilt` is the "more than one variable" test of
  the building pass; `MinDownTimeReservedTerms` is the `1 + D` the
  counting pass adds. `N` is the constant `OptimisationHorizon`. Variable
  indices and constraint names are left out.
- **Getters.** `getOperatingCost`, `getMarginalCost` and
  `getMarketBidCost` are operators.
- **Cost formula.** `computeMarketBidCost` is fixed at efficiency 360,
  CO2 factor 1 and O&M 0. Its only role here is to give each column a
  distinct cost.

### `PartHydro` (with `MCPartHydro`)

This module models the hydro data of the areas, from its construction to the
weekly builder's reading of it.

- State: per area, the 15 settings of `hydro.ini` (`hydro[a][f]`), the
  matrices (`mats[a]`, one day, in thousandths), `hydroModulable`. The
  files are a variable too (`disk`: whether `hydro.ini` exists, its
  entries, the matrix files). `usedByTheSolver` says whether the solver
  or the GUI runs the study.
- `Init`: the areas as `PartHydro()` builds them; the files are any
  `MCPartHydro` lists.
- `LoadFromFolder` is one action, as the function runs without
  interruption. It takes the defaults, then the matrices. The solver
  checks the matrices (`MatricesValid`); the GUI only notes whether the
  area is hydro modulable. Then `hydro.ini` is read, if it opens, section
  by section (`LoadedSettings`, `Correct`), with the checks in between
  (`CapacityCheck`, `HeuristicCheck`). An entry that does not parse makes
  the result false and leaves either the default or zero, as the build's
  conversion may do.
- `SaveToFolder`: which entries are written (`SavedEntry`) and the matrices
  rounded to the decimals written (`SavedMatrices`).
- `reset`, `copyFrom`: as in the code. `reset` leaves `pumpingEfficiency`;
  neither touches `hydroModulable`.
- `PrepareWeek`: the start of a week of `SIM_RenseignementProblemeHebdo`
  for each managed reservoir. It reads the level the previous week left
  and interpolates the modulations (power to level) and the water value
  (use water) at it. Levels are `k / LevelSteps` of the capacity, so every
  interpolated value is kept times `LevelSteps` and the arithmetic is exact.
  The reference is the piecewise-linear function through the table's
  points. It also sets the hourly level envelope (`envelope`,
  `NiveauHoraireInf`/`Sup`). With hard bounds on rule curves
  (`hourlyBounds`) it is the rule curves times the capacity
  (`RuleCurveEnvelope`); otherwise it is `[0, capacity]`, as
  `SIM_InitialisationProblemeHebdo` sets it. A managed reservoir with
  `hardBoundsOnRuleCurves` may or may not be built with hard bounds
  (`HardBoundsPossible`). The choice is made at the first week and kept,
  because the rest of the condition (weekly optimisation, accurate water
  values, the scratchpad's `hydroHasMod`) depends on parameters and series
  that stay fixed for the run.
- Short-term storages (`sts`, `stsImported`, areas in `StorageAreas`): the
  load reads each storage's `list.ini` section into
  `STStorageProperties` and validates it. The load's result also needs
  `validate` to have passed. Whether an entry `loadKey` refused fails the
  load (`strict`) depends on the list loader, which is not under `src/`,
  so both outcomes are allowed. The save writes `saveToFolder`'s section.
  The week imports the properties as `importShortTermStorages` does.
- The initial-level draw (`randomReservoirLevel`, `management.cpp`) is
  modelled as operators on the loaded rule curves, up to the random draw.
  `BetaShapes` gives the average itself when the curves meet (min = max,
  or the average on a bound). Otherwise it gives the shapes `a`, `b` of
  the Beta variable. The arithmetic uses exact rationals reduced by
  `GCD`; a division by zero gives `[1, 0]`, which stands for +inf.
  `Math::Equals` is equality, because the levels are in thousandths.
  `GammaShapeValid` is the domain `GammaVariable`'s assertions and its
  `log(x / s)` need: a shape above 1. The sampling loop is not modelled.
  The caller, which draws the level once per year, is in `solver.hxx`,
  which is not under `src/`. The property is therefore stated on the
  curves of every study the solver loads successfully.

### `STStorageProperties`

This is a library module of operators with no state; `PartHydro` uses
it. It models the properties of a short-term storage
(`short-term-storage/properties.cpp`). Values are integers in thousandths.
A `std::optional` with no value is `Absent`. An entry no parser accepts
is `Garbage`.
- `loadKey`: one `key = value` entry. The three capacities are set only
  when the value parses. A group must be a key of
  `ST_STORAGE_PROPERTY_GROUP_ENUM`. An unknown key is refused.
- `validate`: false when a capacity has no value (`checkMandatory`), and
  false when a capacity is negative (`negativeMandatory`). An empty
  optional compares below zero, so the second check also catches a
  missing capacity. Otherwise it clamps the efficiency into `[0, 1]`, and
  it replaces an initial level outside `[0, 1]` with the default.
- `saveToFolder`: the entries in the code's order. An empty optional is
  written as an entry that does not parse (`Written`).
- `importShortTermStorages`: the weekly problem's copy. `.value()` on an
  empty optional throws (`BadOptionalAccess`).

### `WeeklySimulation` (with `MCWeeklySimulation`)

This module models one thread's years with the adequacy patch enabled.

- `StartYear` / `VentilationFails`: `makeVentilation` either succeeds or
  throws `FatalError` from `checkMinGeneration`. On success, the year
  loop (`Economy::year`, not under `src/`, modelled from spec.md) takes
  the first week's level from the configuration, or from the previous
  year's final level on a hot start.
- `BuildWeek`: `SIM_RenseignementProblemeHebdo`. It first copies each
  link's flags and, for a link with hurdle costs, the week's hours of its
  direct and indirect hurdle-cost columns into both the problem's arrays
  and their `Ref` copies (`CopyHurdleCosts`, `CoutDeTransport`); a link
  without hurdle costs keeps its arrays. This happens before the two
  fatal level checks. When they pass, every binding constraint gets its right-hand
  side (`SecondMembre`) from `preparerBindingConstraint`. The column is 0
  for a single-column series or a constraint without a group; otherwise it
  is the group's `timeseriesNumbers` for the year. Hourly constraints copy
  the week's hours and daily ones the week's days. Weekly ones write the
  sum of the week's days (`WeeklySum`) into slot 0. The slots a type does
  not write keep their value.
- `timeseriesNumbers` is drawn in `Init` for every group and year, below
  the group's width. This stands for the time-series numbers generator,
  which is not under `src/`.
- `SolveWeek` / `WeekFails`: `OPT_OptimisationHebdomadaire`. A solve
  either finds a solution or throws `UnfeasibleProblemError`. A failed week
  is counted and skips the post-processing.
- One action per post-process command, each taken when it is next in
  `PostProcessList` (the list the `AdqPatchPostProcessList` constructor
  builds).

The schedule and the levels are abstracted to the version of the schedule
they come from: `"solved"` or `"remixed"`. That is all the ordering
properties need to tell apart. The command bodies are not under `src/` and
follow spec section 4.4:
- the two level updates recompute levels from the current schedule;
- the remix rewrites the schedule and keeps the weekly total;
- the interpolation reads the levels;
- the final update carries the end level forward.

Before the first year (`phase = "params"`), the study's section
"adequacy patch" is loaded with `AdqPatchParams` (`study`,
`adqPatchParams`). The model keeps the outcomes that enable the patch,
since the list above is the one built for that case. `CheckParameters`
runs `checkAdqPatchParams`. If the check throws, the run ends in
`"rejected"`; otherwise the years start. The solver's call of the check
and the `Parameters` loader are not under `src/`.

### `AdqPatchParams`

This is a library module of operators with no state; `WeeklySimulation`
uses it. It models the adequacy patch parameters
(`study/parameters/adq-patch-params.cpp`).
- A parameter set is a record of the code's three structs.
- `updateFromKeyValue` offers a key to both structs and XORs their
  results. An unparsable value returns false and leaves the field
  unchanged or zeroed (`ValueTo`).
- `LocalMatchingReset` leaves `enabled` as it is, as the code does.
- The price-taking order is text (`Text`: its word, its case, its
  padding). `StringToPriceTakingOrder` trims it and lowers its case.
  `PriceTakingOrderToString` writes `"DENS"` or `"Load"`.
- `saveToINI` writes the entries in the code's order.
- `checkAdqPatchParams` returns the first check that throws.
- `addExcludedVariables` gives the output variables the patch removes.
- The constructed defaults (`adq-patch-params.h`, not under `src/`) are
  constants of the cfg.

### `YearlyResults` (with `MCYearlyResults`)

This module models three output variables over the years, run in sets of
parallel years:
- `HydroCost`, whose hour accumulates (`+=`) water value times turbining
  minus `pPumpRatio` times pumping;
- `STstorageCashFlowByCluster`, whose hour of each cluster is set (`=`) to
  withdrawal minus injection, times minus the marginal price;
- `FlowQuad` (`links/flowQuad.h`), a link's flow of the quadratic
  recomputation. It passes every year call on untouched.
  `simulationBegin` resets its values; `simulationEnd` copies the
  all-years mean flow (`transitMoyenInterconnexionsRecalculQuadratique`)
  into them and merges them once, as year 0, into its raw results.

State: each slot's hours and annual value (`hydroCostValues`,
`cashFlowValues`), the all-years results (count, sum, minimum and maximum
with their years), and `numSpaceToYear`. Two history variables record
each year's true totals, hour by hour, for the property.

Actions, one per call of the variable list (`all.h` chains every call
through every variable):
- `yearBegin(ns)`: a year job starts in slot `ns` and resets it;
- `hourForEachArea(ns)`: the next hour's results are written;
- `yearEnd(ns)`: the year's statistics are computed;
- `computeSummary`: once every year of the set has ended, slots `0 ..
  nbYearsForCurrentSummary - 1` are merged, each at its year;
- `simulationBegin` and `simulationEnd`, before the first set and after
  the last one. `simulation` records which has run, and `drawnTransit`
  records the mean flow that was copied.

The driver (`buildSetsOfParallelYears`, the jobs, the barrier) is in
`solver.hxx` and the merge in `R::AllYears`, neither under `src/`. They
follow spec section 5: every year is performed, a set takes the next
years in order, and a set's years take slots 0, 1, ... The raw merge of
`FlowQuad` (`R::AllYears::Raw`, not under `src/`) adds the hourly values
in and counts the merges.

## 3. Runs

| Run | Expect | What it shows |
|---|---|---|
| `simplex_adapter` | pass | Four daily problems of 31, 30, 29 and 28 days, four successive months of any of these lengths, any solver status, no allocation failure. `NoDanglingInstance`: at every call boundary, no slot holds a released instance, and no pass starts on one. `AtMostOneColdRetry`: at most two solver passes per call. `CallReturns`: every call returns. `ContractSpec`: under the refinement mapping, the adapter implements `SolveContract`, fairness included. 738 180 states. |
| `simplex_adapter_alloc_fail` | violation of `NoDanglingInstance` | Sequence: a first pass fails, the fallback releases the instance, the cold retry returns `NULL`. The slot keeps the released instance (finding 1). |
| `simplex_adapter_internal_error` | violation of `InternalErrorIsFatal` | Sequence: a first pass fails, then the cold retry reports `SPX_ERREUR_INTERNE`. The call ends with `NON`, not `EMERGENCY_SHUT_DOWN` (finding 2). |
| `part_hydro` | pass | Two areas; the files vary the settings the checks read, with and without `hydro.ini`, valid matrices or one broken check. The solver loads, then reads weeks at levels 0, 1/3, 2/3 and 1. The GUI loads, resets, copies, saves and reloads. `TypeOK`: the loader's corrections keep every setting in range. `InterpolationMatchesReference`: the week's interpolations equal the reference at grid levels, between rows, and at the top row. `RandomLevelShapesValid`: after a successful solver load, the draw of each area's initial level gets Gamma shapes above 1 exactly when the average curve lies strictly between the minimum and the maximum. Area `a1` also has three rule-curve sets the loader accepts although the average is not strictly between the bounds: above the maximum (e = 8/5), at 2·min − max (e = −1, where 1 + e = 0), and on the minimum (the early return). So the property shows that an accepted study can reach `GammaVariable` with a shape of 0 or below. The loader never checks `min <= avg <= max`. Area `a2` also has a short-term storage. Its `list.ini` section is one of four: valid but with an efficiency and initial level to correct; an unparsable then a valid capacity, with an unknown group; no reservoir capacity; or a negative withdrawal capacity. 1 245 982 states. |
| `part_hydro_rule_curves` | violation of `EnvelopeWithinReservoir` | Area `a2` is a managed reservoir with hard bounds and a maximum rule curve of 50. That is a percentage, as spec.md expresses levels, and the loader's check (at most 100) accepts it. The first week's upper envelope is 50 times the capacity. The finding on `container.cpp:210` explains this. |
| `hydro_ventilation` | pass | Two areas, two months of one and two days of two hours. The minimum-generation studies: one year, every configuration of `a1`, its inflows, hourly mingen and daily max power over small sets. The effective-demand studies: two years, every allocation over `{0, 1}`, a day's net demand `-2` or `1`. `MinGenCheckMatchesWindows`: `checkMinGeneration` fails exactly when a window the configuration asks for has more minimum generation than inflows, or an hour more than the max power. `EffectiveDemandClipped`: after clipping, DLE and MLE are non-negative, keep the demand's shape, and are untouched where nothing was negative, in every year. 141 722 states. |
| `hydro_weekly_bounds` | pass | A week of two days, a reservoir of capacity 3, two families of settings. Turbine: every loadable turbine setting, every leeway band, target, generating capacity and modulation over `{0,1,2}`. Pumping: a managed reservoir with pumping, efficiency, pumping capacity and modulation over `{0,1,2}`. `WeekBoundsRespectReservoir`: the leeway bounds add up to at most the usable water; the forced energies to at most the initial level times the modulation; the scaled pumping bounds times the efficiency fit in the room left. `TurbineBoundsFreshWhenUsed`: an area that turbines between bounds has them written by the week being built. `TypeOK` shows that no division by `U = 0` happens. 9 953 408 states. |
| `hydro_weekly_capacity` | violation of `TurbineWithinDailyCapacity` | Leeway lower bound 0, a day with capacity times modulation 0 and a positive target: `DGU` stays at target times upper leeway (finding 3). |
| `weekly_simulation` | pass | Three years of three weeks with hot start, where any week may fail. `PostProcessUsesCurrentLevels`: the remix reads pre-remix levels; the water values and the carried level come from post-remix levels. `BindingRHSOfWeek`: while a week is solved and post-processed, each constraint's right-hand side is the one `spec.md` gives for that week and year. `HurdleCostsOfWeekCopied`: while a week is solved and post-processed, a link with hurdle costs holds that week's hours of its cost columns in both directions and in the `Ref` arrays, and every link's flags are its own; checked for two links (one with hurdle costs and loop flow, one with neither) whose costs differ by link, direction and hour of the year. This is checked for four constraints (hourly, daily and weekly in a two-column group, where the weekly one has a single column; and a weekly one with no group), with every draw of the group's column per year. `AdqPatchSaveLoadRoundTrip`: the parameters a study's section gives come back unchanged after `saveToINI` and a reload. This is checked for four studies: the order `" load "` with the local matching rule off and an unparsable threshold, the rule off with the default order, `"DENS"` with an unparsable `enable-first-step`, and an adequacy study. 175 720 states. |
| `yearly_results` | pass | Three years run two at a time, so the second set is partial. Two hours, one short-term storage, hourly energies over `{0, 1}`. `SummaryMatchesYears`: however the jobs of a set interleave, the results of both variables count each summarised year once, with its own hours, and the minimum and maximum name years that have them. 1 204 916 states. |
| `thermal_cluster` | pass | Loaded capacity `{-1, 2}` units, minimum stable power 3, spinning `{-10, 50}`, up times `{0, 200}`, a down time of 168, an availability of one unit, and the steps in every order. `AvailabilityServable`: after the correction that follows the spinning, `ceil(e / Pmax)` units at the `Pmin` and `Pmax` the weekly builder gives the group never exceed `e`; the correction and the builder compute these bounds separately. Two availability series, fuel and CO2 matrices of one or two columns, both cost modes. `OperatingCostIsModulatedMarginal`: the operating cost equals the marginal cost, and both equal the documented cost of the series times the hourly cost modulation. GUI edits of the capacity modulation to `{0, 0.5, 1.5}`. `MinDivModulationFresh`: the cached minimum quotient and its index are exact for the current modulation after any sequence of edits, checks, resets and copies. NPO min and max over `{0, 1, 2}` against one unit. `NPOWithinUnitCount`: accepted NPO data has min ≤ max ≤ unit count. `MinDownTimeRowWellFormed`: over the weekly horizon of 168 hours, the min down-time row at hour 0 and hour 167 is built, names each of its `D` stopped-units hours once and inside the horizon, and fits the reserved terms; a down time of 168 makes the wrap cover the whole week. 1 934 172 states. |
| `thermal_market_bid` | violation of `MarketBidUsesHourlyModulation` | Series 0 is drawn and the market-bid modulation is `1, 2`. At hour 1 `getMarketBidCost` multiplies by the modulation of row 0 (finding 4). |

Findings (see `PROJECT.json`):
1. **code_bug.** In `h2o_m_resoudre_le_probleme_lineaire.cpp:123` the
   slot is overwritten only by a non-null instance. After the release at
   line 132, the slot therefore keeps a freed instance if the retry returns
   none. The next warm start uses it, and `H2O_M_Free` frees it twice. The
   code's own `if (ProbSpx)` shows that `NULL` is an expected result of
   `SPX_Simplexe`.
2. **spec_code_divergence.** An internal error on the retry is reported as
   `NON`. Spec sections 4.3 and 7 say it is fatal and must be told apart
   from infeasibility.

3. **code_bug.** In `sim_calcul_economique.cpp:727` and `:733`, the
   leeway band is clipped to the day's capacity `DGCxDGM` by two strict
   tests. When `DGCxDGM` equals `DGL_tmp` and is below `DGU_tmp`, neither
   test fires, and `DGU` keeps `DNT * LUB`. With a leeway lower bound of 0,
   this happens on every day of zero capacity or zero modulation that
   still has a target. The day then gets a positive turbine bound and a
   share of the week's usable water it cannot use.

4. **code_bug.** `cluster.cpp:767`: `getMarketBidCost` reads
   `modulation[thermalModulationMarketBid][serieIndex]`. The modulation
   column is hourly (8760 rows), and its siblings read
   `[hourInTheYear]`. So the market bid of every hour is scaled by the
   modulation of the hour whose number is the series drawn for the year.

5. **spec_code_divergence.** `container.cpp:210` accepts rule curves up
   to 100, and spec.md gives levels as percentages in `[0,100]`. The
   builder multiplies the same curves by the capacity
   (`sim_calcul_economique.cpp:513-530`). An accepted maximum curve of 50
   gives a week with hard bounds an upper level of 50 times the capacity.

Not run, for want of a run slot: two edges of `checkMinStablePower`.
First, a capacity modulation of 0 at hour 0 makes the cached minimum
`NaN` (`cluster.cpp:648`). Every later comparison is then false, so the
check validates whatever the other hours hold. Second, the check computes
the capacity with `1 - spinning / 101` (`cluster.cpp:678`), while the
solver's Pmax from `calculationOfSpinning` uses `/ 100`. The border it
validates against is therefore not the solver's. `Border` models the
code's formula. `PROJECT.json` lists both as hazards.

Also not run: at a spinning of 100, which `integrityCheck` accepts,
`reverseCalculationOfSpinning` (`cluster.cpp:431`) multiplies the zeroed
series by `1/0`. The series written back are then `NaN`. The action
models this, but the matrix code it relies on is not under `src/`.

A further divergence, noted here but not run: the retry condition at line
128 tests the returned instance, not whether the pass was a warm start. A
failed cold first pass is therefore also retried cold. Spec section 4.3
describes the retry only as a fallback from a warm start.
`AtMostOneColdRetry` still holds.

## 4. Bounds, fairness, deadlock

Bounds:
- **SimplexAdapter.** Four problems, one per day count of a month as
  spec section 3 gives them (28 to 31), in decreasing order so that a
  28-day month makes the search loop reach the last problem; two months
  of a length reuse a slot while another holds state. With every length
  present, the no-problem shut-down of `H2O_J_OptimiserUnMois` is not
  reached. Four calls, enough for a warm start after a retry on the
  same slot. Six instances. `InstancesLeft` stops new calls when fewer than
  two fresh instances remain, so a call never runs out of the instances
  its two passes may allocate.
- **WeeklySimulation.** Three years, enough for a hot start from a year
  that itself was hot-started. Three weeks, enough for a failed week
  between two solved ones. Capacity 2 with initial levels `{0, 2}` covers
  both bounds of the builder's check. Weeks have two days of two hours
  (7 and 24 in the code). That is enough to tell a day from an hour and
  the first day from the last, and for a weekly sum to have more than one
  term. Every series value is distinct, so a read from the wrong column,
  hour, day or year shows.
- **PartHydro.** Levels in thirds against tables of rows `0..2` give levels
  strictly between rows and on them. Every water-value table over
  `{0,1,2}`. Area `a1`'s capacity is absent, 5e-4 (under the 1e-3 a managed
  reservoir needs), 2, or does not parse. Its flags cover each omission
  `SaveToFolder` makes, and a credit modulation of 1.234 is rounded by the
  save. A capacity of exactly 1e-6 is left out: `SaveToFolder` omits it
  (`> 1e-6`) while the loader keeps it (`< 1e-6` zeroes), so it is lost on a
  reload. The value is below the 1e-3 any managed reservoir needs, so it
  has no effect. Area `a2` has hard bounds on rule curves, so its weeks
  are built both with and without the rule-curve envelope. The model's
  curves are the same every day: the hourly interpolation between two days
  adds nothing to a bound on the envelope's extreme values.
- **HydroManagement.** Months of one and two days, with weeks of two days,
  give a partial last week (the `maxWeeksInYear - 1` bound) and a month
  whose calendar month differs from its simulation position. Two years
  show the accumulation across years. The minimum-generation studies have
  one year and the demand studies two, and each family zeroes the series
  the other varies: the checks read only inflows, mingen and max power,
  and the clipping only net demand.
- **HydroWeeklyBounds.** Two days are the fewest for which scaling spreads
  water between days. Values `{0,1,2}` reach zero capacity, zero
  modulation, zero targets, equality at each clipping test, and a leeway
  lower bound above the upper one. Capacity 3 lets the initial level and
  the inflows exceed or fall short of the targets and the room (the
  capacity violation run uses 2).
- **YearlyResults.** Three years in sets of two give a full set and a
  partial one. In the partial set, slot 1 still holds a year of the first
  set, and slot 0 is reused by a new year. Two hours make the `+=` of one
  hour differ from the year's total. The energies `{0, 1}` with pumping
  efficiency 1 give hourly costs `-1`, `0` and `1`, so years differ and a
  minimum or maximum can come from any year.
- **ThermalCluster.** One availability of one unit against a capacity of
  two units and a minimum stable power of three. The correction then lifts
  the entry both without spinning and at 50 percent. Two series against
  matrices of one or two columns make every clamp of the cost indices fire,
  with a matrix narrower than the series. The pass run reads one matrix per
  width whose columns differ (`MCCostMatrices`): a cost read from the
  wrong column changes the value, and any other contents would only repeat
  the same index arithmetic. Two hours are the fewest for which an edit can
  hit an entry other than the cached minimum. The edit values give a zero
  (`NaN` quotient), 0.5 and 0.75. The NPO values include an NPO max above
  the unit count, both with and without an NPO min above it. The market-bid run uses two
  series over two hours and modulations `{1, 2}`, so that a series number
  and an hour differ. It never uses more series than hours: the code
  reads an hourly column at the series index, and the column of the
  model is only as long as its hours.

Fairness. A call, a week and a year each run sequentially on one thread
with no waiting. That justifies weak fairness on the adapter's internal
steps and `WF_vars(Next)` for the weekly loop. In `YearlyResults`, the
year jobs run on the worker threads of the job queue and the summary on
the simulation thread once they finish, so `WF_vars(Next)` holds too. New calls (`H2O_J_OptimiserUnMois`) and
`Free` are left unfair: the caller decides whether they happen. The
liveness properties checked are the adapter's: `CallReturns` and the
fairness `SolveContract` carries into `ContractSpec`. The fairness of the
weekly loop and of the yearly results states the scheduling; no run
checks a liveness property of them, because the year loop and the driver
that would have to make progress are not under `src/`.

Deadlock. `CHECK_DEADLOCK FALSE` is used only where the program really
stops: after `H2O_M_Free`, after the last year or a `FatalError`, and
once the last set of years is summarised. It
is also used after the one week `HydroWeeklyBounds` builds (see its
section), once every step of `ThermalCluster` has run (loading is over),
and in `PartHydro` when the solver's load fails (the study is not
simulated).

## 5. Not modelled

Hazards listed in `PROJECT.json` that no run checks, and why:
- **`checkMinStablePower` edges.** A zero capacity modulation at hour 0
  (`NaN` minimum, validating anything) and the `/101` border that differs
  from the solver's `/100` capacity. `ThermalCluster` models both
  formulas, and with them the checks are plainly violated for suitable
  inputs; each needs a run of its own that expects the violation, and the
  project's twelve runs are spent on other questions.
- **`WaterLayerValues` past the table.** The index goes one column past
  the `DAYS_PER_YEAR` columns only when the last simulated week ends on
  the year's last day, which the calendar decides; the calendar is not
  under `src/`.
- **Parallel years sharing one `HydroManagement`.** Whether the instance is
  shared is decided in `solver.hxx`, which is not under `src/`.
- **The initial level over capacity by a solver tolerance**, the
  **prepro checks that only log**, and the **`NaN` series after
  `reverseCalculationOfSpinning`**: the end level, the generator and the
  export that would read the bad values are not under `src/`.

The copy `copyFrom` makes of the prepro back pointer is not modelled: one
cluster is modelled, and the pointer is read only by the prepro's loader.

Not modelled:
- Loaders and validators (INI, matrices), except the hydro data and the
  short-term storages' properties, which `PartHydro` models, and the
  adequacy patch parameters, which `WeeklySimulation` models. Of the hydro data these are also left out: matrix
  files that are missing or of the wrong size, the JIT loading
  (`forceReload`, `markAsModified`), and the time-series generators. The
  thermal prepro's `loadFromFolder` checks only log: it never returns
  false on a rate or duration out of range, so the loaded data is simply
  an input of `Init`.
- Output variables other than `HydroCost`, the short-term storage
  cash flow and `FlowQuad`, and the writer. The others follow the same slot pattern.
- The UI and tools.

In the weekly builder, the NTC copy reads `TimeSeries::getColumn`, which
is not under `src/`, and the must-run, net-load and reserve copies are
sums and copies of series no property reads. The rest are I/O and
presentation with no control flow of the core. The
quadratic cost and RHS helpers only fill arrays. The solver internals are a
black box, as the spec says.
