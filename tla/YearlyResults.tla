---------------------------- MODULE YearlyResults ----------------------------
(***************************************************************************)
(* The output variables of an area over the Monte-Carlo years, run in     *)
(* sets of parallel years. Each year of a set runs in its own slot         *)
(* numSpace of pValuesForTheCurrentYear: yearBegin resets the slot,        *)
(* hourForEachArea writes each hour of the year, yearEnd computes the      *)
(* year's statistics. Once every year of the set has ended (the barrier),  *)
(* computeSummary merges the slots 0 .. nbYearsForCurrentSummary - 1 into  *)
(* the all-years results pResults, each at the year numSpaceToYear gives.  *)
(*                                                                         *)
(* Three variables of economy/all.h are modelled:                          *)
(*   - HydroCost (hydroCost.h): one column; an hour accumulates (+=)       *)
(*     water value * (turbining - pPumpRatio * pumping);                   *)
(*   - STstorageCashFlowByCluster (STStorageCashFlowByCluster.h): one      *)
(*     column per short-term storage; an hour is set (=) to                *)
(*     (withdrawal - injection) * -(marginal price);                       *)
(*   - FlowQuad (links/flowQuad.h), a link's flow of the quadratic         *)
(*     recomputation: nothing per year; simulationBegin resets its values, *)
(*     simulationEnd copies the all-years mean flow                        *)
(*     (transitMoyenInterconnexionsRecalculQuadratique) into them and      *)
(*     merges them once, as year 0, into its raw results.                  *)
(* The driver (buildSetsOfParallelYears, the year jobs, the barrier) is in *)
(* solver.hxx, not under src: it is modelled from spec.md, with every year *)
(* performed and the years of a set given the slots 0, 1, ... in order.    *)
(* The results merge (R::AllYears, not under src) keeps, of the annual     *)
(* value, the count and the sum (the average), and the minimum and the     *)
(* maximum with the year they come from.                                   *)
(***************************************************************************)
EXTENDS Integers, FiniteSets, FiniteSetsExt, Functions

CONSTANTS
  NbYears,          \* Monte-Carlo years
  NbYearsParallel,  \* study.maxNbYearsInParallel
  NbHours,          \* hours of the year
  NbClusters,       \* area->shortTermStorage.count()
  PumpRatio,        \* area->hydro.pumpingEfficiency (>= 0 once loaded)
  Energies,         \* hourly turbining, pumping, injection, withdrawal
  WaterValues,      \* valeurH2oHoraire
  Prices,           \* CoutsMarginauxHoraires
  Transits          \* transitMoyenInterconnexionsRecalculQuadratique entries

ASSUME /\ NbYears \in Nat \ {0} /\ NbYearsParallel \in Nat \ {0}
       /\ NbHours \in Nat \ {0} /\ NbClusters \in Nat /\ PumpRatio \in Nat

Years == 0..NbYears - 1
NumSpaces == 0..NbYearsParallel - 1
Hours == 0..NbHours - 1
Clusters == 0..NbClusters - 1

\* buildSetsOfParallelYears: the years, NbYearsParallel at a time, in order;
\* the last set may be partial.
NbSets == (NbYears + NbYearsParallel - 1) \div NbYearsParallel

\* Mutant: the sets run to year NbYears included.
YearsOfSetPastEnd(s) == {y \in 0..NbYears : y \div NbYearsParallel = s}

YearsOfSet(s) == {y \in Years : y \div NbYearsParallel = s}

\* IntermediateValues after reset(): every hour and the annual value zero.
ResetValues == [hour |-> [h \in Hours |-> 0], year |-> 0]

\* FlowQuad's raw all-years results (R::AllYears::Raw): the merges and
\* the hourly values merged.
NoRawResults == [count |-> 0, hour |-> [h \in Hours |-> 0]]

\* The all-years results of one column before the first merge.
NoResults == [count |-> 0, sum |-> 0, min |-> 0, minYear |-> -1, max |-> 0, maxYear |-> -1]

VARIABLES
  currentSet,       \* the set of parallel years being run; NbSets when all are done
  numSpaceToYear,   \* the year run in each slot
  job,              \* [NumSpaces -> {"idle", "begun", "ended"}]
  hour,             \* the next hour of the year of each slot
  hydroCostValues,  \* HydroCost::pValuesForTheCurrentYear
  cashFlowValues,   \* STstorageCashFlowByCluster::pValuesForTheCurrentYear
  hydroCostResults, \* HydroCost pResults
  cashFlowResults,  \* STstorageCashFlowByCluster pResults, per cluster
  drawnHydroCost,   \* (history) each year's total hydro cost, hour by hour
  drawnCashFlow,    \* (history) each year's total cash flow of each cluster
  simulation,       \* "before", "running" (after simulationBegin), "ended"
  flowQuadValues,   \* FlowQuad::pValuesForTheCurrentYear
  flowQuadResults,  \* FlowQuad pResults
  drawnTransit      \* (history) the mean flow simulationEnd copied

vars == <<currentSet, numSpaceToYear, job, hour, hydroCostValues, cashFlowValues,
          hydroCostResults, cashFlowResults, drawnHydroCost, drawnCashFlow,
          simulation, flowQuadValues, flowQuadResults, drawnTransit>>
flowQuadVars == <<simulation, flowQuadValues, flowQuadResults, drawnTransit>>

Values == [hour : [Hours -> Int], year : Int]
ResultsOf == [count : Nat, sum : Int, min : Int, minYear : Years \cup {-1},
              max : Int, maxYear : Years \cup {-1}]

TypeOK ==
  /\ currentSet \in 0..NbSets
  /\ numSpaceToYear \in [NumSpaces -> Years \cup {-1}]
  /\ job \in [NumSpaces -> {"idle", "begun", "ended"}]
  /\ hour \in [NumSpaces -> 0..NbHours]
  /\ hydroCostValues \in [NumSpaces -> Values]
  /\ cashFlowValues \in [NumSpaces -> [Clusters -> Values]]
  /\ hydroCostResults \in ResultsOf
  /\ cashFlowResults \in [Clusters -> ResultsOf]
  /\ drawnHydroCost \in [Years -> Int]
  /\ drawnCashFlow \in [Years -> [Clusters -> Int]]
  /\ simulation \in {"before", "running", "ended"}
  /\ flowQuadValues \in Values
  /\ flowQuadResults \in [count : Nat, hour : [Hours -> Int]]
  /\ drawnTransit \in [Hours -> Transits \cup {0}]

-----------------------------------------------------------------------------
(* The methods of the variables.                                          *)

\* Mutant: yearBegin leaves the slot as the previous year left it.
HydroCostYearBeginKeeps(v) == v

\* HydroCost::yearBegin: pValuesForTheCurrentYear[numSpace].reset().
HydroCostYearBegin(v) == ResetValues

\* STstorageCashFlowByCluster::yearBegin: every cluster's values reset.
CashFlowYearBegin(v) == [c \in Clusters |-> ResetValues]

\* HydroCost::hourForEachArea: hour[h] += water value * (turbining -
\* pPumpRatio * pumping).
HydroCostHour(v, h, wv, turb, pump) ==
  [v EXCEPT !.hour[h] = @ + wv * (turb - PumpRatio * pump)]

\* STstorageCashFlowByCluster::hourForEachArea: hour[h] = (withdrawal -
\* injection) * -(marginal price), for each cluster of the area.
CashFlowHour(v, h, withdrawal, injection, price) ==
  [c \in Clusters |-> [v[c] EXCEPT !.hour[h] = (withdrawal[c] - injection[c]) * (-price)]]

\* computeStatisticsForTheCurrentYear: the annual value from the hours.
Statistics(v) == [v EXCEPT !.year = SumFunction(v.hour)]

\* pResults.merge(year, values): the annual value counted, summed, and
\* compared with the minimum and the maximum so far.
Merge(r, year, v) ==
  LET x == v.year
      first == r.count = 0
  IN [count |-> r.count + 1, sum |-> r.sum + x,
      min |-> IF first \/ x < r.min THEN x ELSE r.min,
      minYear |-> IF first \/ x < r.min THEN year ELSE r.minYear,
      max |-> IF first \/ x > r.max THEN x ELSE r.max,
      maxYear |-> IF first \/ x > r.max THEN year ELSE r.maxYear]

\* Mutant: the summary merges every slot, not only the set's years.
SlotsMergedAll(nbYearsForCurrentSummary) == NumSpaces

\* computeSummary: for (numSpace = 0; numSpace < nbYearsForCurrentSummary; ...).
SlotsMerged(nbYearsForCurrentSummary) == 0..nbYearsForCurrentSummary - 1

\* Mutant: a slot is merged at its own index, not at its year.
MergeYearOfSlot(ns) == ns

\* merge(numSpaceToYear[numSpace], ...).
MergeYear(ns) == numSpaceToYear[ns]

\* Merge the given slots, in increasing order, into the results.
RECURSIVE MergeSlots(_, _, _)
MergeSlots(r, slots, values) ==
  IF slots = {} THEN r
  ELSE LET ns == Min(slots)
       IN MergeSlots(Merge(r, MergeYear(ns), values[ns]), slots \ {ns}, values)

\* FlowQuad::simulationEnd: memcpy of the mean flow into the hours, then
\* computeStatisticsForTheCurrentYear.
FlowQuadEndValues(v, transit) == Statistics([v EXCEPT !.hour = transit])

\* R::AllYears::Raw merge: the hourly values added in.
RawMerge(r, v) == [count |-> r.count + 1, hour |-> [h \in Hours |-> r.hour[h] + v.hour[h]]]

-----------------------------------------------------------------------------
Init ==
  /\ currentSet = 0
  /\ numSpaceToYear = [ns \in NumSpaces |-> -1]
  /\ job = [ns \in NumSpaces |-> "idle"]
  /\ hour = [ns \in NumSpaces |-> 0]
  /\ hydroCostValues = [ns \in NumSpaces |-> ResetValues]
  /\ cashFlowValues = [ns \in NumSpaces |-> [c \in Clusters |-> ResetValues]]
  /\ hydroCostResults = NoResults
  /\ cashFlowResults = [c \in Clusters |-> NoResults]
  /\ drawnHydroCost = [y \in Years |-> 0]
  /\ drawnCashFlow = [y \in Years |-> [c \in Clusters |-> 0]]
  /\ simulation = "before"
  /\ flowQuadValues = ResetValues
  /\ flowQuadResults = NoRawResults
  /\ drawnTransit = [h \in Hours |-> 0]

\* simulationBegin, before the first year: FlowQuad resets its values
\* (HydroCost and the cash flow only pass the call on).
simulationBegin ==
  /\ simulation = "before"
  /\ simulation' = "running"
  /\ flowQuadValues' = ResetValues
  /\ UNCHANGED <<currentSet, numSpaceToYear, job, hour, hydroCostValues, cashFlowValues,
                 hydroCostResults, cashFlowResults, drawnHydroCost, drawnCashFlow,
                 flowQuadResults, drawnTransit>>

\* The years of the current set whose slot is ns.
InSet(ns) == currentSet < NbSets /\ currentSet * NbYearsParallel + ns \in YearsOfSet(currentSet)

\* The barrier: every year of the set has ended.
SetEnded == \A ns \in NumSpaces : InSet(ns) => job[ns] = "ended"

\* A year job starts in slot ns: the slot is mapped to its year, and the
\* variables' yearBegin(year, numSpace) runs.
yearBegin(ns) ==
  /\ simulation = "running"
  /\ InSet(ns)
  /\ job[ns] = "idle"
  /\ numSpaceToYear' = [numSpaceToYear EXCEPT ![ns] = currentSet * NbYearsParallel + ns]
  /\ job' = [job EXCEPT ![ns] = "begun"]
  /\ hour' = [hour EXCEPT ![ns] = 0]
  /\ hydroCostValues' = [hydroCostValues EXCEPT ![ns] = HydroCostYearBegin(@)]
  /\ cashFlowValues' = [cashFlowValues EXCEPT ![ns] = CashFlowYearBegin(@)]
  /\ UNCHANGED <<currentSet, hydroCostResults, cashFlowResults, drawnHydroCost, drawnCashFlow,
                 flowQuadVars>>

\* The weekly optimisation of the year in slot ns has produced the results
\* of its next hour; the variables' hourForEachArea(state, numSpace) runs.
hourForEachArea(ns) ==
  /\ job[ns] = "begun"
  /\ hour[ns] < NbHours
  /\ \E wv \in WaterValues, turb, pump \in Energies, price \in Prices,
        withdrawal, injection \in [Clusters -> Energies] :
       LET h == hour[ns]
           y == numSpaceToYear[ns]
       IN /\ hydroCostValues' = [hydroCostValues EXCEPT ![ns] = HydroCostHour(@, h, wv, turb, pump)]
          /\ cashFlowValues' =
               [cashFlowValues EXCEPT ![ns] = CashFlowHour(@, h, withdrawal, injection, price)]
          /\ drawnHydroCost' = [drawnHydroCost EXCEPT ![y] = @ + wv * (turb - PumpRatio * pump)]
          /\ drawnCashFlow' =
               [drawnCashFlow EXCEPT ![y] = [c \in Clusters |->
                                               @[c] + (withdrawal[c] - injection[c]) * (-price)]]
  /\ hour' = [hour EXCEPT ![ns] = @ + 1]
  /\ UNCHANGED <<currentSet, numSpaceToYear, job, hydroCostResults, cashFlowResults,
                 flowQuadVars>>

\* The last hour is done; the variables' yearEnd(year, numSpace) computes
\* the year's statistics of the slot.
yearEnd(ns) ==
  /\ job[ns] = "begun"
  /\ hour[ns] = NbHours
  /\ job' = [job EXCEPT ![ns] = "ended"]
  /\ hydroCostValues' = [hydroCostValues EXCEPT ![ns] = Statistics(@)]
  /\ cashFlowValues' = [cashFlowValues EXCEPT ![ns] = [c \in Clusters |-> Statistics(@[c])]]
  /\ UNCHANGED <<currentSet, numSpaceToYear, hour, hydroCostResults, cashFlowResults,
                 drawnHydroCost, drawnCashFlow, flowQuadVars>>

\* Every year of the set has ended (the barrier): the variables'
\* computeSummary(numSpaceToYear, nbYearsForCurrentSummary) merges the
\* slots of the set's years; the next set starts.
computeSummary ==
  LET nbYearsForCurrentSummary == Cardinality(YearsOfSet(currentSet))
      slots == SlotsMerged(nbYearsForCurrentSummary)
  IN /\ currentSet < NbSets
     /\ SetEnded
     /\ hydroCostResults' = MergeSlots(hydroCostResults, slots, hydroCostValues)
     /\ cashFlowResults' =
          [c \in Clusters |->
             MergeSlots(cashFlowResults[c], slots, [ns \in NumSpaces |-> cashFlowValues[ns][c]])]
     /\ currentSet' = currentSet + 1
     /\ job' = [ns \in NumSpaces |-> "idle"]
     /\ UNCHANGED <<numSpaceToYear, hour, hydroCostValues, cashFlowValues,
                    drawnHydroCost, drawnCashFlow, flowQuadVars>>

\* Every set is summarised: simulationEnd. FlowQuad takes the link's mean
\* flow of the quadratic recomputation and merges it once, as year 0.
simulationEnd ==
  /\ simulation = "running"
  /\ currentSet = NbSets
  /\ \E transit \in [Hours -> Transits] :
       /\ flowQuadValues' = FlowQuadEndValues(flowQuadValues, transit)
       /\ flowQuadResults' = RawMerge(flowQuadResults, FlowQuadEndValues(flowQuadValues, transit))
       /\ drawnTransit' = transit
  /\ simulation' = "ended"
  /\ UNCHANGED <<currentSet, numSpaceToYear, job, hour, hydroCostValues, cashFlowValues,
                 hydroCostResults, cashFlowResults, drawnHydroCost, drawnCashFlow>>

Next ==
  \/ simulationBegin
  \/ \E ns \in NumSpaces : yearBegin(ns) \/ hourForEachArea(ns) \/ yearEnd(ns)
  \/ computeSummary
  \/ simulationEnd

\* The year jobs are run by the worker threads of the job queue, the
\* summary by the simulation thread once they have all finished.
Spec == Init /\ [][Next]_vars /\ WF_vars(Next)

-----------------------------------------------------------------------------
\* The years whose set has been summarised.
Summarised == {y \in Years : y \div NbYearsParallel < currentSet}

\* What the all-years results of a column must be, given each year's total.
Expected(r, total) ==
  /\ r.count = Cardinality(Summarised)
  /\ r.sum = SumFunctionOnSet(total, Summarised)
  /\ Summarised # {} =>
       /\ r.min = Min({total[y] : y \in Summarised}) /\ r.minYear \in Summarised
       /\ total[r.minYear] = r.min
       /\ r.max = Max({total[y] : y \in Summarised}) /\ r.maxYear \in Summarised
       /\ total[r.maxYear] = r.max

\* However the year jobs of a set interleave, and though a slot of a
\* partial last set still holds a year of the previous set, the results of
\* HydroCost and of every short-term storage's cash flow count each
\* summarised year once, with its own hourly results: the sum is the sum of
\* the years' totals, and the minimum and maximum are those of the years
\* they name (yearBegin's reset, computeSummary's bound and its use of
\* numSpaceToYear).
SummaryMatchesYears ==
  /\ Expected(hydroCostResults, drawnHydroCost)
  /\ \A c \in Clusters : Expected(cashFlowResults[c], [y \in Years |-> drawnCashFlow[y][c]])

=============================================================================
