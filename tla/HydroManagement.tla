--------------------------- MODULE HydroManagement ---------------------------
(***************************************************************************)
(* HydroManagement::makeVentilation (hydro/management/management.cpp), run *)
(* once per Monte-Carlo year by a simulation thread, on the scratch data   *)
(* tmpDataByArea_:                                                         *)
(*   resize + memset, prepareInflowsScaling, minGenerationScaling,         *)
(*   checkMinGeneration (FatalError when false), prepareNetDemand,         *)
(*   prepareEffectiveDemand.                                               *)
(* The monthly and daily optimal generations that follow are not under    *)
(* src and are left out; the capacity-normalised copies of the monthly     *)
(* figures (inflows, mingens) and dailyMinGen feed only them.              *)
(*                                                                         *)
(* The calendar is reduced to NbDays days of HoursPerDay hours, grouped    *)
(* into simulation months of MonthDays[m] days whose calendar month is     *)
(* RealMonthOf[m], and into weeks of WeekDays days starting at day 0.      *)
(* The 1e-4 margin of the effective-demand clipping is the unit Eps.       *)
(* A study fixes its number of years and the hydro flags and allocation   *)
(* of its areas; Columns(study) are the columns its years may read.      *)
(***************************************************************************)
EXTENDS Integers, Sequences, Functions, FiniteSetsExt

CONSTANTS
  Areas,
  NbYears,          \* the most years a study has
  MonthDays,        \* calendar_.months[m].days, in simulation order
  RealMonthOf,      \* calendar_.months[m].realmonth
  WeekDays,         \* days per week
  HoursPerDay,
  Eps,              \* the 1e-4 of prepareEffectiveDemand
  Studies,          \* [years, hydro, allocation]
  Columns(_)        \* the columns the years of a study may read

NbMonths == Len(MonthDays)
Months == 0..NbMonths - 1
NbDays == SumFunction(MonthDays)
Days == 0..NbDays - 1
HOURS_PER_YEAR == NbDays * HoursPerDay
Hours == 0..HOURS_PER_YEAR - 1

ASSUME /\ NbYears \in Nat \ {0} /\ WeekDays \in Nat \ {0} /\ HoursPerDay \in Nat \ {0}
       /\ \A m \in 1..NbMonths : MonthDays[m] \in Nat \ {0}
       /\ {RealMonthOf[m + 1] : m \in Months} = Months
       /\ \A st \in Studies : st.years \in 1..NbYears

\* Calendar.
RealMonth(m) == RealMonthOf[m + 1]
FirstDay(m) == SumFunctionOnSet(MonthDays, 1..m)
DaysOfMonth(m) == FirstDay(m)..FirstDay(m) + MonthDays[m + 1] - 1
SimulationMonth(rm) == CHOOSE m \in Months : RealMonth(m) = rm   \* calendar_.mapping.months
HoursOfDay(d) == d * HoursPerDay..(d + 1) * HoursPerDay - 1
DayOfHour(h) == h \div HoursPerDay
maxWeeksInYear == (NbDays + WeekDays - 1) \div WeekDays
DaysOfWeek(w) == {d \in Days : d \div WeekDays = w}
HoursOfWeek(w) == UNION {HoursOfDay(d) : d \in DaysOfWeek(w)}

\* The year's columns of the series an area reads.
SeriesSet == [inflows : [Areas -> [Days -> Int]],
              mingen  : [Areas -> [Hours -> Int]],
              maxP    : [Areas -> [Days -> Int]],
              net     : [Areas -> [Hours -> Int]]]
Config == [useHeuristicTarget : BOOLEAN, followLoadModulations : BOOLEAN,
           reservoirManagement : BOOLEAN]

\* One TmpDataByArea, all zero (the memset).
ZeroData ==
  [totalMonthInflows |-> [rm \in Months |-> 0], totalYearInflows |-> 0,
   totalMonthMingen  |-> [rm \in Months |-> 0], totalYearMingen  |-> 0,
   DLN |-> [d \in Days |-> 0], DLE |-> [d \in Days |-> 0], MLE |-> [rm \in Months |-> 0]]

VARIABLES
  study,            \* the study simulated
  year,
  phase,            \* "ventilation" | "weeks" | "fatal" | "done"
  hydro,            \* area.hydro flags
  allocation,       \* area.hydro.allocation: weight of each area's demand
  series,           \* the year's columns
  tmpDataByArea_

vars == <<study, year, phase, hydro, allocation, series, tmpDataByArea_>>

TypeOK ==
  /\ study \in Studies
  /\ year \in 1..study.years
  /\ phase \in {"ventilation", "weeks", "fatal", "done"}
  /\ hydro \in [Areas -> Config]
  /\ allocation \in [Areas -> [Areas -> Int]]
  /\ series \in SeriesSet
  /\ \A a \in Areas :
       /\ DOMAIN tmpDataByArea_[a] = DOMAIN ZeroData
       /\ tmpDataByArea_[a].DLN \in [Days -> Int]
       /\ tmpDataByArea_[a].DLE \in [Days -> Int]
       /\ tmpDataByArea_[a].MLE \in [Months -> Int]

-----------------------------------------------------------------------------
(* The steps of makeVentilation, as operators on tmpDataByArea_.          *)

\* Mutant: the scratch data of the previous year is not cleared.
ResetKeepsData(td) == td

\* tmpDataByArea_.resize(areas_.size()); memset(..., 0, ...).
ResetTmpData(td) == [a \in Areas |-> ZeroData]

\* prepareInflowsScaling: monthly and yearly inflow totals, stored at the
\* calendar month of each simulation month.
PrepareInflowsScaling(td, s) ==
  [a \in Areas |->
     [td[a] EXCEPT
        !.totalMonthInflows = [rm \in Months |->
                                 SumFunctionOnSet(s.inflows[a], DaysOfMonth(SimulationMonth(rm)))],
        !.totalYearInflows = SumFunction(s.inflows[a])]]

\* Mutant: the monthly mingen total is stored at the simulation month.
MinGenerationScalingByMonth(td, s) ==
  [a \in Areas |->
     [td[a] EXCEPT
        !.totalMonthMingen = [m \in Months |->
                                SumFunctionOnSet(s.mingen[a], UNION {HoursOfDay(d) : d \in DaysOfMonth(m)})],
        !.totalYearMingen = SumFunction(s.mingen[a])]]

\* minGenerationScaling: monthly and yearly mingen totals (hourly series).
MinGenerationScaling(td, s) ==
  [a \in Areas |->
     [td[a] EXCEPT
        !.totalMonthMingen = [rm \in Months |->
                                SumFunctionOnSet(s.mingen[a],
                                  UNION {HoursOfDay(d) : d \in DaysOfMonth(SimulationMonth(rm))})],
        !.totalYearMingen = SumFunction(s.mingen[a])]]

\* checkMonthlyMinGeneration.
CheckMonthlyMinGeneration(a, td) ==
  \A m \in Months : td[a].totalMonthMingen[RealMonth(m)] <= td[a].totalMonthInflows[RealMonth(m)]

\* checkYearlyMinGeneration.
CheckYearlyMinGeneration(a, td) == td[a].totalYearMingen <= td[a].totalYearInflows

\* Mutant: the loop runs to week < maxWeeksInYear, the partial week included.
CheckWeeklyMinGenerationAllWeeks(a, s) ==
  \A w \in 0..maxWeeksInYear - 1 :
    SumFunctionOnSet(s.mingen[a], {h \in HoursOfWeek(w) : h < HOURS_PER_YEAR})
      <= SumFunctionOnSet(s.inflows[a], DaysOfWeek(w))

\* checkWeeklyMinGeneration: weeks 0 .. maxWeeksInYear - 2, on the series.
CheckWeeklyMinGeneration(a, s) ==
  \A w \in 0..maxWeeksInYear - 2 :
    SumFunctionOnSet(s.mingen[a], {h \in HoursOfWeek(w) : h < HOURS_PER_YEAR})
      <= SumFunctionOnSet(s.inflows[a], DaysOfWeek(w))

\* checkHourlyMinGeneration: every hour's mingen against its day's max power.
CheckHourlyMinGeneration(a, s) ==
  \A m \in Months :
    \A d \in DaysOfMonth(SimulationMonth(RealMonth(m))), h \in 0..HoursPerDay - 1 :
      s.mingen[a][d * HoursPerDay + h] <= s.maxP[a][d]

\* checkMinGeneration: the hourly check always; with the heuristic target,
\* weekly unless the load modulations are followed, then yearly with
\* reservoir management and monthly without.
CheckMinGeneration(td, s, cfg) ==
  \A a \in Areas :
    /\ CheckHourlyMinGeneration(a, s)
    /\ cfg[a].useHeuristicTarget =>
         IF ~cfg[a].followLoadModulations THEN CheckWeeklyMinGeneration(a, s)
         ELSE IF cfg[a].reservoirManagement THEN CheckYearlyMinGeneration(a, td)
         ELSE CheckMonthlyMinGeneration(a, td)

\* prepareNetDemand: DLN[day] += the hourly net demand of the day's hours.
PrepareNetDemand(td, s) ==
  [a \in Areas |->
     [td[a] EXCEPT !.DLN = [d \in Days |-> @[d] + SumFunctionOnSet(s.net[a], HoursOfDay(d))]]]

\* The effective demand of area z on day d: the allocation-weighted net
\* demands of the areas it draws from.
EffectiveDemand(td, alloc, z, d) ==
  SumFunctionOnSet([a \in Areas |-> alloc[z][a] * td[a].DLN[d]], Areas)

\* Subtract (minimum - Eps) from every value of f on S when the minimum
\* over S is negative.
ClipWindow(f, S) ==
  LET minimum == Min({f[x] : x \in S})
  IN [x \in DOMAIN f |-> IF x \in S /\ minimum < 0 THEN f[x] - (minimum - Eps) ELSE f[x]]

\* prepareEffectiveDemand: accumulate DLE per day and MLE per calendar
\* month, then clip DLE month by month and MLE over the year.
PrepareEffectiveDemand(td, alloc) ==
  [z \in Areas |->
     LET DLE0 == [d \in Days |-> td[z].DLE[d] + EffectiveDemand(td, alloc, z, d)]
         MLE0 == [rm \in Months |->
                    td[z].MLE[rm]
                    + SumFunctionOnSet([d \in Days |-> EffectiveDemand(td, alloc, z, d)],
                                       DaysOfMonth(SimulationMonth(rm)))]
         RECURSIVE ClipMonths(_, _)
         ClipMonths(f, ms) == IF ms = {} THEN f
                              ELSE LET m == CHOOSE x \in ms : TRUE
                                   IN ClipMonths(ClipWindow(f, DaysOfMonth(m)), ms \ {m})
     IN [td[z] EXCEPT !.DLE = ClipMonths(DLE0, Months), !.MLE = ClipWindow(MLE0, Months)]]

-----------------------------------------------------------------------------
Init ==
  /\ study \in Studies
  /\ year = 1
  /\ phase = "ventilation"
  /\ hydro = study.hydro
  /\ allocation = study.allocation
  /\ series \in Columns(study)
  /\ tmpDataByArea_ = [a \in Areas |-> ZeroData]

\* The scratch data once the two scalings have run.
Scaled == MinGenerationScaling(PrepareInflowsScaling(ResetTmpData(tmpDataByArea_), series), series)

\* makeVentilation with a valid minimum generation: net and effective
\* demand are prepared, the weeks of the year can run.
makeVentilation ==
  /\ phase = "ventilation"
  /\ CheckMinGeneration(Scaled, series, hydro)
  /\ tmpDataByArea_' = PrepareEffectiveDemand(PrepareNetDemand(Scaled, series), allocation)
  /\ phase' = "weeks"
  /\ UNCHANGED <<study, year, hydro, allocation, series>>

\* makeVentilation: throw FatalError("hydro management: invalid minimum
\* generation"); the run ends.
VentilationFatal ==
  /\ phase = "ventilation"
  /\ ~CheckMinGeneration(Scaled, series, hydro)
  /\ tmpDataByArea_' = Scaled
  /\ phase' = "fatal"
  /\ UNCHANGED <<study, year, hydro, allocation, series>>

\* Mutant: the year loop does not stop at the last year.
NextYearUnbounded ==
  /\ phase = "weeks"
  /\ year' = year + 1
  /\ series' \in Columns(study)
  /\ phase' = "ventilation"
  /\ UNCHANGED <<study, hydro, allocation, tmpDataByArea_>>

\* The weeks of the year are done; the next year reads its own columns.
NextYear ==
  /\ phase = "weeks"
  /\ year < study.years
  /\ year' = year + 1
  /\ series' \in Columns(study)
  /\ phase' = "ventilation"
  /\ UNCHANGED <<study, hydro, allocation, tmpDataByArea_>>

\* The last year is done.
LastYear ==
  /\ phase = "weeks"
  /\ year = study.years
  /\ phase' = "done"
  /\ UNCHANGED <<study, year, hydro, allocation, series, tmpDataByArea_>>

Next == makeVentilation \/ VentilationFatal \/ NextYear \/ LastYear

Spec == Init /\ [][Next]_vars

-----------------------------------------------------------------------------
(* References, written on the year's series directly.                     *)

SumHours(f, H) == SumFunctionOnSet(f, H)
MonthHours(m) == UNION {HoursOfDay(d) : d \in DaysOfMonth(m)}
CompleteWeeks == {w \in 0..maxWeeksInYear - 1 : DaysOfWeek(w) = (w * WeekDays)..(w * WeekDays + WeekDays - 1)}

\* The windows the configuration of an area asks for, and whether the
\* minimum generation fits the inflows (and each hour the max power) in
\* every one of them.
MinGenFeasible(a) ==
  /\ \A h \in Hours : series.mingen[a][h] <= series.maxP[a][DayOfHour(h)]
  /\ hydro[a].useHeuristicTarget =>
       CASE ~hydro[a].followLoadModulations ->
              \A w \in CompleteWeeks :
                SumHours(series.mingen[a], HoursOfWeek(w)) <= SumFunctionOnSet(series.inflows[a], DaysOfWeek(w))
         [] hydro[a].reservoirManagement ->
              SumFunction(series.mingen[a]) <= SumFunction(series.inflows[a])
         [] OTHER ->
              \A m \in Months :
                SumHours(series.mingen[a], MonthHours(m)) <= SumFunctionOnSet(series.inflows[a], DaysOfMonth(m))

\* The effective demand of area z on day d, from the year's net demand.
RefEffective(z, d) ==
  SumFunctionOnSet([a \in Areas |-> allocation[z][a] * SumFunctionOnSet(series.net[a], HoursOfDay(d))], Areas)
RefMonthly(z, m) == SumFunctionOnSet([d \in Days |-> RefEffective(z, d)], DaysOfMonth(m))

\* checkMinGeneration, after the scalings of the same call, stops the run
\* exactly when some configured window of some area has more minimum
\* generation than inflows (or an hour more than the max power): no
\* window is skipped, none is read from the wrong month.
MinGenCheckMatchesWindows ==
  /\ phase = "weeks" => \A a \in Areas : MinGenFeasible(a)
  /\ phase = "fatal" => \E a \in Areas : ~MinGenFeasible(a)

\* After prepareEffectiveDemand, every year: the daily and monthly
\* effective demands are non-negative, keep the shape of this year's
\* demand within each month (resp. across the year), and are untouched in
\* a month (resp. year) with no negative day (resp. month).
EffectiveDemandClipped ==
  phase = "weeks" =>
    \A z \in Areas :
      LET DLE == tmpDataByArea_[z].DLE
          MLE == tmpDataByArea_[z].MLE
      IN /\ \A d \in Days : DLE[d] >= 0
         /\ \A m \in Months : \A d1, d2 \in DaysOfMonth(m) :
              DLE[d1] - DLE[d2] = RefEffective(z, d1) - RefEffective(z, d2)
         /\ \A m \in Months : (\A d \in DaysOfMonth(m) : RefEffective(z, d) >= 0)
              => \A d \in DaysOfMonth(m) : DLE[d] = RefEffective(z, d)
         /\ \A m \in Months : MLE[RealMonth(m)] >= 0
         /\ \A m1, m2 \in Months :
              MLE[RealMonth(m1)] - MLE[RealMonth(m2)] = RefMonthly(z, m1) - RefMonthly(z, m2)
         /\ (\A m \in Months : RefMonthly(z, m) >= 0)
              => \A m \in Months : MLE[RealMonth(m)] = RefMonthly(z, m)

=============================================================================
