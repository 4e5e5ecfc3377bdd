--------------------------- MODULE ThermalCluster ---------------------------
(***************************************************************************)
(* One thermal cluster between loading and the solve                      *)
(* (libs/antares/study/parts/thermal/cluster.cpp):                         *)
(*   - integrityCheck corrects the loaded parameters;                      *)
(*   - calculationOfSpinning scales the capacity and the availability      *)
(*     series by 1 - spinning / 100, reverseCalculationOfSpinning undoes   *)
(*     it before the series are exported;                                  *)
(*   - checkAndCorrectAvailability lifts each hourly availability to what  *)
(*     whole units at their minimum stable power produce;                  *)
(*   - ComputeCostTimeSeries builds the hourly cost series, and the        *)
(*     getters getMarginalCost, getOperatingCost and getMarketBidCost read *)
(*     them.                                                               *)
(* The calls are made by the study loader and the GUI, which are not under *)
(* src: the model lets them happen in any order after integrityCheck.      *)
(*                                                                         *)
(* Powers are integers in hundredths of the loaded unit, so that scaling  *)
(* by an integer spinning percentage is exact. The IEEE values an         *)
(* operation on a zero divisor produces are the model values NaN and Inf; *)
(* a comparison with either is false, as in C++.                           *)
(***************************************************************************)
EXTENDS Integers, FiniteSets

CONSTANTS
  NbSeries,            \* width of the availability matrix
  NbHours,             \* height of the matrices (HOURS_PER_YEAR)
  NbYears,
  RawAvailabilities,   \* loaded hourly availabilities, in whole units
  RawNominals,         \* loaded nominalCapacity, in whole units
  RawMinStables,       \* loaded minStablePower, in whole units
  RawSpinnings,        \* loaded spinning, in percent
  RawTimes,            \* loaded minUpTime
  RawDownTimes,        \* loaded minDownTime
  CostModes,           \* costgeneration values
  FuelWidths, Co2Widths,  \* widths of ecoInput.fuelcost and .co2cost
  CostValues,          \* fuel, CO2 and manual cost values
  ModulationValues,    \* modulation matrix entries
  CapModValues,        \* capacity modulation entries the GUI writes, in hundredths
  RawUnitCounts,       \* loaded unitCount
  NPOValues,           \* prepro NPO min / max entries
  NbDays,              \* height of the prepro matrix (DAYS_PER_YEAR)
  OptimisationHorizon, \* NombreDePasDeTempsPourUneOptimisation
  SourceClusters,      \* clusters the GUI may copy from: records of the variables copyFrom copies
  NaN, Inf

CENTI == 100
Series == 0..NbSeries - 1
Hours == 0..NbHours - 1
Years == 0..NbYears - 1
Days == 0..NbDays - 1
\* The largest of the fuel and CO2 widths.
MaxSeriesCount ==
  CHOOSE w \in FuelWidths \cup Co2Widths : \A v \in FuelWidths \cup Co2Widths : v <= w
Specials == {NaN, Inf}

\* The two columns of the modulation matrix the costs read.
ModKinds == {"thermalModulationCost", "thermalModulationMarketBid"}

\* The fuel or CO2 cost matrices of width w the loader may read.
CostMatrices(w) == [0..w - 1 -> [Hours -> CostValues]]

\* computeMarketBidCost with fuelEfficiency = 360 percent, a CO2 emission
\* factor of 1 and no variable O&M cost: fuel * 360 / 360 + 1 * co2 + 0.
computeMarketBidCost(fuel, co2) == fuel + co2

VARIABLES
  nominalCapacity, nominalCapacityWithSpinning, minStablePower, spinning,
  minUpTime, minDownTime,
  ts,               \* series.timeSeries: [Series -> [Hours -> value]]
  checked, spun, corrected, reversed, costsComputed,
  correctedAfterSpin, \* checkAndCorrectAvailability ran after the spinning (history)
  costgeneration, marginalCost, marketBidCost,
  fuelcost, co2cost,  \* ecoInput matrices: [0..width-1 -> [Hours -> cost]]
  modulation,         \* [ModKinds -> [Hours -> value]]
  costsTimeSeries,    \* [0..count-1 -> [marketBid, marginal, production : [Hours -> cost]]]
  tsNumbers,          \* series.getSeriesIndex(year)
  capacityModulation, \* modulation[thermalModulationCapacity], in hundredths
  minDivModulation,   \* [value, border, index, isCalculated, isValidated]
  unitCount,
  npoMin, npoMax,     \* prepro->data[npoMin], data[npoMax]: [Days -> count]
  npoRet,             \* normalizeAndCheckNPO returned true (FALSE before a call)
  pbPalier            \* the cluster's entry of PaliersThermiquesDuPays (NoPalier before)

vars == <<nominalCapacity, nominalCapacityWithSpinning, minStablePower, spinning,
          minUpTime, minDownTime, ts, checked, spun, corrected, reversed,
          costsComputed, correctedAfterSpin, costgeneration, marginalCost, marketBidCost,
          fuelcost, co2cost, modulation, costsTimeSeries, tsNumbers,
          capacityModulation, minDivModulation, unitCount, npoMin, npoMax, npoRet,
          pbPalier>>
minVars == <<capacityModulation, minDivModulation>>
npoVars == <<unitCount, npoMin, npoMax, npoRet>>

availVars == <<ts>>
costVars == <<costgeneration, marginalCost, marketBidCost, fuelcost, co2cost,
              modulation, costsTimeSeries, tsNumbers>>
paramVars == <<nominalCapacity, nominalCapacityWithSpinning, minStablePower,
               spinning, minUpTime, minDownTime>>

MinOf(a, b) == IF a <= b THEN a ELSE b

\* A double that is a ratio of two integers, den > 0.
Ratio(n, d) == [num |-> n, den |-> d]
\* x < y between doubles: false when either is NaN.
Less(x, y) == x \notin Specials /\ y \notin Specials /\ x.num * y.den < y.num * x.den
MaxOf(a, b) == IF a >= b THEN a ELSE b

\* A cost series of zeros, as CostsTimeSeries() value-initialises it.
ZeroHours == [h \in Hours |-> 0]
EmptyCosts == [marketBid |-> ZeroHours, marginal |-> ZeroHours, production |-> ZeroHours]

\* PreproThermal::loadFromFolder (solver): the days whose NPO min or max
\* is negative, or whose min exceeds the max, are counted and logged, but
\* the function returns what the CSV load returned: every table is kept.
PreproLoadedNPO == [Days -> NPOValues]

\* PreproThermal::reset: data.reset() zeroes the columns (the FO and PO
\* durations, set to 1 after, are not kept by the model).
PreproResetColumn == [d \in Days |-> 0]

\* The weekly problem is not built yet.
NoPalier == [built |-> FALSE]

(***************************************************************************)
(* Loaded state. The constructor and reset() leave                         *)
(* nominalCapacityWithSpinning at 0 and one zero cost series; the loader   *)
(* fills the parameters and matrices from the files.                       *)
(***************************************************************************)
Init ==
  /\ nominalCapacity \in {CENTI * n : n \in RawNominals}
  /\ nominalCapacityWithSpinning = 0
  /\ minStablePower \in {CENTI * n : n \in RawMinStables}
  /\ spinning \in RawSpinnings
  /\ minUpTime \in RawTimes
  /\ minDownTime \in RawDownTimes
  /\ ts \in [Series -> [Hours -> {CENTI * a : a \in RawAvailabilities}]]
  /\ checked = FALSE /\ spun = FALSE /\ corrected = FALSE /\ reversed = FALSE
  /\ costsComputed = FALSE /\ correctedAfterSpin = FALSE
  /\ costgeneration \in CostModes
  /\ marginalCost \in CostValues
  /\ marketBidCost \in CostValues
  /\ \E fw \in FuelWidths, cw \in Co2Widths :
        /\ fuelcost \in CostMatrices(fw)
        /\ co2cost \in CostMatrices(cw)
  /\ modulation \in [ModKinds -> [Hours -> ModulationValues]]
  /\ costsTimeSeries = [i \in {0} |-> EmptyCosts]
  /\ tsNumbers \in [Years -> Series]
  /\ capacityModulation = [h \in Hours |-> 100]
  /\ minDivModulation = [value |-> Ratio(0, 1), border |-> Ratio(0, 1), index |-> 0,
                         isCalculated |-> FALSE, isValidated |-> FALSE]
  /\ unitCount \in RawUnitCounts
  /\ npoMin \in PreproLoadedNPO
  /\ npoMax \in PreproLoadedNPO
  /\ npoRet = FALSE
  /\ pbPalier = NoPalier

(* integrityCheck: out-of-range parameters are brought back into range.  *)
(* The NaN early returns, the efficiency, spread, O&M and emission checks *)
(* touch no value the model keeps.                                        *)
ClampTimeUpperOnly(t) == IF t > 168 THEN 1 ELSE t

ClampTime(t) == IF t > 168 \/ t = 0 THEN 1 ELSE t

integrityCheck ==
  /\ ~checked
  /\ checked' = TRUE
  /\ minUpTime' = ClampTime(minUpTime)
  /\ minDownTime' = ClampTime(minDownTime)
  /\ LET nc == MaxOf(nominalCapacity, 0)
         sp == IF spinning < 0 THEN 0 ELSE IF spinning > 100 THEN 100 ELSE spinning
     IN /\ nominalCapacity' = nc
        /\ spinning' = sp
        /\ nominalCapacityWithSpinning' =
             IF spinning # sp THEN nc
             ELSE IF nominalCapacity < 0 THEN 0
             ELSE nominalCapacityWithSpinning
  /\ UNCHANGED <<pbPalier, minVars, npoVars, minStablePower, availVars, spun, corrected, reversed, costsComputed,
                 correctedAfterSpin, costVars>>

(* Multiplying a value of the series by a double, as Matrix does. The     *)
(* series are whole multiples of their unit before calculationOfSpinning, *)
(* so the forward scaling is exact in hundredths.                         *)
ScaleDown(e, s) == IF e \in Specials THEN e ELSE (e * (100 - s)) \div 100

calculationOfSpinning ==
  /\ checked /\ ~spun
  /\ spun' = TRUE
  /\ nominalCapacityWithSpinning' =
       IF spinning # 0 THEN ScaleDown(nominalCapacity, spinning) ELSE nominalCapacity
  /\ ts' = IF spinning # 0 THEN [x \in Series |-> [y \in Hours |-> ScaleDown(ts[x][y], spinning)]]
           ELSE ts
  /\ UNCHANGED <<pbPalier, minVars, npoVars, nominalCapacity, minStablePower, spinning, minUpTime, minDownTime,
                 checked, corrected, reversed, costsComputed, correctedAfterSpin,
                 costVars>>

(* e * 1 / (1 - s/100) followed by roundAllEntries, to the nearest whole  *)
(* unit. For s = 100 the factor is +inf: 0 * inf is NaN, e * inf is inf.  *)
ScaleUpRounded(e, s) ==
  CASE e \in Specials -> e
    [] s = 100 -> IF e = 0 THEN NaN ELSE Inf
    [] OTHER -> ((2 * e + (100 - s)) \div (2 * (100 - s))) * CENTI

reverseCalculationOfSpinning ==
  /\ spun /\ ~reversed
  /\ reversed' = TRUE
  /\ ts' = IF spinning # 0 THEN [x \in Series |-> [y \in Hours |-> ScaleUpRounded(ts[x][y], spinning)]]
           ELSE ts
  /\ UNCHANGED <<pbPalier, minVars, npoVars, paramVars, checked, spun, corrected, costsComputed,
                 correctedAfterSpin, costVars>>

(* One entry of checkAndCorrectAvailability: rightpart = Pmin *           *)
(* ceil(e / Pmax), kept when larger. With Pmax = 0 or a special entry the *)
(* quotient is inf or NaN and the comparison is false.                    *)
CorrectedEntryFloor(e, pmax, pmin) ==
  IF e \in Specials \/ pmax <= 0 THEN e
  ELSE LET rightpart == pmin * (e \div pmax)
       IN IF rightpart > e THEN rightpart ELSE e

CorrectedEntry(e, pmax, pmin) ==
  IF e \in Specials \/ pmax <= 0 THEN e
  ELSE LET rightpart == pmin * ((e + pmax - 1) \div pmax)
       IN IF rightpart > e THEN rightpart ELSE e

checkAndCorrectAvailability ==
  /\ checked /\ ~corrected
  /\ corrected' = TRUE
  /\ correctedAfterSpin' = spun
  /\ LET Pmax == nominalCapacityWithSpinning
         Pmin == MinOf(nominalCapacityWithSpinning, minStablePower)
     IN ts' = [x \in Series |-> [y \in Hours |-> CorrectedEntry(ts[x][y], Pmax, Pmin)]]
  /\ UNCHANGED <<pbPalier, minVars, npoVars, paramVars, checked, spun, reversed, costsComputed, costVars>>

(***************************************************************************)
(* Validity of the minimum stable power against the capacity modulation.  *)
(* The GUI, which is not under src, calls the checks; the model lets it   *)
(* call them in any order once the cluster is loaded.                     *)
(***************************************************************************)

\* modulation / ceil(modulation) of an entry in hundredths; 0 / 0 is NaN.
Div(v) == IF v = 0 THEN NaN ELSE Ratio(v, 100 * ((v + 99) \div 100))

\* The loop of calculatMinDivModulation from hour t on: a strictly smaller
\* quotient replaces the minimum and its index.
RECURSIVE MinDivScan(_, _, _)
MinDivScan(cm, t, acc) ==
  IF t > NbHours - 1 THEN acc
  ELSE MinDivScan(cm, t + 1,
                  IF Less(Div(cm[t]), acc.value) THEN [value |-> Div(cm[t]), index |-> t]
                  ELSE acc)

calculatMinDivModulation(md, cm) ==
  LET r == MinDivScan(cm, 1, [value |-> Div(cm[0]), index |-> 0])
  IN [md EXCEPT !.value = r.value, !.index = r.index, !.isCalculated = TRUE]

\* min(nominalCapacity * (1 - spinning / 101), minStablePower) over the
\* former; 1 - spinning / 101 is never zero for spinning in [0, 100], and
\* a zero capacity gives 0 / 0.
Border(nc, s, msp) ==
  IF nc * (101 - s) = 0 THEN NaN
  ELSE Ratio(MinOf(nc * (101 - s), msp * 101), nc * (101 - s))

\* checkMinStablePower once the minimum is calculated.
CheckedMinDiv(md) ==
  IF Less(md.value, Ratio(0, 1)) THEN [md EXCEPT !.isValidated = FALSE]
  ELSE LET b == Border(nominalCapacity, spinning, minStablePower)
       IN [md EXCEPT !.border = b, !.isValidated = ~Less(md.value, b)]

checkMinStablePower ==
  /\ checked
  /\ minDivModulation' =
       CheckedMinDiv(IF minDivModulation.isCalculated THEN minDivModulation
                     ELSE calculatMinDivModulation(minDivModulation, capacityModulation))
  /\ UNCHANGED <<pbPalier, npoVars, capacityModulation, paramVars, availVars, checked, spun, corrected,
                 reversed, costsComputed, correctedAfterSpin, costVars>>

\* Mutant: the minimum is not recomputed when its own entry changes.
NewModulationNoRecompute(md, cm, index, value) ==
  IF ~md.isCalculated THEN calculatMinDivModulation(md, cm)
  ELSE IF Less(Div(value), md.value) THEN [md EXCEPT !.value = Div(value), !.index = index]
  ELSE md

\* The cached minimum of checkMinStablePowerWithNewModulation: recomputed
\* when not calculated or when the entry of the minimum changes, otherwise
\* lowered to the new entry's quotient if that is smaller.
NewModulation(md, cm, index, value) ==
  IF ~md.isCalculated \/ index = md.index THEN calculatMinDivModulation(md, cm)
  ELSE IF Less(Div(value), md.value) THEN [md EXCEPT !.value = Div(value), !.index = index]
  ELSE md

\* The GUI writes one capacity modulation entry, then calls
\* checkMinStablePowerWithNewModulation(index, value).
checkMinStablePowerWithNewModulation ==
  /\ checked
  /\ \E index \in Hours, value \in CapModValues :
       LET cm == [capacityModulation EXCEPT ![index] = value]
       IN /\ capacityModulation' = cm
          /\ minDivModulation' = CheckedMinDiv(NewModulation(minDivModulation, cm, index, value))
  /\ UNCHANGED <<pbPalier, npoVars, paramVars, availVars, checked, spun, corrected,
                 reversed, costsComputed, correctedAfterSpin, costVars>>

(***************************************************************************)
(* Prepro: normalizeAndCheckNPO caps NPO max at the unit count, then       *)
(* counts the days whose NPO min exceeds NPO max.                          *)
(***************************************************************************)
NormalizedNPOMax == [d \in Days |-> IF npoMax[d] > unitCount THEN unitCount ELSE npoMax[d]]

\* Mutant: NPO min is compared with NPO max as loaded.
NPOErrorsBeforeNormalize == {d \in Days : npoMin[d] > npoMax[d]}

NPOErrors == {d \in Days : npoMin[d] > NormalizedNPOMax[d]}

normalizeAndCheckNPO ==
  /\ npoMax' = NormalizedNPOMax
  /\ npoRet' = (NPOErrors = {})
  /\ UNCHANGED <<pbPalier, unitCount, npoMin, minVars, paramVars, availVars, checked, spun, corrected,
                 reversed, costsComputed, correctedAfterSpin, costVars>>

(***************************************************************************)
(* Costs                                                                   *)
(***************************************************************************)
Width(m) == CHOOSE w \in 1..MaxSeriesCount : DOMAIN m = 0..w - 1
CostCount == Width(costsTimeSeries)

resizeCostTSFuelOnly(cts) ==
  [i \in 0..Width(fuelcost) - 1 |-> IF i \in DOMAIN cts THEN cts[i] ELSE EmptyCosts]

\* resizeCostTS: std::vector::resize keeps the first elements and appends
\* value-initialised ones.
resizeCostTS(cts) ==
  LET tsCount == MaxOf(Width(fuelcost), Width(co2cost))
  IN [i \in 0..tsCount - 1 |-> IF i \in DOMAIN cts THEN cts[i] ELSE EmptyCosts]

\* ComputeMarketBidTS, MarginalCostEqualsMarketBid and
\* ComputeProductionCostTS over the resized vector. The modulation matrix
\* always has its columns, so ComputeProductionCostTS does not return early.
ComputeMarketBidTS(cts) ==
  [i \in DOMAIN cts |->
     LET tsIndexFuel == MinOf(Width(fuelcost) - 1, i)
         tsIndexCo2 == MinOf(Width(co2cost) - 1, i)
         bid == [h \in Hours |-> computeMarketBidCost(fuelcost[tsIndexFuel][h],
                                                      co2cost[tsIndexCo2][h])]
     IN [marketBid |-> bid, marginal |-> bid,
         production |-> [h \in Hours |-> bid[h] * modulation["thermalModulationCost"][h]]]]

ComputeCostTimeSeries ==
  /\ ~costsComputed
  /\ costsComputed' = TRUE
  /\ costsTimeSeries' =
       IF costgeneration = "setManually"
       THEN [costsTimeSeries EXCEPT ![0].marketBid = [h \in Hours |-> marketBidCost],
                                    ![0].marginal = [h \in Hours |-> marginalCost]]
       ELSE ComputeMarketBidTS(resizeCostTS(costsTimeSeries))
  /\ UNCHANGED <<pbPalier, minVars, npoVars, paramVars, availVars, checked, spun, corrected, reversed,
                 correctedAfterSpin, costgeneration, marginalCost, marketBidCost,
                 fuelcost, co2cost, modulation, tsNumbers>>

getOperatingCost(serieIndex, hourInTheYear) ==
  IF costgeneration = "setManually"
  THEN marginalCost * modulation["thermalModulationCost"][hourInTheYear]
  ELSE costsTimeSeries[MinOf(serieIndex, CostCount - 1)].production[hourInTheYear]

getMarginalCost(serieIndex, hourInTheYear) ==
  LET mod == modulation["thermalModulationCost"][hourInTheYear]
  IN IF costgeneration = "setManually"
     THEN marginalCost * mod
     ELSE costsTimeSeries[MinOf(serieIndex, CostCount - 1)].marginal[hourInTheYear] * mod

getMarketBidCost(hourInTheYear, year) ==
  LET serieIndex == tsNumbers[year]
      mod == modulation["thermalModulationMarketBid"][serieIndex]
  IN IF costgeneration = "setManually"
     THEN marketBidCost * mod
     ELSE costsTimeSeries[MinOf(serieIndex, CostCount - 1)].marketBid[hourInTheYear] * mod

\* reset() (GUI): the parameters, costs and modulation back to their
\* defaults, the minimum quotient to be recomputed, the prepro zeroed.
\* Cluster::reset and ecoInput.reset are not under src; the fields they
\* set (unit count, capacity, series, fuel and CO2 costs) are kept.
reset ==
  /\ checked
  /\ nominalCapacityWithSpinning' = 0
  /\ minDivModulation' = [minDivModulation EXCEPT !.isCalculated = FALSE]
  /\ minStablePower' = 0
  /\ minUpTime' = 1 /\ minDownTime' = 1
  /\ spinning' = 0
  /\ costgeneration' = "setManually"
  /\ marginalCost' = 0 /\ marketBidCost' = 0
  /\ costsTimeSeries' = [i \in {0} |-> costsTimeSeries[0]]
  /\ modulation' = [k \in ModKinds |-> [h \in Hours |-> 1]]
  /\ capacityModulation' = [h \in Hours |-> 100]
  /\ npoMin' = PreproResetColumn /\ npoMax' = PreproResetColumn
  /\ UNCHANGED <<pbPalier, nominalCapacity, availVars, checked, spun, corrected, reversed,
                 costsComputed, correctedAfterSpin, fuelcost, co2cost, tsNumbers,
                 unitCount, npoRet>>

\* series.timeseriesNumbers after clear(): no year has a drawn series.
NoTsNumbers == [y \in {} |-> 0]

\* copyFrom (GUI copy/paste): the data of another cluster replaces this
\* one's, the cached minimum quotient, the prepro data (prepro->copyFrom)
\* and the ecoInput matrices included, and the drawn series numbers are
\* cleared. The flags are the history of the copied data, so they come
\* with it. The weekly problem is built by the solver only, never in the
\* GUI. The mustrun, group, emission, volatility and law fields are not
\* kept by the model.
copyFrom ==
  /\ pbPalier = NoPalier
  /\ \E cluster \in SourceClusters :
       /\ unitCount' = cluster.unitCount
       /\ nominalCapacity' = cluster.nominalCapacity
       /\ nominalCapacityWithSpinning' = cluster.nominalCapacityWithSpinning
       /\ minDivModulation' = cluster.minDivModulation
       /\ minStablePower' = cluster.minStablePower
       /\ minUpTime' = cluster.minUpTime /\ minDownTime' = cluster.minDownTime
       /\ spinning' = cluster.spinning
       /\ costgeneration' = cluster.costgeneration
       /\ marginalCost' = cluster.marginalCost /\ marketBidCost' = cluster.marketBidCost
       /\ costsTimeSeries' = cluster.costsTimeSeries
       /\ modulation' = cluster.modulation
       /\ capacityModulation' = cluster.capacityModulation
       /\ npoMin' = cluster.npoMin /\ npoMax' = cluster.npoMax /\ npoRet' = cluster.npoRet
       /\ fuelcost' = cluster.fuelcost /\ co2cost' = cluster.co2cost
       /\ ts' = cluster.ts
       /\ tsNumbers' = NoTsNumbers
       /\ checked' = cluster.checked /\ spun' = cluster.spun
       /\ corrected' = cluster.corrected /\ reversed' = cluster.reversed
       /\ costsComputed' = cluster.costsComputed
       /\ correctedAfterSpin' = cluster.correctedAfterSpin
  /\ UNCHANGED pbPalier

(***************************************************************************)
(* SIM_InitialisationProblemeHebdo (sim_calcul_economique.cpp) copies the *)
(* cluster into PaliersThermiquesDuPays without further checks, once the  *)
(* solver has loaded the study: integrityCheck, the spinning and the      *)
(* availability correction have run, the series are not reversed. The     *)
(* cluster is the first of the first area: NumeroDuPalier 0.              *)
(***************************************************************************)

\* Mutant: the group's Pmin is minStablePower, not clamped to Pmax.
PminNoClamp(pmax, msp) == msp

\* pminDUnGroupeDuPalierThermique: Pmax when it is below minStablePower.
PminDUnGroupe(pmax, msp) == IF pmax < msp THEN pmax ELSE msp

InitialisationProblemeHebdo ==
  /\ checked /\ spun /\ corrected /\ ~reversed
  /\ pbPalier' =
       [built |-> TRUE,
        NumeroDuPalierDansLEnsembleDesPaliersThermiques |-> 0,
        TailleUnitaireDUnGroupeDuPalierThermique |-> nominalCapacityWithSpinning,
        PminDuPalierThermiquePendantUneHeure |-> minStablePower,
        DureeMinimaleDeMarcheDUnGroupeDuPalierThermique |-> minUpTime,
        DureeMinimaleDArretDUnGroupeDuPalierThermique |-> minDownTime,
        PmaxDUnGroupeDuPalierThermique |-> nominalCapacityWithSpinning,
        pminDUnGroupeDuPalierThermique |-> PminDUnGroupe(nominalCapacityWithSpinning,
                                                         minStablePower)]
  /\ UNCHANGED <<minVars, npoVars, paramVars, availVars, checked, spun, corrected,
                 reversed, costsComputed, correctedAfterSpin, costVars>>

(* MinDownTime::add for one hour pdt of the horizon N: the row bounds the *)
(* dispatchable units at pdt by the units stopped over the D hours up to  *)
(* pdt, an hour before the start of the week wrapping to its end. The     *)
(* counting pass reserves one row and 1 + D terms; the building pass adds *)
(* the row only when it has more than one variable.                       *)
MinDownTimeHourNoWrap(k, N) == k

MinDownTimeHour(k, N) == IF k < 0 THEN N + k ELSE k

MinDownTimeStopHours(pdt, D, N) ==
  {MinDownTimeHour(k, N) : k \in pdt - D + 1 .. pdt}

MinDownTimeReservedTerms(D) == 1 + D

MinDownTimeRowBuilt(D) == 1 + D > 1

Next ==
  \/ integrityCheck
  \/ calculationOfSpinning
  \/ reverseCalculationOfSpinning
  \/ checkAndCorrectAvailability
  \/ ComputeCostTimeSeries
  \/ checkMinStablePower
  \/ checkMinStablePowerWithNewModulation
  \/ normalizeAndCheckNPO
  \/ reset
  \/ copyFrom
  \/ InitialisationProblemeHebdo

Spec == Init /\ [][Next]_vars

(***************************************************************************)
(* Properties                                                              *)
(***************************************************************************)
CostRecord == [marketBid : [Hours -> Int], marginal : [Hours -> Int],
               production : [Hours -> Int]]

TypeOK ==
  /\ nominalCapacity \in Int /\ nominalCapacityWithSpinning \in Int
  /\ spinning \in IF checked THEN 0..100 ELSE RawSpinnings
  /\ {minUpTime, minDownTime} \subseteq IF checked THEN 1..168 ELSE RawTimes \cup RawDownTimes
  /\ ts \in [Series -> [Hours -> Nat \cup Specials]]
  /\ \E w \in 1..MaxSeriesCount : costsTimeSeries \in [0..w - 1 -> CostRecord]
  /\ tsNumbers \in [Years -> Series] \cup {NoTsNumbers}
  /\ capacityModulation \in [Hours -> CapModValues \cup {100}]
  /\ minDivModulation.index \in Hours
  /\ {minDivModulation.isCalculated, minDivModulation.isValidated} \subseteq BOOLEAN
  /\ unitCount \in RawUnitCounts
  /\ npoMin \in [Days -> NPOValues] /\ npoMax \in [Days -> NPOValues]
  /\ npoRet \in BOOLEAN
  /\ pbPalier.built \in BOOLEAN

\* The cost the documentation of getMarginalCost (cluster.cpp, after the
\* return) gives for availability series s: the manual cost, or the cost of
\* the fuel and CO2 series of the same index, the last one of a matrix
\* narrower than the availability matrix.
RefCost(s, h) ==
  IF costgeneration = "setManually" THEN marginalCost
  ELSE computeMarketBidCost(fuelcost[MinOf(s, Width(fuelcost) - 1)][h],
                            co2cost[MinOf(s, Width(co2cost) - 1)][h])

RefBid(s, h) ==
  IF costgeneration = "setManually" THEN marketBidCost ELSE RefCost(s, h)

\* Once ComputeCostTimeSeries has run, the operating cost and the marginal
\* cost the solver reads for any availability series and hour agree, and
\* both are the reference cost of that series times the hourly cost
\* modulation: resizeCostTS, the clamped fuel and CO2 column indices of
\* ComputeMarketBidTS and the clamped series index of the getters must
\* pick the same column.
OperatingCostIsModulatedMarginal ==
  costsComputed =>
    \A s \in Series, h \in Hours :
      /\ getOperatingCost(s, h) = getMarginalCost(s, h)
      /\ getMarginalCost(s, h) = RefCost(s, h) * modulation["thermalModulationCost"][h]

\* getMarketBidCost of year y at hour h is the market bid of the series
\* drawn for y at that hour times the market-bid modulation of that hour,
\* as getMarginalCost reads the cost modulation of the hour (once the
\* series of every year are drawn).
MarketBidUsesHourlyModulation ==
  (costsComputed /\ tsNumbers # NoTsNumbers) =>
    \A y \in Years, h \in Hours :
      getMarketBidCost(h, y) =
        RefBid(tsNumbers[y], h) * modulation["thermalModulationMarketBid"][h]

\* Once the weekly problem is built from a cluster whose availability
\* checkAndCorrectAvailability corrected after the spinning, every hourly
\* availability can be produced by whole units under the bounds the
\* builder gives the group (PmaxDUnGroupeDuPalierThermique and
\* pminDUnGroupeDuPalierThermique): the smallest output of ceil(e / Pmax)
\* started units does not exceed e. The correction and the builder compute
\* Pmax and Pmin separately, and must agree.
AvailabilityServable ==
  (pbPalier.built /\ correctedAfterSpin /\ ~reversed
   /\ pbPalier.PmaxDUnGroupeDuPalierThermique > 0) =>
    LET Pmax == pbPalier.PmaxDUnGroupeDuPalierThermique
        Pmin == pbPalier.pminDUnGroupeDuPalierThermique
    IN \A x \in Series, y \in Hours :
         ts[x][y] \notin Specials =>
           Pmin * ((ts[x][y] + Pmax - 1) \div Pmax) <= ts[x][y]

\* Once calculated, the minimum of modulation / ceil(modulation) that
\* checkMinStablePower compares with the border is the minimum over the
\* capacity modulation as it is now, and its index holds it: the
\* incremental update of checkMinStablePowerWithNewModulation keeps
\* calculatMinDivModulation's result exact over any sequence of GUI edits.
MinDivModulationFresh ==
  minDivModulation.isCalculated =>
    /\ Div(capacityModulation[minDivModulation.index]) = minDivModulation.value
    /\ \A h \in Hours : ~Less(Div(capacityModulation[h]), minDivModulation.value)

\* When normalizeAndCheckNPO returned true, every day's NPO min is at most
\* its NPO max, and NPO max at most the unit count, whatever the loaded
\* values were.
NPOWithinUnitCount ==
  npoRet => \A d \in Days : npoMin[d] <= npoMax[d] /\ npoMax[d] <= unitCount

\* The minimum down-time row MinDownTime::add builds from the palier that
\* SIM_InitialisationProblemeHebdo filled from the checked cluster, at the
\* first and the last hour of the weekly horizon: it is built, every
\* stopped-units hour it names lies in the horizon and is named once, and
\* its terms fit the 1 + D the counting pass reserved for it.
MinDownTimeRowWellFormed ==
  pbPalier.built =>
    LET D == pbPalier.DureeMinimaleDArretDUnGroupeDuPalierThermique
        N == OptimisationHorizon
    IN \A pdt \in {0, N - 1} :
         LET hours == MinDownTimeStopHours(pdt, D, N)
         IN /\ MinDownTimeRowBuilt(D)
            /\ hours \subseteq 0..N - 1
            /\ Cardinality(hours) = D
            /\ 1 + Cardinality(hours) <= MinDownTimeReservedTerms(D)

=============================================================================
