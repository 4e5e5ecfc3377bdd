------------------------- MODULE MCThermalCluster -------------------------
(***************************************************************************)
(* Model-checking instance of ThermalCluster: the loaded values a .cfg    *)
(* cannot write, out-of-range ones included, so that every correction of  *)
(* integrityCheck is reached.                                             *)
(***************************************************************************)
EXTENDS ThermalCluster, TLC

\* A negative capacity, reset to 0, and a capacity of two units.
MCRawNominals == {-1, 2}

\* Below the range [0, 100] of spinning, and inside it.
MCRawSpinnings == {-10, 50}

\* One matrix of each width, whose columns differ: a cost read from the
\* wrong column shows.
MCCostMatrices(w) == {[i \in 0..w - 1 |-> [h \in Hours |-> i + 1]]}

\* Two clusters the loader and the GUI can produce, as copyFrom's source.
\* The first: a capacity of two units at 50 percent spinning, spun,
\* corrected, manual costs computed, the minimum quotient calculated over
\* an unmodulated capacity, the NPO normalised. The second: only checked,
\* costs from two fuel series, a capacity modulated to half in hour 0
\* whose minimum is not calculated yet, an NPO min above the max.
MCSourceClusters ==
  LET hours(v) == [h \in Hours |-> v]
      common == [unitCount |-> 1, nominalCapacity |-> 200, minStablePower |-> 300,
                 minUpTime |-> 1, minDownTime |-> 168, marginalCost |-> 1,
                 marketBidCost |-> 1, co2cost |-> [i \in {0} |-> hours(1)],
                 modulation |-> [k \in ModKinds |-> hours(1)],
                 ts |-> [x \in Series |-> hours(100)], checked |-> TRUE,
                 reversed |-> FALSE]
  IN {common @@
        [nominalCapacityWithSpinning |-> 100, spinning |-> 50,
         costgeneration |-> "setManually",
         costsTimeSeries |-> [i \in {0} |-> [marketBid |-> hours(1), marginal |-> hours(1),
                                             production |-> hours(0)]],
         capacityModulation |-> hours(100),
         minDivModulation |-> [value |-> Ratio(100, 100), border |-> Ratio(10200, 10200),
                               index |-> 0, isCalculated |-> TRUE, isValidated |-> TRUE],
         npoMin |-> [d \in Days |-> 0], npoMax |-> [d \in Days |-> 1], npoRet |-> TRUE,
         fuelcost |-> [i \in {0} |-> hours(1)],
         spun |-> TRUE, corrected |-> TRUE, costsComputed |-> TRUE,
         correctedAfterSpin |-> TRUE],
      common @@
        [nominalCapacityWithSpinning |-> 0, spinning |-> 0,
         costgeneration |-> "useCostTimeseries",
         costsTimeSeries |-> [i \in {0} |-> EmptyCosts],
         capacityModulation |-> [h \in Hours |-> IF h = 0 THEN 50 ELSE 100],
         minDivModulation |-> [value |-> Ratio(0, 1), border |-> Ratio(0, 1),
                               index |-> 0, isCalculated |-> FALSE, isValidated |-> FALSE],
         npoMin |-> [d \in Days |-> 2], npoMax |-> [d \in Days |-> 1], npoRet |-> FALSE,
         fuelcost |-> [i \in 0..1 |-> hours(i + 1)],
         spun |-> FALSE, corrected |-> FALSE, costsComputed |-> FALSE,
         correctedAfterSpin |-> FALSE]}

=============================================================================
