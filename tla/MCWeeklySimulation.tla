------------------------- MODULE MCWeeklySimulation -------------------------
(***************************************************************************)
(* An instance of WeeklySimulation for TLC: four binding constraints, one *)
(* of each type in a group g1 whose series have two columns (the weekly   *)
(* one of g1 has a single column), and a weekly constraint of two columns *)
(* in no group. Every value of a series is distinct: 100 * (column + 1)   *)
(* plus the hour or day of the year, so a value read from the wrong       *)
(* column, hour, day or year shows.                                        *)
(***************************************************************************)
EXTENDS WeeklySimulation

CONSTANTS bcHourly, bcDaily, bcWeekly, bcWeeklyAlone, g1, lnk1, lnk2

MCBindingConstraints == {bcHourly, bcDaily, bcWeekly, bcWeeklyAlone}

MCBCType ==
  [bc \in MCBindingConstraints |->
     CASE bc = bcHourly -> "hourly"
       [] bc = bcDaily -> "daily"
       [] OTHER -> "weekly"]

MCBCGroup == [bc \in MCBindingConstraints |-> IF bc = bcWeeklyAlone THEN NoGroup ELSE g1]

MCRHSWidth == [bc \in MCBindingConstraints |-> IF bc = bcWeekly THEN 1 ELSE 2]

\* Hours and days of the year the series cover.
MCRHS ==
  [bc \in MCBindingConstraints |->
     [c \in 0..MCRHSWidth[bc] - 1 |->
        IF bc = bcHourly
        THEN [t \in 0..NbWeeks * DaysPerWeek * HoursPerDay - 1 |-> 100 * (c + 1) + t]
        ELSE [d \in 0..NbWeeks * DaysPerWeek - 1 |-> 100 * (c + 1) + d]]]

\* Two links, one with hurdle costs and loop flow, one with neither; the
\* costs of an hour are distinct per direction, link and hour of the year.
MCUseHurdlesCost == [k \in Links |-> k = lnk1]
MCUseLoopFlow == [k \in Links |-> k = lnk1]
MCHurdlesCost ==
  [k \in Links |-> [dir \in {"direct", "indirect"} |->
     [t \in 0..NbWeeks * DaysPerWeek * HoursPerDay - 1 |->
        (IF dir = "direct" THEN 1000 ELSE 2000) + (IF k = lnk1 THEN 0 ELSE 500) + t]]]

\* The studies: the order Load (padded, lower case) with the local
\* matching rule off, hurdle costs in the CSR and an unparsable threshold;
\* the rule off with the default order DENS; the order "DENS" with an
\* unparsable enable-first-step; an adequacy study.
MCStudies ==
  LET loadOff == << <<"include-adq-patch", TRUE>>, <<"enable-first-step", FALSE>>,
                    <<"price-taking-order", Text("load", FALSE, TRUE)>>,
                    <<"include-hurdle-cost-csr", TRUE>>,
                    <<"threshold-csr-variable-bounds-relaxation", Garbage>> >>
  IN {[mode |-> "economy", areaModes |-> {"inside", "outside"}, hurdleCosts |-> TRUE,
       section |-> loadOff],
      [mode |-> "economy", areaModes |-> {"inside"}, hurdleCosts |-> FALSE,
       section |-> << <<"include-adq-patch", TRUE>>, <<"enable-first-step", FALSE>> >>],
      [mode |-> "economy", areaModes |-> {"inside"}, hurdleCosts |-> FALSE,
       section |-> << <<"price-taking-order", Text("dens", TRUE, FALSE)>>,
                      <<"include-adq-patch", TRUE>>, <<"enable-first-step", Garbage>> >>],
      [mode |-> "adequacy", areaModes |-> {"inside"}, hurdleCosts |-> FALSE,
       section |-> loadOff]}

=============================================================================
