-------------------------- MODULE MCHydroManagement --------------------------
(* Instances of HydroManagement for TLC: areas as model values, and the    *)
(* studies simulated.                                                      *)
EXTENDS HydroManagement

CONSTANTS a1, a2

MCAreas == {a1, a2}

\* A 1-day month, then a 2-day month; the year starts in the second
\* calendar month.
MCMonthDays == <<1, 2>>
MCRealMonthOf == <<1, 0>>

\* No heuristic target: only the hourly check applies.
NoHeuristic ==
  [useHeuristicTarget |-> FALSE, followLoadModulations |-> TRUE, reservoirManagement |-> TRUE]

\* Each area draws on its own demand only.
OwnDemand == [z \in MCAreas |-> [a \in MCAreas |-> IF a = z THEN 1 ELSE 0]]

ZeroColumns ==
  [inflows |-> [a \in MCAreas |-> [d \in Days |-> 0]],
   mingen  |-> [a \in MCAreas |-> [h \in Hours |-> 0]],
   maxP    |-> [a \in MCAreas |-> [d \in Days |-> 0]],
   net     |-> [a \in MCAreas |-> [h \in Hours |-> 0]]]

\* Minimum generation: a study of one year for every configuration of a1,
\* whose inflows, hourly mingen and daily max power range over small sets;
\* a2 generates nothing.
MinGenStudies ==
  {[years |-> 1,
    hydro |-> [a \in MCAreas |-> IF a = a1 THEN cfg ELSE NoHeuristic],
    allocation |-> OwnDemand] :
     cfg \in Config}
MinGenColumns ==
  {[ZeroColumns EXCEPT !.inflows[a1] = i, !.mingen[a1] = g, !.maxP[a1] = p] :
     i \in [Days -> {0, 2}], g \in [Hours -> {0, 1}], p \in [Days -> {0, 1}]}

\* Effective demand: a study of two years for every allocation between the
\* two areas (weights 0 or 1); a day's net demand, -2 or 1, is in its first
\* hour.
DemandStudies ==
  {[years |-> 2,
    hydro |-> [a \in MCAreas |-> NoHeuristic],
    allocation |-> alloc] :
     alloc \in [MCAreas -> [MCAreas -> {0, 1}]]}
DemandColumns ==
  {[ZeroColumns EXCEPT !.net = [a \in MCAreas |->
                                 [h \in Hours |-> IF h % HoursPerDay = 0
                                                  THEN n[a][DayOfHour(h)] ELSE 0]]] :
     n \in [MCAreas -> [Days -> {-2, 1}]]}

MCStudies == MinGenStudies \cup DemandStudies

\* The studies of one year are the minimum-generation ones.
MCColumns(st) == IF st.years = 1 THEN MinGenColumns ELSE DemandColumns
=============================================================================
