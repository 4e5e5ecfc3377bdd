---------------------------- MODULE MCPartHydro ----------------------------
(***************************************************************************)
(* An instance of PartHydro for TLC: two areas, tables of rows 0..2, weeks *)
(* starting at a level of 0, 1/3, 2/3 or all of the capacity.             *)
(*                                                                         *)
(* Area a1's hydro.ini varies in what the checks read: its capacity (none, *)
(* 5e-4 which is under the 1e-3 a managed reservoir needs, 2, or garbage), *)
(* reservoir management, use water, use heuristic, follow load (false or  *)
(* garbage); it has power to level, an intra-daily modulation of 0 and a  *)
(* negative pumping efficiency (both corrected), and a lower leeway above *)
(* the upper one. Area a2 is a managed reservoir of capacity 1 with power  *)
(* to level, water values and hard bounds on rule curves. a1's matrices   *)
(* are valid with every water-value table over {0, 1, 2}, or break one    *)
(* check each; one credit modulation has a value (1.234) SaveToFolder     *)
(* rounds.                                                                 *)
(***************************************************************************)
EXTENDS PartHydro

CONSTANTS a1, a2

MCAreas == {a1, a2}

\* The entries of area a1 that vary, the others fixed; area a2 fixed.
MCIni(cap, rm, wv, uh, fl) ==
  [f \in Fields |->
     [a \in MCAreas |->
        IF a = a1
        THEN CASE f = "reservoirCapacity" -> cap
               [] f = "reservoirManagement" -> rm
               [] f = "useWaterValue" -> wv
               [] f = "useHeuristicTarget" -> uh
               [] f = "followLoadModulations" -> fl
               [] f = "powerToLevel" -> TRUE
               [] f = "intraDailyModulation" -> 0
               [] f = "pumpingEfficiency" -> -1
               [] f = "leewayLowerBound" -> 3
               [] OTHER -> Absent
        ELSE CASE f = "reservoirCapacity" -> Rat(1, 1)
               [] f \in {"reservoirManagement", "powerToLevel", "useWaterValue",
                         "hardBoundsOnRuleCurves"} -> TRUE
               [] OTHER -> Absent]]

MCIniFiles ==
  {MCIni(cap, rm, wv, uh, fl) : cap \in {Absent, Rat(1, 2000), Rat(2, 1), Garbage},
                                rm \in {Absent, TRUE},
                                wv \in {Absent, TRUE},
                                uh \in {Absent, FALSE},
                                fl \in {FALSE, Garbage}}

\* a2: the matrices reset() leaves, with water values 0, 1, 2.
MCA2Matrices == [ResetMatrices EXCEPT !.waterValues = [r \in Rows |-> r * Milli]]

\* a1: valid matrices, with every water-value table over {0, 1, 2} and
\* two credit modulations (one off the 2-decimal grid, with a generating
\* power), or the reset matrices broken in one place.
MCOffGrid ==
  [ResetMatrices EXCEPT !.creditModulation[1].gen = 1234, !.maxPower[0] = Milli]
MCValidA1 ==
  {[m EXCEPT !.waterValues = w] : m \in {ResetMatrices, MCOffGrid},
                                  w \in [Rows -> {0, Milli, 2 * Milli}]}
MCInvalidA1 ==
  {[ResetMatrices EXCEPT !.inflowPattern = -Milli],
   [ResetMatrices EXCEPT !.reservoirLevel.maximum = 101 * Milli],
   [ResetMatrices EXCEPT !.maxPower[1] = 25 * Milli],
   [ResetMatrices EXCEPT !.creditModulation[2].pump = -Milli]}

\* a1: rule curves the loader accepts with the average not strictly
\* between the bounds: above the maximum (e = 8/5), at 2 min - max
\* (e = -1, where 1 + e is 0), on the minimum.
MCUnorderedA1 ==
  {[ResetMatrices EXCEPT !.reservoirLevel = [minimum |-> 0, average |-> 800, maximum |-> 500]],
   [ResetMatrices EXCEPT !.reservoirLevel = [minimum |-> 600, average |-> 200, maximum |-> 1000]],
   [ResetMatrices EXCEPT !.reservoirLevel.average = 0]}

MCMatrixFiles ==
  {[a \in MCAreas |-> IF a = a1 THEN m ELSE MCA2Matrices] :
     m \in MCValidA1 \cup MCInvalidA1 \cup MCUnorderedA1}

\* a2's maximum rule curve at 50, a percentage as spec.md reads the levels;
\* the loader's check (at most 100) accepts it. a1 valid.
MCPercentRuleCurveFiles ==
  {[a \in MCAreas |-> IF a = a1 THEN ResetMatrices
                     ELSE [MCA2Matrices EXCEPT !.reservoirLevel.maximum = 50 * Milli]]}

\* The sections of a2's storage: a valid one whose efficiency (1.5) and
\* initial level (-0.5) validate corrects, with initialleveloptim set; one
\* with an unparsable then a valid capacity, and an unknown group; one
\* without reservoircapacity; one with a negative withdrawal capacity.
MCSTSFiles ==
  { << <<"name", "s">>, <<"group", "Battery">>, <<"reservoircapacity", 2000>>,
       <<"injectionnominalcapacity", 1000>>, <<"withdrawalnominalcapacity", 1000>>,
       <<"efficiency", 1500>>, <<"initiallevel", -500>>, <<"initialleveloptim", TRUE>> >>,
    << <<"reservoircapacity", Garbage>>, <<"reservoircapacity", 1000>>,
       <<"injectionnominalcapacity", 0>>, <<"withdrawalnominalcapacity", 1000>>,
       <<"group", "Other9">>, <<"efficiency", 500>> >>,
    << <<"injectionnominalcapacity", 1000>>, <<"withdrawalnominalcapacity", 1000>>,
       <<"efficiency", -100>> >>,
    << <<"reservoircapacity", 1000>>, <<"injectionnominalcapacity", 1000>>,
       <<"withdrawalnominalcapacity", -1000>> >> }

MCStorageAreas == {a2}

=============================================================================
