------------------------ MODULE MCHydroWeeklyBounds ------------------------
(***************************************************************************)
(* Model-checking instances of HydroWeeklyBounds. The settings are cut    *)
(* down per family to the flags its properties depend on; a leeway bound  *)
(* is only varied when useLeeway is on, since the code reads 1 otherwise. *)
(* The weeks are cut down the same way: a family varies only the inputs   *)
(* the branches it takes read.                                            *)
(***************************************************************************)
EXTENDS HydroWeeklyBounds

\* Turbine bounds and daily energy: no pumping, no accurate water values.
MCTurbineSettings ==
  { s \in LoadedSettings :
      /\ ~s.pumpHasMod
      /\ ~s.WaterValueAccurate
      /\ s.OptimisationAuPasHebdomadaire
      /\ s.useWaterValue = ~s.useHeuristicTarget
      /\ ~s.useLeeway => s.leewayLowerBound = 1 /\ s.leewayUpperBound = 1 }

\* Pumping: a managed reservoir with pumping, the heuristic flags fixed
\* except the ones SuiviNiveauHoraire and the bound cases read.
MCPumpSettings ==
  { s \in LoadedSettings :
      /\ s.reservoirManagement
      /\ s.pumpHasMod
      /\ ~s.useLeeway
      /\ s.leewayLowerBound = 1 /\ s.leewayUpperBound = 1
      /\ s.useWaterValue }

\* Both families; without pumping the efficiency is not read and is 1.
MCBothSettings ==
  { s \in MCTurbineSettings : s.pumpingEfficiency = 1 } \cup MCPumpSettings

\* Without pumping the pumping capacities are not read (they are 1); with
\* pumping the targets and generating capacities are 1. No property reads
\* the scratchpad powers or the minimum generation: one value each.
Ones == {[j \in Days |-> 1]}
MCWeekDataFor(s) ==
  [dnt : IF s.pumpHasMod THEN Ones ELSE [Days -> TargetValues],
   dgc : IF s.pumpHasMod THEN Ones ELSE [Days -> PowerValues],
   dpc : IF s.pumpHasMod THEN [Days -> PumpPowerValues] ELSE Ones,
   dgm : ModulationValues, dpm : ModulationValues,
   wsl : Levels, inflow : [Days -> InflowValues],
   minNext : Levels, maxNext : Levels,
   omp : Ones, pmp : Ones, mingen : {[t \in WeekHours |-> 1]}]

=============================================================================
