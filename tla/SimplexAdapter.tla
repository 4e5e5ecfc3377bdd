--------------------------- MODULE SimplexAdapter ---------------------------
(***************************************************************************)
(* The simplex solve adapter of the hydro heuristic:                       *)
(* H2O_M_ResoudreLeProblemeLineaire (monthly problem, one solver instance  *)
(* per reservoir) and its twin H2O2_J_ResoudreLeProblemeLineaire (daily    *)
(* problem, one solver instance per day count), with H2O_M_Free that       *)
(* releases the stored instances at the end.                               *)
(*                                                                         *)
(* A call starts from the instance stored in ProblemeSpx[n]: none means a  *)
(* cold start (SIMPLEXE_SEUL), one means a warm start on its basis         *)
(* (BRANCH_AND_BOUND_OU_CUT_NOEUD). SPX_Simplexe is the black box: it      *)
(* returns the instance it worked on and a status. After a failure on the  *)
(* first pass that is not an internal error the instance is released and   *)
(* the problem is solved again from scratch (goto RESOLUTION).             *)
(*                                                                         *)
(* The caller modelled is H2O_J_OptimiserUnMois                           *)
(* (daily/h2o_j_optimiser_un_mois.cpp): it picks the first problem whose   *)
(* day count NbJoursDUnProbleme is the month's NombreDeJoursDuMois, or     *)
(* shuts down when none has, and calls H2O_J_ResoudreLeProblemeLineaire.   *)
(* That daily solve is not under src; spec.md (4.1, step 6, and 4.3) says  *)
(* it is the same generic adapter, indexed by the day count, so the        *)
(* adapter modelled here stands for it.                                    *)
(*                                                                         *)
(* Data are abstracted away: a solver instance is a model value, the       *)
(* primal solution is the flag solutionWritten (the writes through         *)
(* AdresseOuPlacerLaValeurDesVariablesOptimisees).                         *)
(***************************************************************************)
EXTENDS Integers, FiniteSets

CONSTANTS
  Problems,          \* indices 0..NombreDeProblemes - 1 (NumeroDeReservoir / NumeroDeProbleme)
  NbJoursDUnProbleme, \* ProblemeHydraulique.NbJoursDUnProbleme: [Problems -> day count]
  MonthLengths,      \* the NombreDeJoursDuMois a caller may pass
  Instances,         \* solver instances (PROBLEME_SPX*) SPX_Simplexe may allocate
  NULL,              \* the null pointer
  MaxCalls,          \* bound on the number of adapter calls
  AllocationMayFail  \* SPX_Simplexe may return no instance for a cold start

ASSUME /\ Problems = 0..Cardinality(Problems) - 1
       /\ NbJoursDUnProbleme \in [Problems -> Nat]
       /\ NULL \notin Instances
       /\ MaxCalls \in Nat \ {0}
       /\ AllocationMayFail \in BOOLEAN

\* Values of ExistenceDUneSolution returned by the solver.
OUI_SPX == "OUI_SPX"
NON_SPX == "NON_SPX"
SPX_ERREUR_INTERNE == "SPX_ERREUR_INTERNE"
SolverStatus == {OUI_SPX, NON_SPX, SPX_ERREUR_INTERNE}

\* Values of ResultatsValides reported to the caller.
OUI == "OUI"
NON == "NON"
EMERGENCY_SHUT_DOWN == "EMERGENCY_SHUT_DOWN"

VARIABLES
  ProblemeSpx,       \* ProblemeHydraulique.ProblemeSpx[]: stored instance per problem
  live,              \* instances allocated and not yet released
  released,          \* instances released by SPX_LibererProbleme
  pc,                \* "idle" | "resolution" | "decide" | "freed"
  cur,               \* the problem of the call in progress
  ProbSpx,           \* local ProbSpx of the call
  PremierPassage,    \* local PremierPassage of the call
  Existence,         \* ExistenceDUneSolution of the last SPX_Simplexe
  ResultatsValides,  \* DonneesAnnuelles.ResultatsValides
  solutionWritten,   \* the primal values were written back in this call
  passes,            \* SPX_Simplexe invocations in this call (history)
  internalError,     \* SPX_ERREUR_INTERNE was seen in this call (history)
  calls,             \* adapter calls made so far
  NombreDeJoursDuMois \* DonneesMensuelles->NombreDeJoursDuMois of the last month

vars == <<ProblemeSpx, live, released, pc, cur, ProbSpx, PremierPassage,
          Existence, ResultatsValides, solutionWritten, passes,
          internalError, calls, NombreDeJoursDuMois>>

MaybeInstance == Instances \cup {NULL}

\* Instances SPX_Simplexe has never handed out.
Fresh == Instances \ (live \cup released)

TypeOK ==
  /\ ProblemeSpx \in [Problems -> MaybeInstance]
  /\ live \subseteq Instances /\ released \subseteq Instances
  /\ pc \in {"idle", "resolution", "decide", "freed"}
  /\ cur \in Problems
  /\ ProbSpx \in MaybeInstance
  /\ PremierPassage \in BOOLEAN
  /\ Existence \in SolverStatus
  /\ ResultatsValides \in {OUI, NON, EMERGENCY_SHUT_DOWN}
  /\ solutionWritten \in BOOLEAN
  /\ passes \in 0..3 /\ internalError \in BOOLEAN
  /\ calls \in 0..MaxCalls
  /\ NombreDeJoursDuMois \in MonthLengths

\* Model bound: a call allocates at most two instances (two cold passes);
\* a call only starts while that many are left in Instances.
InstancesLeft == Cardinality(Fresh) >= 2

-----------------------------------------------------------------------------
\* Instantiation: no instance is stored before the first solve.
Init ==
  /\ ProblemeSpx = [n \in Problems |-> NULL]
  /\ live = {} /\ released = {}
  /\ pc = "idle"
  /\ cur \in Problems
  /\ ProbSpx = NULL
  /\ PremierPassage = TRUE
  /\ Existence = OUI_SPX
  /\ ResultatsValides = NON
  /\ solutionWritten = FALSE
  /\ passes = 0 /\ internalError = FALSE
  /\ calls = 0
  /\ NombreDeJoursDuMois \in MonthLengths

\* Mutant: the pass counter of the previous call is not reset.
BeginKeepsPasses(n) ==
  /\ pc = "idle"
  /\ calls < MaxCalls
  /\ InstancesLeft
  /\ cur' = n
  /\ ProbSpx' = ProblemeSpx[n]
  /\ PremierPassage' = TRUE
  /\ solutionWritten' = FALSE
  /\ internalError' = FALSE
  /\ calls' = calls + 1
  /\ pc' = "resolution"
  /\ UNCHANGED <<ProblemeSpx, live, released, Existence, passes>>

\* Entry of the call: read the stored instance, first pass.
Begin(n) ==
  /\ pc = "idle"
  /\ calls < MaxCalls
  /\ InstancesLeft
  /\ cur' = n
  /\ ProbSpx' = ProblemeSpx[n]
  /\ PremierPassage' = TRUE
  /\ solutionWritten' = FALSE
  /\ passes' = 0 /\ internalError' = FALSE
  /\ calls' = calls + 1
  /\ pc' = "resolution"
  /\ UNCHANGED <<ProblemeSpx, live, released, Existence>>

\* The loop of H2O_J_OptimiserUnMois: the first problem whose day count is
\* the month's, -1 when there is none.
NumeroDeProbleme(nbJours) ==
  LET found == {i \in Problems : NbJoursDUnProbleme[i] = nbJours}
  IN IF found = {} THEN -1 ELSE CHOOSE i \in found : \A j \in found : i <= j

\* H2O_J_OptimiserUnMois for a month of nbJours days: no problem of that
\* size shuts down at once; otherwise ResultatsValides is set to NON and
\* the problem is solved (the second member and bounds set up before the
\* solve, and the smoothing of over-turbining after it, change no state
\* the model keeps).
H2O_J_OptimiserUnMois(nbJours) ==
  /\ pc = "idle"
  /\ calls < MaxCalls
  /\ NombreDeJoursDuMois' = nbJours
  /\ IF NumeroDeProbleme(nbJours) < 0
     THEN /\ ResultatsValides' = EMERGENCY_SHUT_DOWN
          /\ solutionWritten' = FALSE
          /\ calls' = calls + 1
          /\ UNCHANGED <<ProblemeSpx, live, released, pc, cur, ProbSpx, PremierPassage,
                         Existence, passes, internalError>>
     ELSE /\ ResultatsValides' = NON
          /\ Begin(NumeroDeProbleme(nbJours))

\* What SPX_Simplexe may return: a warm start works on the given instance;
\* a cold start allocates a new one, or none on an allocation failure.
SimplexeResults(in) ==
  IF in # NULL
  THEN {<<in, s>> : s \in SolverStatus}
  ELSE {<<h, s>> : h \in Fresh, s \in SolverStatus}
       \cup (IF AllocationMayFail THEN {<<NULL, SPX_ERREUR_INTERNE>>} ELSE {})

\* label RESOLUTION: set up the problem, call SPX_Simplexe, store the
\* instance it returned when there is one, record ExistenceDUneSolution.
CallSimplexe ==
  /\ pc = "resolution"
  /\ \E r \in SimplexeResults(ProbSpx) :
       LET h == r[1] IN
       /\ ProbSpx' = h
       /\ ProblemeSpx' = IF h # NULL THEN [ProblemeSpx EXCEPT ![cur] = h]
                                    ELSE ProblemeSpx
       /\ live' = live \cup ({h} \ {NULL})
       /\ Existence' = r[2]
       /\ internalError' = (internalError \/ r[2] = SPX_ERREUR_INTERNE)
  /\ passes' = passes + 1
  /\ pc' = "decide"
  /\ UNCHANGED <<released, cur, PremierPassage, ResultatsValides,
                 solutionWritten, calls, NombreDeJoursDuMois>>

\* The condition under which the first pass is not accepted.
RetryCondition ==
  Existence # OUI_SPX /\ PremierPassage /\ ProbSpx # NULL

\* Mutant: the local ProbSpx is not set to NULL after the release.
FallBackKeepsInstance ==
  /\ pc = "decide"
  /\ RetryCondition
  /\ Existence # SPX_ERREUR_INTERNE
  /\ live' = live \ {ProbSpx}
  /\ released' = released \cup {ProbSpx}
  /\ PremierPassage' = FALSE
  /\ pc' = "resolution"
  /\ UNCHANGED <<ProblemeSpx, cur, Existence, ResultatsValides, ProbSpx,
                 solutionWritten, passes, internalError, calls, NombreDeJoursDuMois>>

\* Mutant: PremierPassage is not cleared before the goto.
FallBackKeepsFirstPass ==
  /\ pc = "decide"
  /\ RetryCondition
  /\ Existence # SPX_ERREUR_INTERNE
  /\ live' = live \ {ProbSpx}
  /\ released' = released \cup {ProbSpx}
  /\ ProbSpx' = NULL
  /\ pc' = "resolution"
  /\ UNCHANGED <<ProblemeSpx, cur, Existence, ResultatsValides, PremierPassage,
                 solutionWritten, passes, internalError, calls, NombreDeJoursDuMois>>

\* Release the instance and go back to RESOLUTION for a cold start.
FallBackToColdStart ==
  /\ pc = "decide"
  /\ RetryCondition
  /\ Existence # SPX_ERREUR_INTERNE
  /\ live' = live \ {ProbSpx}
  /\ released' = released \cup {ProbSpx}
  /\ ProbSpx' = NULL
  /\ PremierPassage' = FALSE
  /\ pc' = "resolution"
  /\ UNCHANGED <<ProblemeSpx, cur, Existence, ResultatsValides,
                 solutionWritten, passes, internalError, calls, NombreDeJoursDuMois>>

\* Internal error on a first pass that has an instance.
EmergencyShutDown ==
  /\ pc = "decide"
  /\ RetryCondition
  /\ Existence = SPX_ERREUR_INTERNE
  /\ ResultatsValides' = EMERGENCY_SHUT_DOWN
  /\ pc' = "idle"
  /\ UNCHANGED <<ProblemeSpx, live, released, cur, ProbSpx, PremierPassage,
                 Existence, solutionWritten, passes, internalError, calls, NombreDeJoursDuMois>>

\* Mutant: OUI is returned but the loop writing the primal values through
\* AdresseOuPlacerLaValeurDesVariablesOptimisees is skipped.
StoreSolutionNoWrite ==
  /\ pc = "decide"
  /\ ~RetryCondition
  /\ Existence = OUI_SPX
  /\ ResultatsValides' = OUI
  /\ pc' = "idle"
  /\ UNCHANGED <<ProblemeSpx, live, released, cur, ProbSpx, PremierPassage,
                 Existence, solutionWritten, passes, internalError, calls, NombreDeJoursDuMois>>

\* Solution found: costs computed, ResultatsValides = OUI, values written
\* through the output addresses.
StoreSolution ==
  /\ pc = "decide"
  /\ ~RetryCondition
  /\ Existence = OUI_SPX
  /\ ResultatsValides' = OUI
  /\ solutionWritten' = TRUE
  /\ pc' = "idle"
  /\ UNCHANGED <<ProblemeSpx, live, released, cur, ProbSpx, PremierPassage,
                 Existence, passes, internalError, calls, NombreDeJoursDuMois>>

\* Mutant: only an explicit NON_SPX is handled after the retry.
ReportNoSolutionOnlyNon ==
  /\ pc = "decide"
  /\ ~RetryCondition
  /\ Existence = NON_SPX
  /\ ResultatsValides' = NON
  /\ pc' = "idle"
  /\ UNCHANGED <<ProblemeSpx, live, released, cur, ProbSpx, PremierPassage,
                 Existence, solutionWritten, passes, internalError, calls, NombreDeJoursDuMois>>

\* No solution accepted: ResultatsValides = NON.
ReportNoSolution ==
  /\ pc = "decide"
  /\ ~RetryCondition
  /\ Existence # OUI_SPX
  /\ ResultatsValides' = NON
  /\ pc' = "idle"
  /\ UNCHANGED <<ProblemeSpx, live, released, cur, ProbSpx, PremierPassage,
                 Existence, solutionWritten, passes, internalError, calls, NombreDeJoursDuMois>>

\* H2O_M_Free: release every stored instance.
Free ==
  /\ pc = "idle"
  /\ LET stored == {ProblemeSpx[n] : n \in Problems} \ {NULL} IN
       /\ live' = live \ stored
       /\ released' = released \cup stored
  /\ pc' = "freed"
  /\ UNCHANGED <<ProblemeSpx, cur, ProbSpx, PremierPassage, Existence,
                 ResultatsValides, solutionWritten, passes, internalError, calls, NombreDeJoursDuMois>>

Next ==
  \/ \E nbJours \in MonthLengths : H2O_J_OptimiserUnMois(nbJours)
  \/ CallSimplexe
  \/ FallBackToColdStart
  \/ EmergencyShutDown
  \/ StoreSolution
  \/ ReportNoSolution
  \/ Free

\* The steps of a call run sequentially on one thread without waiting.
Fairness ==
  /\ WF_vars(CallSimplexe)
  /\ WF_vars(FallBackToColdStart)
  /\ WF_vars(EmergencyShutDown)
  /\ WF_vars(StoreSolution)
  /\ WF_vars(ReportNoSolution)

Spec == Init /\ [][Next]_vars /\ Fairness

-----------------------------------------------------------------------------
(***************************************************************************)
(* Properties                                                              *)
(***************************************************************************)

\* No dangling solver instance: the instance a pass hands to SPX_Simplexe
\* has not been released by SPX_LibererProbleme, and when a call returns
\* every instance kept in ProblemeSpx[] (warm start of the next call on
\* that problem, SPX_LibererProbleme in H2O_M_Free) is still allocated.
NoDanglingInstance ==
  /\ pc = "resolution" => ProbSpx \notin released
  /\ pc = "idle" => \A n \in Problems : ProblemeSpx[n] \notin released

\* One-shot retry: a call of the adapter invokes SPX_Simplexe at most twice
\* (the first pass and one cold restart after the goto RESOLUTION).
AtMostOneColdRetry == passes <= 2

\* An internal error of the solver is fatal: a call in which
\* SPX_Simplexe reported SPX_ERREUR_INTERNE ends with EMERGENCY_SHUT_DOWN,
\* never with the NON that means "no feasible solution".
InternalErrorIsFatal ==
  (pc = "idle" /\ calls > 0 /\ internalError) => ResultatsValides = EMERGENCY_SHUT_DOWN

\* Every call of the adapter returns to its caller.
CallReturns == (pc = "resolution") ~> (pc = "idle")

=============================================================================
