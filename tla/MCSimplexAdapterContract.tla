---------------------- MODULE MCSimplexAdapterContract ----------------------
(***************************************************************************)
(* The adapter H2O_M_ResoudreLeProblemeLineaire / H2O_M_Free implements    *)
(* SolveContract. The refinement mapping:                                   *)
(*   - status: a call is in progress at the labels RESOLUTION and after    *)
(*     SPX_Simplexe, the problem is freed after H2O_M_Free;                *)
(*   - problem, outcome, written: the call's NumeroDeReservoir,            *)
(*     ResultatsValides and the write-back through                        *)
(*     AdresseOuPlacerLaValeurDesVariablesOptimisees;                      *)
(*   - handle: the call's own problem is "inUse"; any other slot is        *)
(*     "none" for NULL, "live" for an allocated instance and "stale" for   *)
(*     a released one, which the contract never allows.                    *)
(***************************************************************************)
EXTENDS MCSimplexAdapter

InCall == pc \in {"resolution", "decide"}

HandleOf(n) ==
  CASE pc = "freed"                 -> "none"
    [] InCall /\ n = cur            -> "inUse"
    [] ProblemeSpx[n] = NULL        -> "none"
    [] ProblemeSpx[n] \in live      -> "live"
    [] OTHER                        -> "stale"

Contract == INSTANCE SolveContract WITH
  status  <- IF pc = "freed" THEN "freed" ELSE IF InCall THEN "solving" ELSE "idle",
  problem <- cur,
  outcome <- ResultatsValides,
  written <- solutionWritten,
  handle  <- [n \in Problems |-> HandleOf(n)]

\* The adapter implements the solve contract of spec section 4.3: every
\* step of H2O_M_ResoudreLeProblemeLineaire and H2O_M_Free is a step of
\* the contract or leaves its state unchanged, and every call returns.
ContractSpec == Contract!Spec

=============================================================================
