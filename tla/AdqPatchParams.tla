--------------------------- MODULE AdqPatchParams ---------------------------
(***************************************************************************)
(* The adequacy patch parameters (libs/antares/study/parameters/          *)
(* adq-patch-params.cpp): the section "adequacy patch" of the study's      *)
(* parameters, read key by key (updateFromKeyValue), written back          *)
(* (saveToINI), reset, and checked when a simulation starts               *)
(* (checkAdqPatchParams), with the output variables the patch removes     *)
(* (addExcludedVariables).                                                 *)
(*                                                                         *)
(* A parameter set is a record of the three structs of the code. An entry *)
(* no conversion accepts is Garbage. Yuni's String::to<T> returns false on *)
(* such an entry and leaves the target unchanged or zeroed, as the build's *)
(* conversion does; both outcomes are kept. Thresholds are integers.      *)
(* A price-taking order is text: its word, whether a letter is upper case, *)
(* whether it is padded with blanks.                                       *)
(***************************************************************************)
EXTENDS Integers, Sequences, SequencesExt

CONSTANTS
  Garbage,
  LocalMatchingEnabledDefault,   \* LocalMatching::enabled as constructed
  defaultThresholdToRunCurtailmentSharing,
  defaultThresholdDisplayLocalMatchingRuleViolations,
  defaultValueThresholdVarBoundsRelaxation

\* Text of a value in the ini file.
Text(word, upper, padded) == [word |-> word, upper |-> upper, padded |-> padded]

\* String::to<bool>, to<double>, to<int>: [ok, val] outcomes.
ValueTo(target, v, Type, zero) ==
  IF v \in Type THEN {[ok |-> TRUE, val |-> v]}
  ELSE {[ok |-> FALSE, val |-> target], [ok |-> FALSE, val |-> zero]}
ToBool(target, v) == ValueTo(target, v, BOOLEAN, FALSE)
ToNumber(target, v) == ValueTo(target, v, Int, 0)

\* The keys of LocalMatching and the field each sets.
LocalMatchingKeys ==
  ("set-to-null-ntc-from-physical-out-to-physical-in-for-first-step" :> "setToZeroOutsideInsideLinks")
  @@ ("set-to-null-ntc-between-physical-out-for-first-step" :> "setToZeroOutsideOutsideLinks")
  @@ ("enable-first-step" :> "enabled")

\* LocalMatching::reset: enabled is left as it is.
LocalMatchingReset(lm) ==
  [lm EXCEPT !.setToZeroOutsideInsideLinks = TRUE, !.setToZeroOutsideOutsideLinks = TRUE]

\* LocalMatching::updateFromKeyValue.
LocalMatchingUpdate(lm, k, v) ==
  IF k \in DOMAIN LocalMatchingKeys
  THEN {[ok |-> r.ok, lm |-> [lm EXCEPT ![LocalMatchingKeys[k]] = r.val]]
          : r \in ToBool(lm[LocalMatchingKeys[k]], v)}
  ELSE {[ok |-> FALSE, lm |-> lm]}

\* CurtailmentSharing::reset, with resetThresholds.
CurtailmentSharingReset ==
  [priceTakingOrder |-> "isDens", includeHurdleCost |-> FALSE, checkCsrCostFunction |-> FALSE,
   thresholdRun |-> defaultThresholdToRunCurtailmentSharing,
   thresholdDisplayViolations |-> defaultThresholdDisplayLocalMatchingRuleViolations,
   thresholdVarBoundsRelaxation |-> defaultValueThresholdVarBoundsRelaxation]

\* StringToPriceTakingOrder: trim and toLower, then "dens" or "load";
\* anything else is refused and the order left unchanged ("none").
StringToPriceTakingOrder(text) ==
  LET s == [text EXCEPT !.upper = FALSE, !.padded = FALSE]
  IN CASE s = Text("dens", FALSE, FALSE) -> "isDens"
       [] s = Text("load", FALSE, FALSE) -> "isLoad"
       [] OTHER -> "none"

\* The keys of CurtailmentSharing other than the order, with the field each
\* sets and its conversion.
CurtailmentSharingKeys ==
  ("include-hurdle-cost-csr" :> "includeHurdleCost")
  @@ ("check-csr-cost-function" :> "checkCsrCostFunction")
  @@ ("threshold-initiate-curtailment-sharing-rule" :> "thresholdRun")
  @@ ("threshold-display-local-matching-rule-violations" :> "thresholdDisplayViolations")
  @@ ("threshold-csr-variable-bounds-relaxation" :> "thresholdVarBoundsRelaxation")
BoolFieldsCS == {"includeHurdleCost", "checkCsrCostFunction"}

\* CurtailmentSharing::updateFromKeyValue.
CurtailmentSharingUpdate(cs, k, v) ==
  CASE k = "price-taking-order" ->
         LET pto == IF v = Garbage THEN "none" ELSE StringToPriceTakingOrder(v)
         IN {[ok |-> pto # "none",
              cs |-> IF pto # "none" THEN [cs EXCEPT !.priceTakingOrder = pto] ELSE cs]}
    [] k \in DOMAIN CurtailmentSharingKeys ->
         LET f == CurtailmentSharingKeys[k]
         IN {[ok |-> r.ok, cs |-> [cs EXCEPT ![f] = r.val]]
               : r \in IF f \in BoolFieldsCS THEN ToBool(cs[f], v) ELSE ToNumber(cs[f], v)}
    [] OTHER -> {[ok |-> FALSE, cs |-> cs]}

\* Mutant: the "Load" case is missing from the switch.
PriceTakingOrderToStringNoLoad(pto) ==
  IF pto = "isDens" THEN Text("dens", TRUE, FALSE) ELSE Text("", FALSE, FALSE)

\* PriceTakingOrderToString: "DENS", "Load", or "" for any other value.
PriceTakingOrderToString(pto) ==
  CASE pto = "isDens" -> Text("dens", TRUE, FALSE)
    [] pto = "isLoad" -> Text("load", TRUE, FALSE)
    [] OTHER -> Text("", FALSE, FALSE)

\* The parameters as constructed (adq-patch-params.h).
AdqPatchParamsConstructed ==
  [enabled |-> FALSE,
   localMatching |-> [enabled |-> LocalMatchingEnabledDefault,
                      setToZeroOutsideInsideLinks |-> TRUE,
                      setToZeroOutsideOutsideLinks |-> TRUE],
   curtailmentSharing |-> CurtailmentSharingReset]

\* AdqPatchParams::reset.
AdqPatchReset(p) ==
  [p EXCEPT !.enabled = FALSE, !.localMatching = LocalMatchingReset(@),
            !.curtailmentSharing = CurtailmentSharingReset]

\* AdqPatchParams::addExcludedVariables: the output variables removed.
addExcludedVariables(p) ==
  (IF ~p.enabled THEN {"DENS", "LMR VIOL.", "SPIL. ENRG. CSR", "DTG MRG CSR"} ELSE {})
  \cup (IF p.enabled /\ ~p.localMatching.enabled THEN {"DENS"} ELSE {})

\* AdqPatchParams::updateFromKeyValue: the patch switch, or both structs
\* are offered the key and the results XORed.
updateFromKeyValue(p, k, v) ==
  IF k = "include-adq-patch"
  THEN {[ok |-> r.ok, p |-> [p EXCEPT !.enabled = r.val]] : r \in ToBool(p.enabled, v)}
  ELSE {[ok |-> c.ok # l.ok,
         p |-> [p EXCEPT !.curtailmentSharing = c.cs, !.localMatching = l.lm]]
          : c \in CurtailmentSharingUpdate(p.curtailmentSharing, k, v),
            l \in LocalMatchingUpdate(p.localMatching, k, v)}

\* The parameters a section gives: reset, then every entry in file order.
LoadAdqPatchSection(p0, section) ==
  FoldLeft(LAMBDA acc, e : UNION {{r.p : r \in updateFromKeyValue(q, e[1], e[2])} : q \in acc},
           {AdqPatchReset(p0)}, section)

\* LocalMatching::addProperties.
LocalMatchingAddProperties(lm) ==
  << <<"set-to-null-ntc-from-physical-out-to-physical-in-for-first-step",
       lm.setToZeroOutsideInsideLinks>>,
     <<"set-to-null-ntc-between-physical-out-for-first-step", lm.setToZeroOutsideOutsideLinks>>,
     <<"enable-first-step", lm.enabled>> >>

\* CurtailmentSharing::addProperties.
CurtailmentSharingAddProperties(cs) ==
  << <<"price-taking-order", PriceTakingOrderToString(cs.priceTakingOrder)>>,
     <<"include-hurdle-cost-csr", cs.includeHurdleCost>>,
     <<"check-csr-cost-function", cs.checkCsrCostFunction>>,
     <<"threshold-initiate-curtailment-sharing-rule", cs.thresholdRun>>,
     <<"threshold-display-local-matching-rule-violations", cs.thresholdDisplayViolations>>,
     <<"threshold-csr-variable-bounds-relaxation", cs.thresholdVarBoundsRelaxation>> >>

\* AdqPatchParams::saveToINI: the section, in the order written.
saveToINI(p) ==
  << <<"include-adq-patch", p.enabled>> >>
  \o LocalMatchingAddProperties(p.localMatching)
  \o CurtailmentSharingAddProperties(p.curtailmentSharing)

\* checkAdqPatchParams: the first check that throws, or "ok".
checkAdqPatchParams(p, study) ==
  CASE study.mode # "economy" -> "IncompatibleStudyModeForAdqPatch"
    [] "inside" \notin study.areaModes -> "NoAreaInsideAdqPatchMode"
    [] p.curtailmentSharing.includeHurdleCost /\ ~study.hurdleCosts -> "IncompatibleHurdleCostCSR"
    [] ~p.localMatching.enabled /\ p.curtailmentSharing.priceTakingOrder = "isDens"
         -> "AdqPatchDisabledLMR"
    [] OTHER -> "ok"

=============================================================================
