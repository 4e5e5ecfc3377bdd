------------------------- MODULE STStorageProperties -------------------------
(***************************************************************************)
(* The properties of a short-term storage (libs/antares/study/parts/      *)
(* short-term-storage/properties.cpp): Properties::loadKey, which reads   *)
(* one entry of the storage's section of list.ini; validate, which the     *)
(* loader calls once the section is read; saveToFolder, which writes the  *)
(* section; and importShortTermStorages (sim_calcul_economique.cpp), which *)
(* copies the properties into the weekly problem.                         *)
(*                                                                         *)
(* Values are integers in thousandths (1.0 is Milli). A std::optional      *)
(* without a value is Absent; an entry no parser accepts is Garbage. The   *)
(* defaults of a new storage are in properties.h, which is not under src: *)
(* the initial level's is the constant InitialLevelDefault.               *)
(***************************************************************************)
EXTENDS Integers, Sequences, SequencesExt

CONSTANTS
  Absent, Garbage,
  InitialLevelDefault   \* initiallevelDefault, in thousandths

ASSUME InitialLevelDefault \in 0..1000

STSMilli == 1000

\* The keys of ST_STORAGE_PROPERTY_GROUP_ENUM; a group is kept as its key.
ST_STORAGE_PROPERTY_GROUP_ENUM ==
  {"PSP_open", "PSP_closed", "Pondage", "Battery",
   "Other1", "Other2", "Other3", "Other4", "Other5"}

\* The three std::optional<double> fields and the key that sets each.
OptionalKeys ==
  [injectionnominalcapacity |-> "injectionNominalCapacity",
   withdrawalnominalcapacity |-> "withdrawalNominalCapacity",
   reservoircapacity |-> "reservoirCapacity"]
MandatoryFields == {OptionalKeys[k] : k \in DOMAIN OptionalKeys}

\* A storage as Properties() leaves it (properties.h).
STSDefaults ==
  [name |-> "", group |-> "Other1",
   injectionNominalCapacity |-> Absent, withdrawalNominalCapacity |-> Absent,
   reservoirCapacity |-> Absent, efficiencyFactor |-> STSMilli,
   initialLevel |-> InitialLevelDefault, initialLevelOptim |-> FALSE]

\* Properties::loadKey: [ok, pr], ok the value returned and pr the
\* properties after the entry k = v. The optional fields are set only when
\* the value parses; a group must be a key of the enum; an unknown key is
\* refused. (The files of the model give parsable values to the plain
\* double and bool fields.)
loadKey(pr, k, v) ==
  CASE k \in DOMAIN OptionalKeys ->
         IF v \in Int THEN [ok |-> TRUE, pr |-> [pr EXCEPT ![OptionalKeys[k]] = v]]
         ELSE [ok |-> FALSE, pr |-> pr]
    [] k = "efficiency" -> [ok |-> TRUE, pr |-> [pr EXCEPT !.efficiencyFactor = v]]
    [] k = "name" -> [ok |-> TRUE, pr |-> [pr EXCEPT !.name = v]]
    [] k = "initiallevel" -> [ok |-> TRUE, pr |-> [pr EXCEPT !.initialLevel = v]]
    [] k = "initialleveloptim" -> [ok |-> TRUE, pr |-> [pr EXCEPT !.initialLevelOptim = v]]
    [] k = "group" ->
         IF v \in ST_STORAGE_PROPERTY_GROUP_ENUM
         THEN [ok |-> TRUE, pr |-> [pr EXCEPT !.group = v]]
         ELSE [ok |-> FALSE, pr |-> pr]
    [] OTHER -> [ok |-> FALSE, pr |-> pr]

\* The section read entry by entry from the defaults: the properties, and
\* whether loadKey accepted every entry.
LoadSection(section) ==
  FoldLeft(LAMBDA acc, e :
             LET r == loadKey(acc.pr, e[1], e[2])
             IN [ok |-> acc.ok /\ r.ok, pr |-> r.pr],
           [ok |-> TRUE, pr |-> STSDefaults], section)

\* validate's checkMandatory calls: some mandatory field has no value.
checkMandatory(pr) == \E f \in MandatoryFields : pr[f] = Absent

\* opt < 0 for a std::optional<double>: an empty optional compares less
\* than any value.
OptionalBelowZero(o) == o = Absent \/ o < 0

\* The three "must be >= 0" checks of validate.
negativeMandatory(pr) == \E f \in MandatoryFields : OptionalBelowZero(pr[f])

\* Properties::validate: false at the first mandatory field without a value
\* or negative; else true, the efficiency brought into [0, 1] and an
\* initial level outside [0, 1] replaced by the default.
validate(pr) ==
  IF checkMandatory(pr) THEN [ok |-> FALSE, pr |-> pr]
  ELSE IF negativeMandatory(pr) THEN [ok |-> FALSE, pr |-> pr]
  ELSE [ok |-> TRUE,
        pr |-> [pr EXCEPT
                  !.efficiencyFactor = IF @ < 0 THEN 0 ELSE IF @ > STSMilli THEN STSMilli ELSE @,
                  !.initialLevel = IF @ < 0 \/ @ > STSMilli THEN InitialLevelDefault ELSE @]]

\* An optional written to the ini: its value, or for an empty optional an
\* entry loadKey cannot parse.
Written(o) == IF o = Absent THEN Garbage ELSE o

\* Properties::saveToFolder: the section list.ini gets, in this order.
saveToFolder(pr) ==
  << <<"name", pr.name>>, <<"group", pr.group>>,
     <<"reservoircapacity", Written(pr.reservoirCapacity)>>,
     <<"initiallevel", pr.initialLevel>>,
     <<"injectionnominalcapacity", Written(pr.injectionNominalCapacity)>>,
     <<"withdrawalnominalcapacity", Written(pr.withdrawalNominalCapacity)>>,
     <<"efficiency", pr.efficiencyFactor>>,
     <<"initialleveloptim", pr.initialLevelOptim>> >>

\* importShortTermStorages: the weekly problem's copy; .value() on an
\* empty optional throws std::bad_optional_access.
BadOptionalAccess == [thrown |-> TRUE]
importShortTermStorages(pr) ==
  IF \E f \in MandatoryFields : pr[f] = Absent THEN BadOptionalAccess
  ELSE [thrown |-> FALSE, reservoirCapacity |-> pr.reservoirCapacity, efficiency |-> pr.efficiencyFactor,
        injectionNominalCapacity |-> pr.injectionNominalCapacity,
        withdrawalNominalCapacity |-> pr.withdrawalNominalCapacity,
        initialLevel |-> pr.initialLevel, initialLevelOptim |-> pr.initialLevelOptim,
        name |-> pr.name]

=============================================================================
