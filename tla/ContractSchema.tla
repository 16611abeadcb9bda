--------------------------- MODULE ContractSchema ---------------------------
(***************************************************************************)
(* The comparison of two payloads of a source: each is flattened to the    *)
(* types that were seen at its paths, and the flat schemas are compared    *)
(* (the pure functions of repositories/contract_drift.py).                 *)
(*                                                                         *)
(* A value is a record with its type, the fields of an object and the      *)
(* elements of an array.  A path is a sequence of keys in which "[]" stands *)
(* for the elements of an array; the types at a path are a set.            *)
(***************************************************************************)
EXTENDS Integers, FiniteSets, SequencesExt

Scalar(type) == [type |-> type]
Object(fields) == [type |-> "object", fields |-> fields]
Array(elements) == [type |-> "array", elements |-> elements]

ArrayInspectionLimit == 20

-----------------------------------------------------------------------------
\* _merge_flat_schema with _merge_value_types: the union at every path.
MergeFlatSchema(target, seen) ==
  [path \in DOMAIN target \cup DOMAIN seen |->
     (IF path \in DOMAIN target THEN target[path] ELSE {})
       \cup (IF path \in DOMAIN seen THEN seen[path] ELSE {})]

MergeAll(schemas) ==
  FoldLeft(MergeFlatSchema, [path \in {} |-> {}], SetToSeq(schemas))

RECURSIVE FlattenValue(_, _)
FlattenValue(value, path) ==
  LET here == [p \in {path} |-> {value.type}]
      below == CASE value.type = "object" ->
                      {FlattenValue(value.fields[k], Append(path, k)) :
                         k \in DOMAIN value.fields}
                 [] value.type = "array" ->
                      {FlattenValue(value.elements[i], Append(path, "[]")) :
                         i \in {n \in DOMAIN value.elements : n <= ArrayInspectionLimit}}
                 [] OTHER -> {}
  IN MergeAll({here} \cup below)

\* The payload itself is a mapping.
FlattenSchema(payload) ==
  MergeAll({FlattenValue(payload[k], <<k>>) : k \in DOMAIN payload})

-----------------------------------------------------------------------------
\* An array without elements says nothing about what is below it.
IsBelowInconclusiveArray(path, flat) ==
  \E array \in DOMAIN flat :
    /\ "array" \in flat[array]
    /\ ~\E p \in DOMAIN flat : IsPrefix(Append(array, "[]"), p)
    /\ IsPrefix(Append(array, "[]"), path)

DiffContract(previous, current) ==
  [added |-> DOMAIN current \ DOMAIN previous,
   removed |-> {p \in DOMAIN previous \ DOMAIN current : ~IsBelowInconclusiveArray(p, current)},
   typeChanged |-> {p \in DOMAIN previous \cap DOMAIN current : previous[p] # current[p]}]

CompatibilityScore(diff) ==
  LET score == 100 - 2 * Cardinality(diff.added) - 20 * Cardinality(diff.removed)
                   - 15 * Cardinality(diff.typeChanged)
  IN IF score < 0 THEN 0 ELSE score

EventType(diff) ==
  CASE diff.removed \cup diff.typeChanged # {} -> "breaking"
    [] diff.removed \cup diff.typeChanged = {} /\ diff.added # {} -> "non_breaking"
    [] OTHER -> "none"

Severity(eventType, score) ==
  CASE eventType = "none" -> "none"
    [] eventType # "none" /\ score >= 90 -> "low"
    [] eventType # "none" /\ score \in 75..89 -> "medium"
    [] eventType # "none" /\ score \in 50..74 -> "high"
    [] OTHER -> "critical"

RequiresIncidentResponse(eventType, severity) ==
  severity = "critical" \/ eventType = "breaking"

-----------------------------------------------------------------------------
(* The relations of ContractDrift for a sequence of flat schemas whose      *)
(* positions are their fingerprints.                                        *)

StructureFingerprint(schemas, flat) == CHOOSE i \in DOMAIN schemas : schemas[i] = flat

DriftsOf(schemas) ==
  {pair \in (DOMAIN schemas) \X (DOMAIN schemas) :
     EventType(DiffContract(schemas[pair[1]], schemas[pair[2]])) # "none"}

BreakingOf(schemas) ==
  {pair \in DriftsOf(schemas) :
     LET diff == DiffContract(schemas[pair[1]], schemas[pair[2]])
     IN RequiresIncidentResponse(EventType(diff),
                                 Severity(EventType(diff), CompatibilityScore(diff)))}
=============================================================================
