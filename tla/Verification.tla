---------------------------- MODULE Verification ----------------------------
(***************************************************************************)
(* The deterministic contract verifier (src/src/cadrig/verification.py):   *)
(* which requirements and invariants of a design contract a pair of        *)
(* document states satisfies.                                              *)
(*                                                                         *)
(* A document is [revision, features] as in MemoryAdapter, a contract      *)
(* [requirements, invariants], two sets of predicates.  A predicate is a   *)
(* record with the field kind and the parameters that kind requires.  The  *)
(* wording of the issues is left out; a report accepts when there is none. *)
(***************************************************************************)
EXTENDS Integers, FiniteSets

CONSTANT Absent

Exists(document) == document.features # Absent

Ids(document) == DOMAIN document.features

\* Features counted by feature_count: those of one type, or all of them.
Counted(document, type) ==
    {id \in Ids(document) : type = "any" \/ document.features[id].type = type}

HasParameter(document, id, name) ==
    id \in Ids(document) /\ name \in DOMAIN document.features[id].parameters

RequirementKinds ==
    {"document_exists", "revision_advanced", "feature_exists", "feature_absent",
     "feature_count", "parameter_equals"}

InvariantKinds == {"preserve_feature", "preserve_parameter", "max_feature_delta"}

\* A predicate has what its kind requires, and no bound is negative.
ValidParameters(p) ==
    /\ p.kind \in {"feature_exists", "feature_absent", "parameter_equals",
                   "preserve_feature", "preserve_parameter"} => "feature_id" \in DOMAIN p
    /\ p.kind \in {"parameter_equals", "preserve_parameter"} => "name" \in DOMAIN p
    /\ p.kind = "parameter_equals"  => "value" \in DOMAIN p /\ p.tolerance >= 0
    /\ p.kind = "feature_count"     => "count" \in DOMAIN p /\ p.count >= 0
    /\ p.kind = "max_feature_delta" => "maximum" \in DOMAIN p /\ p.maximum >= 0

\* A design contract asks for something, and keeps the two kinds apart.
IsDesignContract(contract) ==
    /\ contract.requirements # {}
    /\ \A p \in contract.requirements : p.kind \in RequirementKinds /\ ValidParameters(p)
    /\ \A p \in contract.invariants : p.kind \in InvariantKinds /\ ValidParameters(p)

Distance(x, y) == IF x >= y THEN x - y ELSE y - x

\* _equivalent, for numbers
Equivalent(actual, expected, tolerance) == Distance(actual, expected) <= tolerance

\* _evaluate_requirement returns no issue.
RequirementHolds(p, before, after) ==
    /\ Exists(after)
    /\ CASE p.kind = "document_exists"   -> TRUE
         [] p.kind = "revision_advanced" -> after.revision > before.revision
         [] p.kind = "feature_exists"    -> p.feature_id \in Ids(after)
         [] p.kind = "feature_absent"    -> p.feature_id \notin Ids(after)
         [] p.kind = "feature_count"     ->
                Cardinality(Counted(after, p.feature_type)) = p.count
         [] p.kind = "parameter_equals"  ->
                /\ HasParameter(after, p.feature_id, p.name)
                /\ Equivalent(after.features[p.feature_id].parameters[p.name],
                              p.value, p.tolerance)
         [] OTHER -> FALSE

\* _evaluate_invariant returns no issue: both states are needed.
InvariantHolds(p, before, after) ==
    /\ Exists(before) /\ Exists(after)
    /\ CASE p.kind = "preserve_feature" ->
                /\ p.feature_id \in Ids(before) \cap Ids(after)
                /\ before.features[p.feature_id] = after.features[p.feature_id]
         [] p.kind = "preserve_parameter" ->
                /\ HasParameter(before, p.feature_id, p.name)
                /\ HasParameter(after, p.feature_id, p.name)
                /\ before.features[p.feature_id].parameters[p.name]
                     = after.features[p.feature_id].parameters[p.name]
         [] p.kind = "max_feature_delta" ->
                Distance(Cardinality(Ids(before)), Cardinality(Ids(after))) <= p.maximum
         [] OTHER -> FALSE

\* What the contract says of a change from before to after.
Satisfies(contract, before, after) ==
    /\ \A p \in contract.requirements : RequirementHolds(p, before, after)
    /\ \A p \in contract.invariants : InvariantHolds(p, before, after)
=============================================================================
