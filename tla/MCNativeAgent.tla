--------------------------- MODULE MCNativeAgent ---------------------------
(***************************************************************************)
(* Agents and a user on one document: plans that create it with one or two *)
(* features, grow a feature and drop one, and contracts that tell the      *)
(* resulting documents apart.                                              *)
(***************************************************************************)
EXTENDS Episodes

Edits == INSTANCE FeatureEdits

MCApply(features, actions) == Edits!ApplyActions(features, actions)

MCSupported ==
    {"create_document", "add_box", "add_cylinder", "set_parameter", "delete_feature"}

create == [kind |-> "create_document"]
rod(id) == [kind |-> "add_cylinder", feature |-> id, parameters |-> [radius |-> 1, height |-> 1]]
grow   == [kind |-> "set_parameter", feature |-> "rod", name |-> "height", value |-> 2]

MCActionLists ==
    {<<create, rod("rod")>>, <<create, rod("rod"), rod("pin")>>, <<grow>>}

Rods == [type : {"cylinder"}, parameters : [radius : {1}, height : 1..2]]

MCContents ==
    {Edits!NoFeatures} \cup UNION {[ids -> Rods] : ids \in SUBSET {"rod", "pin"}}

\* one part, present
OnePart ==
    [requirements |-> {[kind |-> "feature_exists", feature_id |-> "rod"],
                       [kind |-> "feature_count", feature_type |-> "any", count |-> 1]},
     invariants |-> {}]

\* an edit of the existing part that grows it and nothing else
Taller ==
    [requirements |-> {[kind |-> "parameter_equals", feature_id |-> "rod", name |-> "height",
                        value |-> 2, tolerance |-> 0],
                       [kind |-> "feature_count", feature_type |-> "cylinder", count |-> 1]},
     invariants |-> {[kind |-> "preserve_parameter", feature_id |-> "rod", name |-> "radius"],
                     [kind |-> "max_feature_delta", maximum |-> 0]}]

\* an edit that leaves the rod exactly as it was and adds no pin
Untouched ==
    [requirements |-> {[kind |-> "document_exists"], [kind |-> "revision_advanced"],
                       [kind |-> "feature_absent", feature_id |-> "pin"]},
     invariants |-> {[kind |-> "preserve_feature", feature_id |-> "rod"]}]

\* no contract: it asks for nothing, and would accept anything
Anything == [requirements |-> {}, invariants |-> {}]

MCContracts == {OnePart, Taller, Untouched, Anything}
=============================================================================
