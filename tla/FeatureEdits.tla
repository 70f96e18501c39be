---------------------------- MODULE FeatureEdits ----------------------------
(***************************************************************************)
(* What an action list does to the features of one document of the memory  *)
(* adapter (src/src/cadrig/adapters/memory.py, _apply and its helpers).    *)
(*                                                                         *)
(* A document's features are a function from the ids that exist to a       *)
(* record [type, parameters]; parameters map a name to a number.  Numbers  *)
(* are integers here: the code compares them with 0 and with one another,  *)
(* and nothing depends on their fractional part.  The order in which the   *)
(* dictionary lists features is left out: only its content hash sees it.   *)
(***************************************************************************)
EXTENDS Integers, Sequences, FiniteSets, Functions, SequencesExt

CONSTANTS
    Absent,     \* the document does not exist (Python's None)
    Failed      \* an action raised _ActionFailure

\* Names of the numeric parameters each feature-adding action must carry.
RequiredParameters ==
    [add_box      |-> {"width", "depth", "height"},
     add_cylinder |-> {"radius", "height"}]

FeatureType == [add_box |-> "box", add_cylinder |-> "cylinder"]

NoFeatures == [id \in {} |-> 0]

\* _positive_parameters: every required name is present and positive.
PositiveParameters(action) ==
    \A name \in RequiredParameters[action.kind] :
        name \in DOMAIN action.parameters /\ action.parameters[name] > 0

\* add_box and add_cylinder: parameters the action carries beyond the required
\* ones are dropped; an id that is blank ("") or already taken is a failure.
AddFeature(features, action) ==
    IF /\ PositiveParameters(action)
       /\ action.feature # "" /\ action.feature \notin DOMAIN features
    THEN [id \in DOMAIN features \cup {action.feature} |->
             IF id = action.feature
             THEN [type       |-> FeatureType[action.kind],
                   parameters |-> Restrict(action.parameters,
                                           RequiredParameters[action.kind])]
             ELSE features[id]]
    ELSE Failed

\* set_parameter: only a parameter the target already has, to a positive value.
SetParameter(features, action) ==
    IF /\ action.feature \in DOMAIN features
       /\ action.name \in DOMAIN features[action.feature].parameters
       /\ action.value > 0
    THEN [features EXCEPT ![action.feature].parameters[action.name] = action.value]
    ELSE Failed

DeleteFeature(features, action) ==
    IF action.feature \in DOMAIN features
    THEN Restrict(features, DOMAIN features \ {action.feature})
    ELSE Failed

\* _apply: one action on the candidate; create_document replaces whatever the
\* candidate held, every other action needs a document.
ApplyAction(features, action) ==
    IF action.kind = "create_document" THEN NoFeatures
    ELSE IF features = Absent THEN Failed
    ELSE CASE action.kind \in {"add_box", "add_cylinder"} -> AddFeature(features, action)
           [] action.kind = "set_parameter"  -> SetParameter(features, action)
           [] action.kind = "delete_feature" -> DeleteFeature(features, action)
           [] OTHER -> Failed

\* The loop of execute: the first failing action fails the whole list.
ApplyActions(features, actions) ==
    FoldLeft(LAMBDA candidate, action :
                 IF candidate = Failed THEN Failed
                 ELSE ApplyAction(candidate, action),
             features, actions)
=============================================================================
