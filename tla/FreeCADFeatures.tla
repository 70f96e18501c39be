-------------------------- MODULE FreeCADFeatures ---------------------------
(***************************************************************************)
(* What the FreeCAD adapter's action lists do to the features of a         *)
(* document, as far as its snapshots show them: _preflight, which sees     *)
(* only the ids, and _apply, which sees the objects.                       *)
(*                                                                         *)
(* A feature is [type, values, links]: its numbers by name and the         *)
(* features it is made of by role; of a sketch, the ids of its geometry,   *)
(* how many elements it has and how many constraints.  Planes, points and  *)
(* radii are left out: `sound' says that an item's own numbers are in      *)
(* order.                                                                  *)
(***************************************************************************)
EXTENDS Integers, SequencesExt

CONSTANT Gone       \* a link whose object was removed

FeatureActions == {"create_sketch", "add_box", "add_cylinder", "extrude", "boolean_cut"}

TargetActions ==
    {"add_sketch_geometry", "add_constraint", "set_parameter", "delete_feature", "extrude",
     "boolean_cut"}

\* The parameters an action needs, all positive; they may be set later.
Dimensions(kind) ==
    CASE kind = "add_box" -> {"width", "depth", "height"}
      [] kind = "add_cylinder" -> {"radius", "height"}
      [] kind = "extrude" -> {"length"}
      [] OTHER -> {}

TypeMade(kind) ==
    CASE kind = "add_box" -> "box" [] kind = "add_cylinder" -> "cylinder"
      [] kind = "create_sketch" -> "sketch" [] kind = "extrude" -> "extrusion"
      [] kind = "boolean_cut" -> "boolean_cut"

PositiveParameters(action) ==
    \A name \in Dimensions(action.kind) :
        name \in DOMAIN action.parameters /\ action.parameters[name] > 0

PreflightAction(known, action) ==
    /\ action.kind \in FeatureActions => action.feature \notin known
    /\ action.kind \in TargetActions => action.target \in known
    /\ PositiveParameters(action)
    /\ action.kind \in {"add_sketch_geometry", "add_constraint"} => action.items # << >>
    /\ action.kind = "add_sketch_geometry" =>
           IsInjective([i \in DOMAIN action.items |-> action.items[i].id])
    /\ action.kind = "boolean_cut" => action.tool \in known \ {action.target}

KnownAfter(known, action) ==
    CASE action.kind \in FeatureActions -> known \cup {action.feature}
      [] action.kind = "delete_feature" -> known \ {action.target}
      [] OTHER -> known

\* validate finds nothing in the list; a later action may use what an earlier made.
PreflightList(features, actions) ==
    FoldLeft(LAMBDA sofar, action :
                 [ok |-> sofar.ok /\ PreflightAction(sofar.known, action),
                  known |-> IF action.kind = "create_document" THEN sofar.known
                            ELSE KnownAfter(sofar.known, action)],
             [ok |-> TRUE, known |-> DOMAIN features], actions).ok

-----------------------------------------------------------------------------
Feature(type, values, links) ==
    [type |-> type, values |-> values, links |-> links,
     geometry |-> {}, elements |-> 0, constraints |-> 0]

Links(action) ==
    CASE action.kind = "extrude" -> [base |-> action.target]
      [] action.kind = "boolean_cut" -> [base |-> action.target, tool |-> action.tool]
      [] OTHER -> << >>

\* No object of that id, the wrong kind of object, a parameter the object does
\* not have.
Applicable(features, action) ==
    /\ action.kind \in TargetActions => action.target \in DOMAIN features
    /\ action.kind = "add_sketch_geometry" => features[action.target].type = "sketch"
    /\ action.kind = "boolean_cut" => action.tool \in DOMAIN features
    /\ action.kind = "set_parameter" =>
           action.name \in DOMAIN features[action.target].values /\ action.value > 0

Without(features, id) ==
    [f \in DOMAIN features \ {id} |->
        [features[f] EXCEPT !.links = [role \in DOMAIN @ |-> IF @[role] = id THEN Gone ELSE @[role]]]]

\* How many items are added before one that is not sound or does not fit.
Added(items, fitting) ==
    Cardinality({i \in DOMAIN items :
                   \A j \in 1 .. i : items[j].sound /\ items[j] \in fitting})

\* The items are added one by one; the ids are written when all are.
AddGeometry(sketch, items) ==
    LET added == Added(items, {item \in Range(items) : item.id \notin sketch.geometry})
        done  == added = Len(items)
    IN  [done   |-> done,
         sketch |-> [sketch EXCEPT
                       !.elements = @ + added,
                       !.geometry = IF done THEN @ \cup {items[i].id : i \in DOMAIN items} ELSE @]]

AddConstraints(sketch, items) ==
    LET added == Added(items, {item \in Range(items) : item.ids \subseteq sketch.geometry})
    IN  [done |-> added = Len(items), sketch |-> [sketch EXCEPT !.constraints = @ + added]]

\* One action done, or not, and what is left of it then.
ApplyAction(features, action) ==
    LET Done(changed) == [done |-> TRUE, features |-> changed]
        Sketched(with) == [done     |-> with.done,
                           features |-> [features EXCEPT ![action.target] = with.sketch]]
    IN
    IF ~Applicable(features, action) THEN [done |-> FALSE, features |-> features]
    ELSE CASE action.kind \in FeatureActions ->
                LET values == Restrict(action.parameters, Dimensions(action.kind))
                    new    == Feature(TypeMade(action.kind), values, Links(action))
                IN  Done(features @@ (action.feature :> new))
           [] action.kind = "add_sketch_geometry" ->
                Sketched(AddGeometry(features[action.target], action.items))
           [] action.kind = "add_constraint" ->
                Sketched(AddConstraints(features[action.target], action.items))
           [] action.kind = "set_parameter" ->
                Done([features EXCEPT ![action.target].values[action.name] = action.value])
           [] action.kind = "delete_feature" -> Done(Without(features, action.target))

\* The list applied, or stopped within the first action that fails.
ApplyActions(features, actions) ==
    FoldLeft(LAMBDA sofar, action :
                 IF ~sofar.done \/ action.kind = "create_document" THEN sofar
                 ELSE ApplyAction(sofar.features, action),
             [done |-> TRUE, features |-> features], actions)
=============================================================================
