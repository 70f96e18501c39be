-------------------------- MODULE MCFreeCADAdapter --------------------------
(***************************************************************************)
(* A part that is a sketch with a line and an extrusion of it: lists that  *)
(* create it, extrude it and make it longer, and one that fails after its  *)
(* first action, which the preflight, that sees only ids, lets pass.  A    *)
(* second document is only the user's and the macros'.                     *)
(***************************************************************************)
EXTENDS Macros, TLC

CONSTANT Gone

Features == INSTANCE FreeCADFeatures

draw   == [kind |-> "create_sketch", feature |-> "sketch", parameters |-> << >>]
line   == [kind |-> "add_sketch_geometry", target |-> "sketch",
           items |-> <<[id |-> "line", sound |-> TRUE]>>]
pull   == [kind |-> "extrude", feature |-> "body", target |-> "sketch",
           parameters |-> [length |-> 1]]
longer == [kind |-> "set_parameter", target |-> "body", name |-> "length", value |-> 2]
create == [kind |-> "create_document"]

MCActionLists == {<<create, draw, line>>, <<pull>>, <<longer>>, <<longer, line>>}

NoFeatures == [id \in {} |-> Gone]
Drawn      == Features!ApplyActions(NoFeatures, <<draw, line>>).features
Pulled     == Features!ApplyActions(Drawn, <<pull>>).features
Longer     == Features!ApplyActions(Pulled, <<longer>>).features

MCContents == {NoFeatures, Drawn, Pulled, Longer}

MCMade     == {Drawn}

\* Nothing reads what the last macro was but the properties of its own step.
HostView == vars

MCCreates(actions) == actions[1] = create
MCPreflight(features, actions) == Features!PreflightList(features, actions)
MCApply(features, actions) == Features!ApplyActions(features, actions)
=============================================================================
