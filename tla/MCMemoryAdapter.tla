-------------------------- MODULE MCMemoryAdapter --------------------------
(***************************************************************************)
(* The memory adapter with the real action semantics on a small instance:  *)
(* action lists that create, edit and delete, one that fails at its second *)
(* action after the first already changed the candidate, and one with an   *)
(* action kind the adapter does not advertise.                             *)
(***************************************************************************)
EXTENDS MemoryAdapter

Edits == INSTANCE FeatureEdits

MCApply(features, actions) == Edits!ApplyActions(features, actions)

MCSupported ==
    {"create_document", "add_box", "add_cylinder", "set_parameter", "delete_feature"}

create == [kind |-> "create_document"]
rod    == [kind |-> "add_cylinder", feature |-> "rod",
           parameters |-> [radius |-> 1, height |-> 1, finish |-> 1]]
grow   == [kind |-> "set_parameter", feature |-> "rod", name |-> "height", value |-> 2]
drop   == [kind |-> "delete_feature", feature |-> "rod"]
hole   == [kind |-> "add_hole", feature |-> "rod"]

MCActionLists ==
    {<<create>>, <<create, rod>>, <<rod>>, <<grow>>, <<drop>>,
     <<drop, grow>>,        \* fails at its second action
     <<hole>>}              \* not supported

Rods == [type : {"cylinder"}, parameters : [{"radius", "height"} -> 1..2]]

MCContents == {Edits!NoFeatures} \cup [{"rod"} -> Rods]
=============================================================================
