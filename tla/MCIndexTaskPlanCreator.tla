----------------------- MODULE MCIndexTaskPlanCreator -----------------------
EXTENDS IndexTaskPlanCreator

(* Two tablets' GetAllIndexTaskConfigs().  The first: two configured tasks *)
(* of registered types and no merge config, so the default merge is        *)
(* appended.  The second: a registered config followed by one of a type no *)
(* creator is registered for.                                              *)
MCTabletOptions ==
  { << [type |-> "split", name |-> "s1"],
       [type |-> "reclaim", name |-> "r1"] >>,
    << [type |-> "split", name |-> "s1"],
       [type |-> "custom", name |-> "c1"] >> }

MCRegistered == {"merge", "split", "reclaim", "alter_table"}

(* Designated tasks: one of a type no creator is registered for, and a    *)
(* registered one.                                                         *)
MCDesignates == { [type |-> "custom", name |-> "c1"], [type |-> "merge", name |-> "full"] }
=============================================================================
