------------------------------ MODULE MCPlanner ------------------------------
(* Instances of Planner: three tables listed children first, and every way   *)
(* to place the foreign keys among them and one table outside the schema.    *)
EXTENDS Planner

CONSTANTS items, orders, users, elsewhere

Schema == <<items, orders, users>>
=============================================================================
