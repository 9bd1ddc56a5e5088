------------------------------ MODULE MCMigrate ------------------------------
(***************************************************************************)
(* Instances of Migrate: a parent table, a child table that refers to it   *)
(* with a nullable foreign key, and a table without a planned key.         *)
(***************************************************************************)
EXTENDS Migrate

CONSTANTS users, orders, log

OrderThree == <<users, log, orders>>
OrderTwo == <<users, orders>>

LeastInt == -16
SignedKeys == {-1, 1, 2}

AnyRows == [Tables -> SUBSET Keys]
FullRows == [Tables -> {Keys}]

(* One foreign key, orders to users: row k refers to row k, the last to none. *)
ToOrders == [f \in Fks |-> orders]
ToUsers == [f \in Fks |-> users]
SameKey == [f \in Fks |-> [k \in Keys |-> IF \A j \in Keys : j <= k THEN None ELSE k]]

NoneDirty == [t \in Tables |-> {}]
=============================================================================
