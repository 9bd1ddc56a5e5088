------------------------------ MODULE MCLoader ------------------------------
(***************************************************************************)
(* Instances of Loader for TLC: the source contents each run starts from.  *)
(***************************************************************************)
EXTENDS Loader

CONSTANTS pk, ai, log   \* tables: keyed, keyed but with no key in the target, keyless

(* Plan orders. *)
OrderAll == <<pk, log, ai>>
OrderPair == <<pk, log>>
OrderPK  == <<pk>>
(* A small int64. *)
LeastInt == -16

(* The contents the source may start with. *)
SomeRows == [Tables -> {{}, {1, 5}, {1, 2, 5}}]
FullRows == [Tables -> {Keys}]
=============================================================================
