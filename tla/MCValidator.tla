----------------------------- MODULE MCValidator -----------------------------
(***************************************************************************)
(* Instances of Validator: orders refer to users, as buyer and as seller.  *)
(***************************************************************************)
EXTENDS Validator

CONSTANTS orders, users, buyer, seller

ListTwo == <<orders, users>>
(* An order's buyer has its number; its seller is the next user, if any. *)
Children == [f \in Fks |-> orders]
Parents == [f \in Fks |-> users]
Parties ==
    [f \in Fks |-> [k \in Keys |->
        IF f = buyer THEN k ELSE IF k + 1 \in Keys THEN k + 1 ELSE None]]

(* The key of users is planned; that of orders may be a natural key. *)
SomeKeys == {{users}, {orders, users}}
(* Enough users for a gap between the first and the last, and few orders. *)
FewOrders == {[t \in Tables |-> IF t = users THEN Keys ELSE {1}]}

(* At most the first of the users does not look the same, or it cannot be
   compared and the second differs. *)
FewOdd ==
    {[t \in Tables |-> [k \in Keys |-> IF t = users /\ k = 1 THEN look ELSE "identical"]] :
        look \in {"identical", "rendered", "binary", "mixed", "altered"}}
    \cup {[t \in Tables |-> [k \in Keys |->
            IF t = users /\ k \in {1, 2} THEN IF k = 1 THEN look ELSE "different"
            ELSE "identical"]] : look \in {"null", "opaque"}}
=============================================================================
