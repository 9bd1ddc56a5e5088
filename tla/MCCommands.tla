----------------------------- MODULE MCCommands -----------------------------
(***************************************************************************)
(* Four configurations: staging and production, which share the default    *)
(* state file, one that fills staging from another source, and one whose   *)
(* target is not local.                                                    *)
(***************************************************************************)
EXTENDS Commands

CONSTANTS staging, production, mirrored, remote, orders, users, mysql, mirror

Orders == <<users, orders>>

Row(k, x) == [key |-> k, text |-> x]

(* mirror differs from mysql in the rows past the sample only. *)
Rows ==
    [s \in {mysql, mirror} |-> [t \in {users, orders} |->
        IF t = orders THEN {Row(1, "plain")}
        ELSE {Row(1, "dirty"), Row(2, "plain"), Row(3, IF s = mysql THEN "old" ELSE "new")}]]
DirtyRows == {Row(1, "dirty")}

(* The remote database has both tables already, and the rows of one. *)
Present ==
    [d \in Targets |->
        IF d = "remote_test"
        THEN [created |-> {orders, users},
              rows |-> [t \in {orders, users} |-> IF t = orders THEN {Row(1, "plain")} ELSE {}]]
        ELSE [created |-> {}, rows |-> [t \in {orders, users} |-> {}]]]

Config(s, d, f, o, x) ==
    [source |-> s, target |-> d, stateFile |-> f, out |-> o, excludes |-> x, allow |-> FALSE]

Jobs ==
    [c \in Configs |->
        CASE c = staging -> Config(mysql, "qantara_test", "state", "staging", {})
          [] c = production -> Config(mysql, "qantara_prod", "state", "prod", {orders})
          [] c = mirrored -> Config(mirror, "qantara_test", "mirror_state", "staging", {})
          [] c = remote ->
                [Config(mysql, "remote_test", "state", "prod", {}) EXCEPT !.allow = TRUE]]

TargetNames ==
    [d \in {"qantara_test", "qantara_prod", "remote_test"} |->
        CASE d = "qantara_test" -> {"test", "qantara", "qa"}
          [] d = "qantara_prod" -> {"qantara", "qa", "prod"}
          [] d = "remote_test" -> {"test"}]
=============================================================================
