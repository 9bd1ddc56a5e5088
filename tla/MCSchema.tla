------------------------------ MODULE MCSchema ------------------------------
(* Instances of Schema: users, orders that refer to them, and a table Users.  *)
(* Each form of users has one thing the tool may lose; orders has a foreign   *)
(* key of every kind, or an index that in the target is named as one of users.*)
EXTENDS Schema

Order == <<"users", "Users", "orders">>

Mapping == [tinyint1_as_bool |-> TRUE, enum_as_domain |-> TRUE, set_as_array |-> TRUE,
            geometry_postgis_mode |-> FALSE, datetime_timezone_policy |-> "utc"]

\* users_mail and users + mail make one name of the target.
Names ==
    [t \in {"users", "Users", "orders"} |->
        [i \in {"PRIMARY", "mail", "body", "expr", "clash"} |->
            IF t = "orders" /\ i = "clash" THEN <<"users", "mail">> ELSE <<t, i>>]]

Folds == [t \in {"users", "Users", "orders"} |-> IF t = "Users" THEN "users" ELSE t]

Col(name, type) == [name |-> name, DataType |-> type, unsigned |-> FALSE, display1 |-> FALSE,
                    auto |-> FALSE, pri |-> FALSE]
Auto(type) == [Col("id", type) EXCEPT !.auto = TRUE]
Private == [Col("scope", "enum") EXCEPT !.pri = TRUE]

Index(name, columns) == [name |-> name, unique |-> TRUE, columns |-> columns, long |-> FALSE,
                         functional |-> FALSE]
Primary == Index("PRIMARY", {"id"})
Mail == Index("mail", {"email"})

Table(columns, indexes, foreign, filled) ==
    [columns |-> columns, indexes |-> indexes, fks |-> foreign, filled |-> filled]
UserTable(columns, indexes) == Table(columns, indexes, {}, TRUE)

UserForms ==
    LET mail == Col("email", "varchar") IN
    {UserTable(<<Auto("int"), mail>>, {Primary, Mail}),
     Table(<<Auto("int"), mail>>, {Primary, Mail}, {}, FALSE),
     UserTable(<<[Auto("bigint") EXCEPT !.unsigned = TRUE], mail>>, {Primary}),
     UserTable(<<Col("id", "int"), mail>>, {Primary, Mail}),
     UserTable(<<Private, Auto("int"), mail>>, {Primary, Mail}),
     UserTable(<<Col("email", "varchar"), Auto("int")>>, {Index("PRIMARY", {"email", "id"})}),
     UserTable(<<Auto("int"), mail>>, {Primary, [Index("body", {"email"}) EXCEPT
                                                    !.unique = FALSE, !.long = TRUE]}),
     UserTable(<<Auto("int"), mail>>, {Primary, [Index("expr", {}) EXCEPT !.functional = TRUE]}),
     UserTable(<<[Auto("tinyint") EXCEPT !.display1 = TRUE], mail>>, {Primary}),
     UserTable(<<Auto("smallint"), mail>>, {Primary, Mail}),
     UserTable(<<Auto("double"), mail>>, {Primary})}

Fk(columns, parent, referenced) ==
    [name |-> "fk", columns |-> columns, parent |-> parent, referenced |-> referenced,
     elsewhere |-> FALSE]
OrderTable(foreign, indexes) ==
    Table(<<Auto("int"), Col("user", "int"), Col("email", "varchar")>>,
          {Primary} \cup indexes, foreign, TRUE)

OrderForms ==
    {OrderTable({}, {Index("clash", {"user"})}),
     OrderTable({Fk(<<"user">>, "users", <<"id">>)}, {}),
     OrderTable({Fk(<<"email">>, "users", <<"email">>)}, {}),
     OrderTable({Fk(<<"email">>, "users", <<"email">>)}, {Index("clash", {"email"})}),
     OrderTable({Fk(<<"email", "user">>, "users", <<"email", "id">>)}, {}),
     OrderTable({[Fk(<<"user">>, "users", <<"id">>) EXCEPT !.elsewhere = TRUE]}, {}),
     OrderTable({Fk(<<"user">>, "orders", <<"id">>)}, {})}

CapitalForms == {Table(<<Auto("int")>>, {Primary}, {}, TRUE), Table(<<Col("code", "varchar")>>, {}, {}, TRUE)}

AllSchemas ==
    {[t \in {"users", "Users", "orders"} |->
        CASE t = "users" -> u [] t = "orders" -> o [] OTHER -> c] :
        u \in UserForms, o \in OrderForms, c \in CapitalForms}
=============================================================================
