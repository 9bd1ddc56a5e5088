-------------------------------- MODULE Mapper --------------------------------
(***************************************************************************)
(* mapper/mapper.go: the PostgreSQL type and CHECK of a MySQL column.      *)
(*                                                                         *)
(* Of COLUMN_TYPE a column keeps whether it says unsigned, whether it says *)
(* "(1)", and the members it lists; lengths and precisions are carried     *)
(* over as they are and left out.                                          *)
(***************************************************************************)
Integers64 == {"tinyint", "smallint", "mediumint", "int", "bigint"}
TextTypes == {"text", "tinytext", "mediumtext", "longtext"}
BinaryTypes == {"blob", "tinyblob", "mediumblob", "longblob", "binary", "varbinary"}
SpatialTypes == {"geometry", "point", "linestring", "polygon"}

Typed(type) == [type |-> type, check |-> "none"]

\* Mutant of Signed: unsigned columns keep the width of signed ones.
SignedNarrow(column, type, wider) ==
    IF column.unsigned THEN [type |-> type, check |-> "nonnegative"] ELSE Typed(type)

Signed(column, type, wider) ==
    IF column.unsigned THEN [type |-> wider, check |-> "nonnegative"] ELSE Typed(type)

MapType(column, config) ==
    CASE column.DataType = "tinyint" ->
            IF config.tinyint1_as_bool /\ column.display1 THEN Typed("boolean")
            ELSE Signed(column, "smallint", "smallint")
      [] column.DataType \in {"smallint", "mediumint"} -> Signed(column, "smallint", "integer")
      [] column.DataType = "int" -> Signed(column, "integer", "bigint")
      [] column.DataType = "bigint" -> Signed(column, "bigint", "numeric(20,0)")
      [] column.DataType = "float" -> Typed("real")
      [] column.DataType = "double" -> Typed("double precision")
      [] column.DataType = "decimal" -> Typed("numeric")
      [] column.DataType = "char" -> Typed("char")
      [] column.DataType = "varchar" -> Typed("varchar")
      [] column.DataType \in TextTypes -> Typed("text")
      [] column.DataType \in BinaryTypes -> Typed("bytea")
      [] column.DataType = "json" -> Typed("jsonb")
      [] column.DataType = "date" -> Typed("date")
      [] column.DataType \in {"datetime", "timestamp"} ->
            IF config.datetime_timezone_policy \in {"utc", "local"}
            THEN Typed("timestamp with time zone") ELSE Typed("timestamp without time zone")
      [] column.DataType = "time" -> Typed("time without time zone")
      [] column.DataType = "year" -> [type |-> "smallint", check |-> "year"]
      [] column.DataType \in SpatialTypes ->
            IF config.geometry_postgis_mode THEN Typed("geometry") ELSE Typed("bytea")
      [] column.DataType = "enum" ->
            IF config.enum_as_domain THEN [type |-> "text", check |-> "members"]
            ELSE Typed("text")
      [] column.DataType = "set" ->
            IF config.set_as_array THEN Typed("text[]") ELSE Typed("text")
      [] OTHER -> Typed("text")
=============================================================================
