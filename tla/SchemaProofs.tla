--------------------------- MODULE SchemaProofs ---------------------------
(***************************************************************************)
(* Theorems about Schema for any schemas, order and names.  The phases are *)
(* loops over the same tables: the invariant says what each has put in the *)
(* catalogs for the tables it has been through, and the properties combine *)
(* what two of them left.                                                  *)
(***************************************************************************)
EXTENDS Schema, TLAPS

\* The phase at hand, or the one that failed.
phase == IF pc = "failed" THEN failed ELSE pc

Later == [create |-> {"copy", "index", "fk", "sequence", "done"},
          copy |-> {"index", "fk", "sequence", "done"},
          index |-> {"fk", "sequence", "done"},
          fk |-> {"sequence", "done"},
          sequence |-> {"done"}]

\* The planned tables that the loop of phase p has been through.
Been(p) == {t \in Planned :
               \/ phase \in Later[p]
               \/ phase = p /\ \E i \in 1 .. at - 1 : TableOrder[i] = t}

PhaseInv ==
    /\ pc \in {"inspect", "plan"} => at = 1 /\ unique = {} /\ taken = {} /\ fks = {}
    /\ failed = "inspect" => unique = {} /\ taken = {} /\ fks = {}

\* A table that was made has the planned key, and an identity if it is an integer.
CreateInv ==
    \A t \in Been("create") \ existing :
        /\ \A c \in KeyColumns(t) : <<t, {c.name}>> \in unique
        /\ Identities(t) \subseteq identity

IndexInv ==
    /\ taken \subseteq UNION {IndexNames(t) : t \in Been("index")}
    /\ \A t \in Been("index") : \A i \in Indexes(t) :
          i.unique => <<t, i.columns>> \in unique \/ NameIsShared(t, i)

ForeignInv ==
    /\ fks \subseteq UNION {ForeignKeys(t) : t \in Planned}
    /\ \A u \in unique : u[1] \in Planned
    /\ \A t \in Been("fk") :
          /\ ForeignKeys(t) \subseteq fks
          /\ \A f \in ForeignKeys(t) : f.parent \in Planned
          /\ \A f, g \in ForeignKeys(t) : f.name = g.name => f = g

SequenceInv ==
    /\ reset \subseteq identity /\ identity \subseteq Planned \ existing
    /\ unsupported \subseteq Planned
    /\ pc = "done" => ~resetFailed
    /\ ~resetFailed => \A t \in Been("sequence") \cap identity :
          \/ t \in reset \cup unsupported
          \/ \E u \in Planned : Folded[u] # u /\ t \in {u, Folded[u]}

SType ==
    /\ schema \in Schemas /\ excludes \in SUBSET Tables /\ existing \in SUBSET Tables
    /\ DOMAIN key = Tables
    /\ pc \in {"inspect", "plan", "create", "copy", "index", "fk", "sequence", "done", "failed"}
    /\ failed \in {"none", "inspect", "copy", "index", "fk", "sequence"}
    /\ pc = "failed" <=> failed # "none"
    /\ at \in 1 .. Len(TableOrder) + 1

SchemaInv ==
    SType /\ PhaseInv /\ CreateInv /\ IndexInv /\ ForeignInv /\ SequenceInv /\ RefusedForeignKeys

-----------------------------------------------------------------------------
(* The catalogs' properties follow from what the loops have left.          *)

LEMMA AllBeen ==
    ASSUME pc = "done", NEW p \in {"create", "index", "fk", "sequence"}
    PROVE  Been(p) = Planned
  BY DEF Been, Later, phase

LEMMA SurvivesUnique ==
    ASSUME SchemaInv
    PROVE  UniquenessSurvives
  <1> SUFFICES ASSUME pc = "done", NEW t \in Planned, NEW i \in schema[t].indexes,
                      i.unique, <<t, i.columns>> \notin unique,
                      ~NameIsShared(t, i)
               PROVE  i.name = "PRIMARY" /\ (i.columns # {key[t]} \/ t \in existing)
    BY DEF UniquenessSurvives
  <1>1. t \in Tables /\ schema \in Schemas
    BY DEF SchemaInv, SType, Planned
  <1>2. i.name = "PRIMARY"
    BY AllBeen DEF SchemaInv, IndexInv, Indexes
  <1>3. SUFFICES ASSUME i.columns = {key[t]}, t \notin existing
                 PROVE  FALSE
    BY <1>2
  <1>4. key[t] \in ColumnNames(schema, t)
    BY <1>1, <1>3, SchemasAssumption
  <1>5. PICK c \in KeyColumns(t) : c.name = key[t]
    BY <1>4 DEF ColumnNames, KeyColumns, Columns
  <1> QED
    BY <1>3, <1>5, AllBeen DEF SchemaInv, CreateInv

LEMMA SurviveForeignKeys ==
    ASSUME SchemaInv
    PROVE  ForeignKeysSurvive
  <1> SUFFICES ASSUME pc = "done", NEW t \in Planned, NEW f \in schema[t].fks
               PROVE  /\ f.parent \in Planned
                      /\ {<<g.column, g.referenced>> : g \in {h \in fks : h.child = t /\ h.name = f.name}}
                            = {<<f.columns[i], f.referenced[i]>> : i \in 1 .. Len(f.columns)}
    BY DEF ForeignKeysSurvive
  <1> DEFINE Row(i) == [child |-> t, name |-> f.name, column |-> f.columns[i],
                        parent |-> f.parent, referenced |-> f.referenced[i]]
  <1>1. t \in Tables /\ schema \in Schemas /\ t \in Been("fk")
    BY AllBeen DEF SchemaInv, SType, Planned
  <1>2. Len(f.columns) \in Nat \ {0}
    BY <1>1, SchemasAssumption
  <1>3. \A i \in 1 .. Len(f.columns) : Row(i) \in ForeignKeys(t)
    BY DEF ForeignKeys
  <1>4. 1 \in 1 .. Len(f.columns)
    BY <1>2
  <1>5. f.parent \in Planned
    BY <1>1, <1>3, <1>4 DEF SchemaInv, ForeignInv
  <1>6. ASSUME NEW g \in fks, g.child = t, g.name = f.name
        PROVE  g = Row(1)
    <2>1. PICK u \in Planned : g \in ForeignKeys(u)
      BY DEF SchemaInv, ForeignInv
    <2>2. g \in ForeignKeys(t)
      BY <1>6, <2>1 DEF ForeignKeys
    <2> QED
      BY <1>1, <1>3, <1>4, <1>6, <2>2 DEF SchemaInv, ForeignInv
  <1>7. \A i \in 1 .. Len(f.columns) : Row(i) \in fks
    BY <1>1, <1>3 DEF SchemaInv, ForeignInv
  <1> HIDE DEF Row
  <1>8. \A i \in 1 .. Len(f.columns) :
            /\ Row(i).child = t /\ Row(i).name = f.name
            /\ Row(i).column = f.columns[i] /\ Row(i).referenced = f.referenced[i]
    BY DEF Row
  <1> QED
    BY <1>4, <1>5, <1>6, <1>7, <1>8

LEMMA SequencesSurvive ==
    ASSUME SchemaInv
    PROVE  SequencesFollow
  <1> SUFFICES ASSUME pc = "done", NEW t \in Planned, NEW c \in Columns(t), t \notin reset,
                      t \notin existing \cup unsupported, key[t] = c.name,
                      MapType(c, Config).type \in {"smallint", "integer", "bigint"}
               PROVE  \E u \in Planned : Folded[u] # u /\ t \in {u, Folded[u]}
    BY DEF SequencesFollow
  <1>1. t \in Identities(t)
    BY DEF Identities, KeyTypes, KeyColumns
  <1> QED
    BY <1>1, AllBeen DEF SchemaInv, CreateInv, SequenceInv

-----------------------------------------------------------------------------
(* How the loops go on.                                                    *)

LEMMA CurIsTable ==
    ASSUME SType, at <= Len(TableOrder)
    PROVE  cur \in Tables
  BY OrderAssumption DEF SType, Tables, cur

\* A turn adds the table at hand to what its phase has been through.
LEMMA TurnBeen ==
    ASSUME SType, NEW p \in DOMAIN After, Turn(p), NEW q \in DOMAIN Later
    PROVE  Been(q)' = Been(q) \cup (IF q = p THEN {cur} ELSE {})
  <1>1. pc = p /\ pc' = p /\ phase = p /\ phase' = p /\ Planned' = Planned /\ cur \in Planned
    BY DEF Turn, After, phase, Planned, input
  <1>2. p \notin Later[p]
    BY DEF Later, After
  <1>3. at \in Nat /\ at' = at + 1 /\ at >= 1
    BY OrderAssumption DEF Turn, SType
  <1>4. 1 .. at' - 1 = (1 .. at - 1) \cup {at}
    BY <1>3
  <1>5. \A t : (\E i \in 1 .. at' - 1 : TableOrder[i] = t)
                 <=> (t = cur \/ \E i \in 1 .. at - 1 : TableOrder[i] = t)
    BY <1>4 DEF cur
  <1> QED
    BY <1>1, <1>2, <1>5 DEF Been, Later

\* The table at hand is none of those before it.
LEMMA CurIsNew ==
    ASSUME SType, NEW p \in DOMAIN After, Turn(p), p \in DOMAIN Later
    PROVE  cur \notin Been(p)
  <1>1. p \notin Later[p] /\ phase = p
    BY DEF Later, After, Turn, phase
  <1>2. at \in 1 .. Len(TableOrder) /\ Len(TableOrder) \in Nat
    BY OrderAssumption DEF Turn, SType
  <1>3. \A i \in 1 .. at - 1 : i \in 1 .. Len(TableOrder) /\ i # at
    BY <1>2
  <1>4. \A i \in 1 .. at - 1 : TableOrder[i] # cur
    BY <1>2, <1>3, OrderAssumption DEF cur
  <1> QED
    BY <1>1, <1>4 DEF Been

LEMMA SkipBeen ==
    ASSUME SType, Skip, NEW q \in DOMAIN Later
    PROVE  Been(q)' = Been(q)
  <1>1. pc' = pc /\ phase' = phase /\ Planned' = Planned /\ cur \notin Planned
    BY DEF Skip, phase, Planned, input
  <1>2. at \in Nat /\ at' = at + 1 /\ at >= 1
    BY OrderAssumption DEF Skip, SType
  <1>3. 1 .. at' - 1 = (1 .. at - 1) \cup {at}
    BY <1>2
  <1>4. \A t \in Planned : (\E i \in 1 .. at' - 1 : TableOrder[i] = t)
                 <=> (\E i \in 1 .. at - 1 : TableOrder[i] = t)
    BY <1>1, <1>3 DEF cur
  <1> QED
    BY <1>1, <1>4 DEF Been

\* A phase that is over has been through every planned table, the next through none.
LEMMA NextPhaseBeen ==
    ASSUME SType, NextPhase, NEW q \in DOMAIN Later
    PROVE  Been(q)' = Been(q)
  <1>1. /\ pc \in DOMAIN After /\ pc' = After[pc] /\ phase = pc /\ phase' = pc'
        /\ Planned' = Planned
    BY DEF NextPhase, After, phase, Planned, input
  <1>2. at \in Nat /\ Len(TableOrder) \in Nat /\ at > Len(TableOrder) /\ at' = 1
    BY OrderAssumption DEF NextPhase, SType
  <1>3. \A t \in Planned : \E i \in 1 .. at - 1 : TableOrder[i] = t
    BY <1>2 DEF Planned, Tables
  <1>4. 1 .. at' - 1 = {}
    BY <1>2
  <1>5. phase' \in Later[q] <=> (phase \in Later[q] \/ phase = q)
    BY <1>1 DEF After, Later
  <1> QED
    BY <1>1, <1>3, <1>4, <1>5 DEF Been

\* Before the loops, and where one fails, nothing changes.
LEMMA OtherBeen ==
    ASSUME SType, PhaseInv, Inspect \/ InspectFails \/ CreatePlan \/ (Fail /\ pc # "failed") \/ UNCHANGED vars,
           NEW q \in DOMAIN Later
    PROVE  Been(q)' = Been(q)
  <1>1. Planned' = Planned /\ at' = at
    BY DEF Inspect, InspectFails, CreatePlan, Fail, vars, input, Planned
  <1>2. CASE Inspect
    BY <1>1, <1>2 DEF Inspect, Been, phase, Later
  <1>3. CASE CreatePlan
    <2>1. at = 1
      BY <1>3 DEF CreatePlan, PhaseInv
    <2>2. 1 .. at - 1 = {}
      BY <2>1
    <2> QED
      BY <1>1, <1>3, <2>2 DEF CreatePlan, Been, phase, Later
  <1>4. CASE InspectFails \/ (Fail /\ pc # "failed")
    <2>1. phase' = phase
      BY <1>4 DEF InspectFails, Fail, phase
    <2> QED
      BY <1>1, <2>1 DEF Been
  <1>5. CASE UNCHANGED vars
    BY <1>1, <1>5 DEF vars, Been, phase
  <1> QED
    BY <1>2, <1>3, <1>4, <1>5

-----------------------------------------------------------------------------
(* Each action keeps the invariant.                                        *)

\* What only depends on the source, the names and the key.
LEMMA SameSource ==
    ASSUME schema' = schema, excludes' = excludes
    PROVE  /\ Planned' = Planned
           /\ \A t : /\ Indexes(t)' = Indexes(t) /\ IndexNames(t)' = IndexNames(t)
                    /\ ForeignKeys(t)' = ForeignKeys(t) /\ Columns(t)' = Columns(t)
           /\ \A t, i : NameIsShared(t, i)' = NameIsShared(t, i)
           /\ key' = key => \A t : KeyColumns(t)' = KeyColumns(t) /\ Identities(t)' = Identities(t)
  <1>1. /\ Planned' = Planned
        /\ \A t : Indexes(t)' = Indexes(t) /\ ForeignKeys(t)' = ForeignKeys(t) /\ Columns(t)' = Columns(t)
    BY DEF Planned, Indexes, ForeignKeys, Columns
  <1>2. \A t : IndexNames(t)' = IndexNames(t)
    BY <1>1 DEF IndexNames
  <1>3. \A t, i : NameIsShared(t, i)' = NameIsShared(t, i)
    BY <1>1 DEF NameIsShared
  <1>4. ASSUME key' = key, NEW t
        PROVE  KeyColumns(t)' = KeyColumns(t) /\ Identities(t)' = Identities(t)
    <2>1. \A u : KeyColumns(u)' = KeyColumns(u)
      BY <1>1, <1>4 DEF KeyColumns
    <2>2. \A u : KeyTypes(u)' = KeyTypes(u)
      BY <2>1 DEF KeyTypes
    <2> QED
      BY <2>1, <2>2 DEF Identities
  <1> QED
    BY <1>1, <1>2, <1>3, <1>4

\* The refusals are of a state that has come to its end.
LEMMA RefusalsStay ==
    ASSUME RefusedForeignKeys, UNCHANGED <<input, key>>, failed' = "fk" => failed = "fk"
    PROVE  RefusedForeignKeys'
  <1>1. /\ Planned' = Planned
        /\ \A t : Indexes(t)' = Indexes(t)
        /\ \A t, i : NameIsShared(t, i)' = NameIsShared(t, i)
    BY SameSource DEF input
  <1>2. \A t, n : IsBoolean(t, n)' = IsBoolean(t, n)
    BY DEF IsBoolean, Columns, input
  <1> QED
    BY <1>1, <1>2 DEF RefusedForeignKeys, input

\* Outside the sequence loop its report and what it has set stay as they are.
LEMMA SequenceStays ==
    ASSUME SequenceInv, Planned' = Planned, existing' = existing, UNCHANGED <<reset, report>>,
           pc' = "done" => ~resetFailed, Been("sequence")' = Been("sequence"),
           identity \subseteq identity', identity' \subseteq Planned \ existing,
           Been("sequence") \cap identity' \subseteq identity
    PROVE  SequenceInv'
  <1>1. reset' = reset /\ unsupported' = unsupported /\ resetFailed' = resetFailed
    BY DEF report
  <1>2. ~resetFailed' => ~resetFailed
    BY <1>1, Zenon
  <1>3. pc' = "done" => ~resetFailed'
    BY <1>1, Zenon
  <1>4. ASSUME ~resetFailed', NEW t \in Been("sequence") \cap identity'
        PROVE  t \in reset \cup unsupported \/ \E u \in Planned : Folded[u] # u /\ t \in {u, Folded[u]}
    BY <1>2, <1>4 DEF SequenceInv
  <1> QED
    BY <1>1, <1>3, <1>4 DEF SequenceInv

\* Where neither the catalogs nor the loops get any further, all stays as it is.
LEMMA NothingNew ==
    ASSUME SchemaInv, UNCHANGED <<input, key, catalog, report>>, pc' = "done" => ~resetFailed,
           \A q \in {"create", "index", "fk", "sequence"} : Been(q)' = Been(q)
    PROVE  CreateInv' /\ IndexInv' /\ ForeignInv' /\ SequenceInv'
  <1>1. /\ schema' = schema /\ excludes' = excludes /\ existing' = existing /\ key' = key
        /\ taken' = taken /\ unique' = unique /\ fks' = fks /\ identity' = identity /\ reset' = reset
    BY DEF input, catalog
  <1>2. CreateInv'
    BY <1>1, SameSource DEF SchemaInv, CreateInv
  <1>3. IndexInv'
    BY <1>1, SameSource DEF SchemaInv, IndexInv
  <1>4. ForeignInv'
    BY <1>1, SameSource DEF SchemaInv, ForeignInv
  <1>5. SequenceInv'
    BY <1>1, SameSource, SequenceStays DEF SchemaInv, SequenceInv
  <1> QED
    BY <1>2, <1>3, <1>4, <1>5

LEMMA CreateKeeps ==
    ASSUME SchemaInv, CreateTable
    PROVE  SchemaInv'
  <1>1. /\ SType /\ Turn("create") /\ "create" \in DOMAIN After
        /\ {"create", "index", "fk", "sequence"} \subseteq DOMAIN Later
    BY DEF SchemaInv, CreateTable, After, Later
  <1>2. /\ schema' = schema /\ excludes' = excludes /\ existing' = existing /\ key' = key
        /\ taken' = taken /\ fks' = fks /\ reset' = reset /\ UNCHANGED report /\ failed' = failed /\ pc' = pc
        /\ pc = "create" /\ at' = at + 1 /\ cur \in Planned
    BY DEF CreateTable, Turn, input
  <1>3. /\ Been("create")' = Been("create") \cup {cur}
        /\ Been("index")' = Been("index") /\ Been("fk")' = Been("fk")
        /\ Been("sequence")' = Been("sequence")
    BY <1>1, TurnBeen DEF Later
  <1>4. Been("sequence") = {}
    BY <1>2 DEF Been, Later, phase
  <1>5. unique \subseteq unique' /\ identity \subseteq identity'
    BY DEF CreateTable
  <1>6. SType'
    BY <1>1, <1>2, OrderAssumption DEF SType, Turn
  <1>7. PhaseInv'
    BY <1>1, <1>2 DEF PhaseInv, SType
  <1>8. CreateInv'
    <2>1. cur \notin existing =>
              /\ \A c \in KeyColumns(cur) : <<cur, {c.name}>> \in unique'
              /\ Identities(cur) \subseteq identity'
      BY DEF CreateTable
    <2> QED
      BY <1>2, <1>3, <1>5, <2>1, SameSource DEF SchemaInv, CreateInv
  <1>9. IndexInv'
    BY <1>2, <1>3, <1>5, SameSource DEF SchemaInv, IndexInv
  <1>10. ForeignInv'
    <2>1. \A u \in unique' : u[1] \in Planned
      BY <1>2 DEF CreateTable, SchemaInv, ForeignInv
    <2> QED
      BY <1>2, <1>3, <2>1, SameSource DEF SchemaInv, ForeignInv
  <1>11. SequenceInv'
    <2>1. identity' \subseteq Planned \ existing
      BY <1>2 DEF CreateTable, SchemaInv, SequenceInv, Identities
    <2> QED
      BY <1>2, <1>3, <1>4, <1>5, <2>1, SameSource, SequenceStays DEF SchemaInv
  <1>12. RefusedForeignKeys'
    BY <1>2, RefusalsStay DEF SchemaInv, input
  <1> QED
    BY <1>6, <1>7, <1>8, <1>9, <1>10, <1>11, <1>12 DEF SchemaInv

LEMMA IndexKeeps ==
    ASSUME SchemaInv, CreateIndexes
    PROVE  SchemaInv'
  <1>1. /\ SType /\ Turn("index") /\ "index" \in DOMAIN After
        /\ {"create", "index", "fk", "sequence"} \subseteq DOMAIN Later
    BY DEF SchemaInv, CreateIndexes, After, Later
  <1>2. /\ schema' = schema /\ excludes' = excludes /\ existing' = existing /\ key' = key
        /\ taken' = taken \cup IndexNames(cur) /\ fks' = fks /\ identity' = identity
        /\ reset' = reset /\ UNCHANGED report /\ failed' = failed /\ pc' = pc
        /\ pc = "index" /\ at' = at + 1 /\ cur \in Planned
    BY DEF CreateIndexes, Turn, input
  <1>3. /\ Been("create")' = Been("create") /\ Been("index")' = Been("index") \cup {cur}
        /\ Been("fk")' = Been("fk") /\ Been("sequence")' = Been("sequence")
    BY <1>1, TurnBeen DEF Later
  <1>4. PICK made \in SUBSET Indexes(cur) :
            /\ {IndexName[cur][i.name] : i \in made} = IndexNames(cur) \ taken
            /\ unique' = unique \cup {<<cur, i.columns>> : i \in {j \in made : j.unique}}
    BY DEF CreateIndexes
  <1>5. SType'
    BY <1>1, <1>2, OrderAssumption DEF SType, Turn
  <1>6. PhaseInv'
    BY <1>1, <1>2 DEF PhaseInv, SType
  <1>7. CreateInv'
    BY <1>2, <1>3, <1>4, SameSource DEF SchemaInv, CreateInv
  <1>8. IndexInv'
    <2>1. ASSUME NEW i \in Indexes(cur), i.unique
          PROVE  <<cur, i.columns>> \in unique' \/ NameIsShared(cur, i)
      <3>1. CASE IndexName[cur][i.name] \in taken
        <4>1. PICK u \in Been("index") : IndexName[cur][i.name] \in IndexNames(u)
          BY <3>1 DEF SchemaInv, IndexInv
        <4>2. u \in Planned /\ u # cur
          BY <1>1, <4>1, CurIsNew DEF Been
        <4>3. PICK j \in Indexes(u) : IndexName[cur][i.name] = IndexName[u][j.name]
          BY <4>1 DEF IndexNames
        <4> QED
          BY <4>2, <4>3 DEF NameIsShared
      <3>2. CASE IndexName[cur][i.name] \notin taken
        <4>1. IndexName[cur][i.name] \in IndexNames(cur) \ taken
          BY <2>1, <3>2 DEF IndexNames
        <4>2. PICK j \in made : IndexName[cur][j.name] = IndexName[cur][i.name]
          BY <1>4, <4>1
        <4>3. CASE j = i
          BY <1>4, <2>1, <4>3
        <4>4. CASE j # i
          BY <1>2, <4>2, <4>4 DEF NameIsShared
        <4> QED
          BY <4>3, <4>4
      <3> QED
        BY <3>1, <3>2
    <2>2. taken' \subseteq UNION {IndexNames(t) : t \in Been("index")'}
      BY <1>2, <1>3 DEF SchemaInv, IndexInv
    <2>3. \A t \in Been("index")' : \A i \in Indexes(t) :
             i.unique => <<t, i.columns>> \in unique' \/ NameIsShared(t, i)
      BY <1>3, <1>4, <2>1 DEF SchemaInv, IndexInv
    <2> QED
      BY <1>2, <2>2, <2>3, SameSource DEF IndexInv
  <1>9. ForeignInv'
    <2>1. \A u \in unique' : u[1] \in Planned
      BY <1>2, <1>4 DEF SchemaInv, ForeignInv
    <2> QED
      BY <1>2, <1>3, <2>1, SameSource DEF SchemaInv, ForeignInv
  <1>10. SequenceInv'
    BY <1>2, <1>3, SameSource, SequenceStays DEF SchemaInv, SequenceInv
  <1>11. RefusedForeignKeys'
    BY <1>2, RefusalsStay DEF SchemaInv, input
  <1> QED
    BY <1>5, <1>6, <1>7, <1>8, <1>9, <1>10, <1>11 DEF SchemaInv

LEMMA ForeignKeeps ==
    ASSUME SchemaInv, AddForeignKeys
    PROVE  SchemaInv'
  <1>1. /\ SType /\ Turn("fk") /\ "fk" \in DOMAIN After
        /\ {"create", "index", "fk", "sequence"} \subseteq DOMAIN Later
    BY DEF SchemaInv, AddForeignKeys, After, Later
  <1>2. /\ schema' = schema /\ excludes' = excludes /\ existing' = existing /\ key' = key
        /\ taken' = taken /\ unique' = unique /\ identity' = identity /\ reset' = reset
        /\ UNCHANGED report /\ fks' = fks \cup ForeignKeys(cur) /\ failed' = failed /\ pc' = pc
        /\ pc = "fk" /\ at' = at + 1 /\ cur \in Planned /\ ~AddFails(cur)
    BY DEF AddForeignKeys, Turn, input
  <1>3. /\ Been("create")' = Been("create") /\ Been("index")' = Been("index")
        /\ Been("fk")' = Been("fk") \cup {cur} /\ Been("sequence")' = Been("sequence")
    BY <1>1, TurnBeen DEF Later
  <1>4. SType'
    BY <1>1, <1>2, OrderAssumption DEF SType, Turn
  <1>5. PhaseInv'
    BY <1>1, <1>2 DEF PhaseInv, SType
  <1>6. CreateInv'
    BY <1>2, <1>3, SameSource DEF SchemaInv, CreateInv
  <1>7. IndexInv'
    BY <1>2, <1>3, SameSource DEF SchemaInv, IndexInv
  <1>8. ForeignInv'
    <2>1. \A f \in ForeignKeys(cur) : f.parent \in Planned
      <3> SUFFICES ASSUME NEW f \in ForeignKeys(cur)
                   PROVE  f.parent \in Planned
        OBVIOUS
      <3>1. <<f.parent, {f.referenced}>> \in unique
        BY <1>2 DEF AddFails
      <3> QED
        BY <3>1 DEF SchemaInv, ForeignInv
    <2>2. \A f, g \in ForeignKeys(cur) : f.name = g.name => f = g
      BY <1>2 DEF AddFails
    <2> QED
      BY <1>2, <1>3, <2>1, <2>2, SameSource DEF SchemaInv, ForeignInv
  <1>9. SequenceInv'
    BY <1>2, <1>3, SameSource, SequenceStays DEF SchemaInv, SequenceInv
  <1>10. RefusedForeignKeys'
    BY <1>2, RefusalsStay DEF SchemaInv, input
  <1> QED
    BY <1>4, <1>5, <1>6, <1>7, <1>8, <1>9, <1>10 DEF SchemaInv

LEMMA SequenceKeeps ==
    ASSUME SchemaInv, ResetSequence
    PROVE  SchemaInv'
  <1>1. /\ SType /\ Turn("sequence") /\ "sequence" \in DOMAIN After
        /\ {"create", "index", "fk", "sequence"} \subseteq DOMAIN Later
    BY DEF SchemaInv, ResetSequence, After, Later
  <1>2. /\ schema' = schema /\ excludes' = excludes /\ existing' = existing /\ key' = key
        /\ taken' = taken /\ unique' = unique /\ identity' = identity /\ fks' = fks
        /\ reset' = (reset \ SequenceOf(cur)) \cup (SequenceOf(cur) \cap {cur})
        /\ failed' = failed /\ pc' = pc
        /\ pc = "sequence" /\ at' = at + 1 /\ cur \in Planned
    BY DEF ResetSequence, Turn, input
  <1>3. /\ Been("create")' = Been("create") /\ Been("index")' = Been("index")
        /\ Been("fk")' = Been("fk") /\ Been("sequence")' = Been("sequence") \cup {cur}
    BY <1>1, TurnBeen DEF Later
  <1>4. SType'
    BY <1>1, <1>2, OrderAssumption DEF SType, Turn
  <1>5. PhaseInv'
    BY <1>1, <1>2 DEF PhaseInv, SType
  <1>6. CreateInv' /\ IndexInv' /\ ForeignInv'
    <2>1. CreateInv'
      BY <1>2, <1>3, SameSource DEF SchemaInv, CreateInv
    <2>2. IndexInv'
      BY <1>2, <1>3, SameSource DEF SchemaInv, IndexInv
    <2>3. ForeignInv'
      BY <1>2, <1>3, SameSource DEF SchemaInv, ForeignInv
    <2> QED
      BY <2>1, <2>2, <2>3
  <1>7. SequenceInv'
    <2>1. /\ reset' \subseteq identity /\ unsupported' \subseteq Planned
          /\ unsupported \subseteq unsupported'
      BY <1>2 DEF SequenceOf, SchemaInv, SequenceInv, ResetSequence
    <2>2. ASSUME NEW t \in (Been("sequence") \cup {cur}) \cap identity, ~resetFailed,
                 ~\E u \in Planned : Folded[u] # u /\ t \in {u, Folded[u]}
          PROVE  t \in reset' \cup unsupported'
      <3>1. Been("sequence") \subseteq Planned
        BY DEF Been
      <3>2. Folded[t] = t
        BY <1>2, <2>2, <3>1
      <3>3. CASE t = cur
        BY <1>2, <2>2, <3>2, <3>3 DEF SequenceOf
      <3>4. CASE t # cur
        <4>1. t \in reset \cup unsupported
          BY <2>2, <3>4 DEF SchemaInv, SequenceInv
        <4>2. Folded[cur] # t
          BY <1>2, <2>2, <3>4
        <4> QED
          BY <1>2, <2>1, <4>1, <4>2 DEF SequenceOf
      <3> QED
        BY <3>3, <3>4
    <2>3. ~resetFailed' => ~resetFailed
      BY Zenon DEF ResetSequence
    <2> QED
      BY <1>2, <1>3, <2>1, <2>2, <2>3, SameSource DEF SchemaInv, SequenceInv
  <1>8. RefusedForeignKeys'
    BY <1>2, RefusalsStay DEF SchemaInv, input
  <1> QED
    BY <1>4, <1>5, <1>6, <1>7, <1>8 DEF SchemaInv

\* A table whose sequence is not set is listed, or the reset has failed.
LEMMA SequenceFailsKeeps ==
    ASSUME SchemaInv, ResetSequenceFails
    PROVE  SchemaInv'
  <1>1. /\ SType /\ Turn("sequence") /\ "sequence" \in DOMAIN After
        /\ {"create", "index", "fk", "sequence"} \subseteq DOMAIN Later
    BY DEF SchemaInv, ResetSequenceFails, After, Later
  <1>2. /\ schema' = schema /\ excludes' = excludes /\ existing' = existing /\ key' = key
        /\ taken' = taken /\ unique' = unique /\ identity' = identity /\ fks' = fks
        /\ reset' = reset /\ failed' = failed /\ pc' = pc
        /\ pc = "sequence" /\ at' = at + 1 /\ cur \in Planned
    BY DEF ResetSequenceFails, Turn, input, catalog
  <1>3. /\ Been("create")' = Been("create") /\ Been("index")' = Been("index")
        /\ Been("fk")' = Been("fk") /\ Been("sequence")' = Been("sequence") \cup {cur}
    BY <1>1, TurnBeen DEF Later
  <1>4. SType' /\ PhaseInv'
    BY <1>1, <1>2, OrderAssumption DEF SType, PhaseInv, Turn
  <1>5. CreateInv'
    BY <1>2, <1>3, SameSource DEF SchemaInv, CreateInv
  <1>6. IndexInv'
    BY <1>2, <1>3, SameSource DEF SchemaInv, IndexInv
  <1>7. ForeignInv'
    BY <1>2, <1>3, SameSource DEF SchemaInv, ForeignInv
  <1>8. SequenceInv'
    <2>1. \/ unsupported' = unsupported \cup {cur} /\ resetFailed' = resetFailed
          \/ unsupported' = unsupported /\ resetFailed' = TRUE
      BY Zenon DEF ResetSequenceFails
    <2>2. ~resetFailed' => ~resetFailed /\ cur \in unsupported'
      <3>1. resetFailed' = TRUE => resetFailed'
        BY Zenon
      <3>2. resetFailed' = resetFailed => (~resetFailed' => ~resetFailed)
        BY Zenon
      <3> QED
        BY <2>1, <3>1, <3>2
    <2>3. unsupported \subseteq unsupported' /\ unsupported' \subseteq Planned
      BY <1>2, <2>1 DEF SchemaInv, SequenceInv
    <2>4. ASSUME ~resetFailed', NEW t \in (Been("sequence") \cup {cur}) \cap identity
          PROVE  \/ t \in reset \cup unsupported'
                 \/ \E u \in Planned : Folded[u] # u /\ t \in {u, Folded[u]}
      BY <2>2, <2>3, <2>4 DEF SchemaInv, SequenceInv
    <2> QED
      BY <1>2, <1>3, <2>3, <2>4, SameSource DEF SchemaInv, SequenceInv
  <1>9. RefusedForeignKeys'
    BY <1>2, RefusalsStay DEF SchemaInv, input
  <1> QED
    BY <1>4, <1>5, <1>6, <1>7, <1>8, <1>9 DEF SchemaInv

\* A ground of RefusedForeignKeys for refusing f of t.
Ground(t, f) ==
    \/ Len(f.columns) > 1 \/ f.elsewhere \/ f.parent \notin Planned
    \/ {t, f.parent} \cap existing # {}
    \/ IsBoolean(t, f.columns[1]) # IsBoolean(f.parent, f.referenced[1])
    \/ /\ f.referenced[1] # key[f.parent]
       /\ \A i \in Indexes(f.parent) :
              i.unique /\ i.columns = {f.referenced[1]} => NameIsShared(f.parent, i)

\* What the phases before have seen to leaves few grounds to refuse a foreign key.
LEMMA GroundsToRefuse ==
    ASSUME SchemaInv, pc = "fk", cur \in Planned,
           AddFails(cur) \/ \E f \in schema[cur].fks : f.elsewhere \/ cur \in existing
    PROVE  \E t \in Planned : \E f \in schema[t].fks : Ground(t, f)
  <1>1. CASE \E f \in schema[cur].fks : f.elsewhere \/ cur \in existing
    BY <1>1 DEF Ground
  <1>2. SUFFICES ASSUME AddFails(cur),
                        \A f \in schema[cur].fks :
                            /\ ~(Len(f.columns) > 1) /\ ~f.elsewhere /\ f.parent \in Planned
                            /\ f.parent \notin existing
                            /\ IsBoolean(cur, f.columns[1]) <=> IsBoolean(f.parent, f.referenced[1])
                 PROVE  \E f \in schema[cur].fks :
                            /\ f.referenced[1] # key[f.parent]
                            /\ \A i \in Indexes(f.parent) :
                                  i.unique /\ i.columns = {f.referenced[1]} => NameIsShared(f.parent, i)
    BY <1>1, Zenon DEF IsBoolean, Ground
  <1>3. cur \in Tables /\ schema \in Schemas /\ Planned \subseteq Tables
    BY DEF SchemaInv, SType, Planned
  <1> DEFINE Row(F) == [child |-> cur, name |-> F.name, column |-> F.columns[1],
                        parent |-> F.parent, referenced |-> F.referenced[1]]
  <1>4. \A f \in ForeignKeys(cur) : \E F \in schema[cur].fks : f = Row(F)
    <2> SUFFICES ASSUME NEW F \in schema[cur].fks, NEW i \in 1 .. Len(F.columns)
                 PROVE  i = 1
      BY DEF ForeignKeys
    <2>1. Len(F.columns) \in Nat /\ ~(Len(F.columns) > 1)
      BY <1>2, <1>3, SchemasAssumption
    <2> QED
      BY <2>1
  <1>5. PICK f \in ForeignKeys(cur) :
            \/ \E g \in ForeignKeys(cur) : g.name = f.name /\ g # f
            \/ <<f.parent, {f.referenced}>> \notin unique
            \/ IsBoolean(cur, f.column) # IsBoolean(f.parent, f.referenced)
    BY <1>2 DEF AddFails
  <1>6. PICK F \in schema[cur].fks : f = Row(F)
    BY <1>4
  <1>7. <<F.parent, {F.referenced[1]}>> \notin unique
    <2>1. ~\E g \in ForeignKeys(cur) : g.name = f.name /\ g # f
      <3> SUFFICES ASSUME NEW g \in ForeignKeys(cur), g.name = f.name
                   PROVE  g = f
        OBVIOUS
      <3>1. PICK G \in schema[cur].fks : g = Row(G)
        BY <1>4
      <3>2. G.name = F.name
        BY <1>6, <3>1
      <3>3. G = F
        BY <1>3, <3>2, SchemasAssumption
      <3> QED
        BY <1>6, <3>1, <3>3
    <2>2. /\ f.column = F.columns[1] /\ f.parent = F.parent /\ f.referenced = F.referenced[1]
      BY <1>6
    <2> QED
      BY <1>2, <1>5, <2>1, <2>2 DEF IsBoolean
  <1>8. F.parent \in Planned \ existing /\ Been("create") = Planned /\ Been("index") = Planned
    BY <1>2 DEF Been, Later, phase
  <1>9. F.referenced[1] # key[F.parent]
    <2>1. Len(F.columns) \in Nat \ {0} /\ F.parent \in Tables /\ ~F.elsewhere
      BY <1>2, <1>3, SchemasAssumption
    <2>2. 1 \in 1 .. Len(F.columns)
      BY <2>1
    <2>3. F.referenced[1] \in ColumnNames(schema, F.parent)
      BY <1>3, <2>1, <2>2, SchemasAssumption
    <2>4. PICK c \in Columns(F.parent) : c.name = F.referenced[1]
      BY <2>3 DEF ColumnNames, Columns
    <2>5. F.referenced[1] = key[F.parent] => c \in KeyColumns(F.parent)
      BY <2>4 DEF KeyColumns
    <2> QED
      BY <1>7, <1>8, <2>4, <2>5 DEF SchemaInv, CreateInv
  <1>10. \A i \in Indexes(F.parent) :
            i.unique /\ i.columns = {F.referenced[1]} => NameIsShared(F.parent, i)
    BY <1>7, <1>8 DEF SchemaInv, IndexInv
  <1> QED
    BY <1>9, <1>10

\* Every other step leaves the catalogs alone.
LEMMA OthersKeep ==
    ASSUME SchemaInv, UNCHANGED <<input, catalog, report>>, key' = key \/ pc = "plan",
           pc' = "done" => ~resetFailed,
           SType', PhaseInv', \A q \in DOMAIN Later : Been(q)' = Been(q),
           failed' = "fk" => failed = "fk" \/ RefusedForeignKeys'
    PROVE  SchemaInv'
  <1>1. CASE key' = key
    <2>1. UNCHANGED <<input, key, catalog, report>>
      BY <1>1
    <2>2. RefusedForeignKeys'
      BY <2>1, RefusalsStay DEF SchemaInv, RefusedForeignKeys
    <2> QED
      BY <2>1, <2>2, NothingNew DEF SchemaInv, Later
  <1>2. CASE pc = "plan"
    <2>1. {"create", "index", "fk", "sequence"} \subseteq DOMAIN Later
      BY DEF Later
    <2>2. /\ Been("create")' = {} /\ Been("index")' = {} /\ Been("fk")' = {} /\ Been("sequence")' = {}
      BY <1>2, <2>1 DEF Been, Later, phase
    <2>3. /\ schema' = schema /\ excludes' = excludes /\ existing' = existing
          /\ taken' = taken /\ unique' = unique /\ fks' = fks /\ identity' = identity /\ reset' = reset
          /\ taken = {} /\ unique = {} /\ fks = {}
      BY <1>2 DEF input, catalog, SchemaInv, PhaseInv
    <2>4. CreateInv' /\ IndexInv'
      BY <2>2, <2>3 DEF CreateInv, IndexInv
    <2>5. ForeignInv'
      BY <2>2, <2>3, SameSource DEF SchemaInv, ForeignInv
    <2>7. SequenceInv'
      <3>1. Planned' = Planned /\ Been("sequence") = {}
        BY <1>2, <2>1, <2>3, SameSource DEF Been, Later, phase
      <3> QED
        BY <2>2, <2>3, <3>1, SequenceStays DEF SchemaInv, SequenceInv
    <2>6. RefusedForeignKeys'
      BY <1>2 DEF SchemaInv, SType, RefusedForeignKeys
    <2> QED
      BY <2>4, <2>5, <2>6, <2>7 DEF SchemaInv
  <1> QED
    BY <1>1, <1>2

LEMMA FailKeeps ==
    ASSUME SchemaInv, Fail, pc \in {"inspect", "copy", "index", "fk", "sequence"},
           pc = "fk" => RefusedForeignKeys'
    PROVE  SchemaInv'
  <1>1. SType' /\ PhaseInv'
    BY DEF Fail, SchemaInv, SType, PhaseInv, input, catalog
  <1>2. \A q \in DOMAIN Later : Been(q)' = Been(q)
    BY OtherBeen DEF SchemaInv
  <1> QED
    BY <1>1, <1>2, OthersKeep DEF Fail

LEMMA StepKeeps ==
    ASSUME SchemaInv, [Next]_vars
    PROVE  SchemaInv'
  <1>1. CASE Inspect
    <2>1. SType' /\ PhaseInv' /\ failed' # "fk"
      BY <1>1 DEF Inspect, SchemaInv, SType, PhaseInv, input, catalog
    <2> QED
      BY <1>1, <2>1, OtherBeen, OthersKeep DEF Inspect, SchemaInv
  <1>2. CASE InspectFails
    BY <1>2, FailKeeps DEF InspectFails
  <1>3. CASE CreatePlan
    <2>1. SType' /\ PhaseInv' /\ failed' # "fk"
      BY <1>3 DEF CreatePlan, SchemaInv, SType, PhaseInv, input, catalog
    <2> QED
      BY <1>3, <2>1, OtherBeen, OthersKeep DEF CreatePlan, SchemaInv
  <1>4. CASE Skip
    <2>1. SType' /\ PhaseInv' /\ failed' = failed /\ pc' # "done"
      BY <1>4, OrderAssumption DEF Skip, After, SchemaInv, SType, PhaseInv, input, catalog
    <2>2. \A q \in DOMAIN Later : Been(q)' = Been(q)
      BY <1>4, SkipBeen DEF SchemaInv
    <2> QED
      BY <1>4, <2>1, <2>2, OthersKeep DEF Skip
  <1>5. CASE NextPhase
    <2>1. SType' /\ PhaseInv' /\ failed' = failed
      BY <1>5, OrderAssumption DEF NextPhase, After, SchemaInv, SType, PhaseInv, input, catalog
    <2>2. \A q \in DOMAIN Later : Been(q)' = Been(q)
      BY <1>5, NextPhaseBeen DEF SchemaInv
    <2>3. pc' = "done" => ~resetFailed
      <3>1. pc = "sequence" => ~resetFailed
        BY <1>5, Zenon DEF NextPhase
      <3>2. pc' = "done" => pc = "sequence"
        <4>1. pc \in DOMAIN After /\ pc' = After[pc]
          BY <1>5, Zenon DEF NextPhase
        <4>2. pc \in {"create", "copy", "index", "fk", "sequence"}
          BY <4>1 DEF After
        <4>3. pc # "sequence" => pc' \in {"copy", "index", "fk", "sequence"}
          BY <4>1, <4>2 DEF After
        <4> QED
          BY <4>3
      <3> QED
        BY <3>1, <3>2
    <2> QED
      BY <1>5, <2>1, <2>2, <2>3, OthersKeep DEF NextPhase
  <1>6. CASE CreateTable
    BY <1>6, CreateKeeps
  <1>7. CASE StreamTable
    <2>1. SType' /\ PhaseInv' /\ failed' = failed
      BY <1>7, OrderAssumption DEF StreamTable, Turn, SchemaInv, SType, PhaseInv, input, catalog
    <2>2. Turn("copy") /\ "copy" \in DOMAIN After /\ pc = "copy"
      BY <1>7 DEF StreamTable, After, Turn
    <2>3. SType
      BY DEF SchemaInv
    <2>4. \A q \in DOMAIN Later : Been(q)' = Been(q) \cup (IF q = "copy" THEN {cur} ELSE {})
      BY <2>2, <2>3, TurnBeen
    <2>5. UNCHANGED <<input, key, catalog, report>> /\ pc' # "done"
      BY <1>7 DEF StreamTable, Turn
    <2>6. {"create", "index", "fk", "sequence"} \subseteq DOMAIN Later
      BY DEF Later
    <2>7. CreateInv' /\ IndexInv' /\ ForeignInv' /\ SequenceInv'
      BY <2>4, <2>5, <2>6, NothingNew
    <2>8. RefusedForeignKeys'
      BY <2>1, <2>5, RefusalsStay DEF SchemaInv
    <2> QED
      BY <2>1, <2>7, <2>8 DEF SchemaInv
  <1>8. CASE StreamTableFails
    BY <1>8, FailKeeps DEF StreamTableFails
  <1>9. CASE CreateIndexes
    BY <1>9, IndexKeeps
  <1>10. CASE CreateIndexesFails
    BY <1>10, FailKeeps DEF CreateIndexesFails
  <1>11. CASE AddForeignKeys
    BY <1>11, ForeignKeeps
  <1>12. CASE AddForeignKeysFails
    <2>1. /\ pc = "fk" /\ cur \in Planned /\ Fail
          /\ AddFails(cur) \/ \E f \in schema[cur].fks : f.elsewhere \/ cur \in existing
      BY <1>12 DEF AddForeignKeysFails
    <2>2. RefusedForeignKeys'
      <3>1. /\ schema' = schema /\ existing' = existing /\ key' = key /\ excludes' = excludes
        BY <2>1 DEF Fail, input
      <3>2. \A t, n : IsBoolean(t, n)' = IsBoolean(t, n)
        BY <3>1 DEF IsBoolean, Columns
      <3>3. /\ Planned' = Planned
            /\ \A t : Indexes(t)' = Indexes(t)
            /\ \A t, i : NameIsShared(t, i)' = NameIsShared(t, i)
        BY <3>1, SameSource
      <3>4. PICK t \in Planned : \E f \in schema[t].fks : Ground(t, f)
        BY <2>1, GroundsToRefuse
      <3> QED
        BY <3>1, <3>2, <3>3, <3>4 DEF RefusedForeignKeys, Ground
    <2> QED
      BY <2>1, <2>2, FailKeeps
  <1>13. CASE ResetSequence
    BY <1>13, SequenceKeeps
  <1>15. CASE ResetSequenceFails
    BY <1>15, SequenceFailsKeeps
  <1>16. CASE SequencesFail
    BY <1>16, FailKeeps DEF SequencesFail
  <1>14. CASE UNCHANGED vars
    <2>1. UNCHANGED <<input, key, catalog, report, pc, at, failed>>
      BY <1>14 DEF vars, input, catalog, report
    <2>2. SType' /\ PhaseInv'
      BY <2>1 DEF SchemaInv, SType, PhaseInv, input, catalog
    <2>3. pc' = "done" => ~resetFailed
      BY <2>1 DEF SchemaInv, SequenceInv
    <2> QED
      BY <1>14, <2>1, <2>2, <2>3, OtherBeen, OthersKeep DEF SchemaInv
  <1> QED
    BY <1>1, <1>2, <1>3, <1>4, <1>5, <1>6, <1>7, <1>8, <1>9, <1>10, <1>11, <1>12, <1>13, <1>14,
       <1>15, <1>16 DEF Next

LEMMA StartsWell ==
    ASSUME Init
    PROVE  SchemaInv
  <1>1. SType /\ PhaseInv /\ RefusedForeignKeys
    BY OrderAssumption DEF Init, SType, PhaseInv, RefusedForeignKeys
  <1>2. \A q \in DOMAIN Later : Been(q) = {}
    BY DEF Init, Been, Later, phase
  <1>3. {"create", "index", "fk", "sequence"} \subseteq DOMAIN Later
    BY DEF Later
  <1>4. CreateInv /\ IndexInv /\ ForeignInv /\ SequenceInv
    BY <1>2, <1>3 DEF Init, CreateInv, IndexInv, ForeignInv, SequenceInv
  <1> QED
    BY <1>1, <1>4 DEF SchemaInv

-----------------------------------------------------------------------------
\* At every step the catalogs hold what the loops have put there, and no more.
THEOREM SchemaInvariant == Spec => []SchemaInv
  <1>1. Init => SchemaInv
    BY StartsWell
  <1>2. SchemaInv /\ [Next]_vars => SchemaInv'
    BY StepKeeps
  <1> QED
    BY <1>1, <1>2, PTL DEF Spec

\* Every variable keeps its type, under every step of runMigrate (main.go:184).
THEOREM SchemaTypeCorrect == Spec => []TypeOK
  <1>1. ASSUME SchemaInv, resetFailed \in BOOLEAN PROVE TypeOK
    <2>1. Been("index") \subseteq Tables
      BY DEF Been, Planned
    <2>2. taken \subseteq UNION {IndexNames(t) : t \in Tables}
      BY <1>1, <2>1 DEF SchemaInv, IndexInv
    <2> QED
      BY <1>1, <2>2 DEF SchemaInv, SType, ForeignInv, SequenceInv, TypeOK
  <1>2. Init => resetFailed \in BOOLEAN
    BY Zenon DEF Init
  <1>3. resetFailed \in BOOLEAN /\ [Next]_vars => (resetFailed \in BOOLEAN)'
    <2> SUFFICES ASSUME resetFailed \in BOOLEAN, [Next]_vars PROVE resetFailed' \in BOOLEAN
      OBVIOUS
    <2>1. CASE ResetSequenceFails
      BY <2>1, Zenon DEF ResetSequenceFails
    <2>2. CASE ~ResetSequenceFails
      <3>1. resetFailed' = resetFailed
        BY <2>2 DEF Next, vars, report, Inspect, InspectFails, CreatePlan, Skip, NextPhase,
                    CreateTable, StreamTable, StreamTableFails, CreateIndexes, CreateIndexesFails,
                    AddForeignKeys, AddForeignKeysFails, ResetSequence, SequencesFail, Fail
      <3> QED
        BY <3>1, Zenon
    <2> QED
      BY <2>1, <2>2
  <1> QED
    BY <1>1, <1>2, <1>3, SchemaInvariant, PTL DEF Spec

\* A migration that succeeds keeps what MySQL has unique, but for primary keys other
\* than the planned column and indexes whose name is taken (ddl.go:49, ddl.go:84).
THEOREM KeepsUniqueness == Spec => []UniquenessSurvives
  BY SchemaInvariant, SurvivesUnique, PTL

\* One that succeeds has every foreign key in force over all of its columns (ddl.go:92):
\* those it cannot declare stop it.
THEOREM KeepsForeignKeys == Spec => []ForeignKeysSurvive
  BY SchemaInvariant, SurviveForeignKeys, PTL

\* Only the foreign keys that the property names are ever refused (main.go:286).
THEOREM RefusalsOfForeignKeys == Spec => []RefusedForeignKeys
  <1>1. SchemaInv => RefusedForeignKeys
    BY DEF SchemaInv
  <1> QED
    BY <1>1, SchemaInvariant, PTL

\* One that succeeds has set the sequence of every auto_increment that has one, unless the
\* name of its table means another (sequence.go:30) or the query for the sequence failed
\* and its report calls the table unsupported (sequence.go:32).
THEOREM KeepsSequences == Spec => []SequencesFollow
  BY SchemaInvariant, SequencesSurvive, PTL
===========================================================================
