------------------------------ MODULE Planner ------------------------------
(***************************************************************************)
(* planner/planner.go: the order in which tables are created and loaded.   *)
(* sortTablesTopologically is Kahn's algorithm, a step here being one turn *)
(* of one of its loops; CreatePlan falls back to the order of the schema   *)
(* when it reports a circular dependency.                                  *)
(*                                                                         *)
(* A foreign key is an identifier with a child and a parent, so that one   *)
(* table may refer to another more than once, to itself, or to a table     *)
(* outside the migrated schema (ReferencedTable may be in another one).    *)
(***************************************************************************)
EXTENDS Integers, FiniteSets, Sequences

CONSTANTS
    SchemaOrder,   \* schema.Tables: the tables as the inspector lists them
    Outside,       \* referenced tables that are not in the schema
    Fks            \* the foreign keys

Tables == {SchemaOrder[i] : i \in 1 .. Len(SchemaOrder)}

ASSUME SchemaAssumption ==
    /\ SchemaOrder \in Seq(Tables)
    /\ \A i, j \in 1 .. Len(SchemaOrder) : SchemaOrder[i] = SchemaOrder[j] => i = j
ASSUME OutsideAssumption == Outside \cap Tables = {}
ASSUME FksAssumption == IsFiniteSet(Fks)

VARIABLES
    child, parent,   \* the schema's foreign keys
    excludes,        \* tables the configuration leaves out
    pc,
    inDegree,
    queue,
    relaxing,        \* edges of adjList[u] still to be followed
    result,          \* what the sort returns
    at,              \* position in schema.Tables of the fallback
    order            \* MigrationPlan.TableOrder

input == <<child, parent, excludes>>
vars == <<child, parent, excludes, pc, inDegree, queue, relaxing, result, at, order>>

Elements(s) == {s[i] : i \in 1 .. Len(s)}

Planned == Tables \ excludes

\* Mutant of Edges: excluded parents are not skipped.
EdgesToExcluded == {f \in Fks : child[f] \in Planned}

\* The foreign keys the sort looks at: excluded children are skipped with
\* their table, excluded parents one by one.
Edges == {f \in Fks : child[f] \in Planned /\ parent[f] \notin excludes}

Init ==
    /\ child \in [Fks -> Tables]
    /\ parent \in [Fks -> Tables \cup Outside]
    /\ excludes \in SUBSET Tables
    /\ pc = "build"
    /\ inDegree = [t \in {} |-> 0]
    /\ queue = <<>> /\ relaxing = {} /\ result = <<>> /\ at = 1 /\ order = <<>>

\* Mutant of BuildGraph: two references to one parent are counted once.
BuildGraphOnce ==
    /\ pc = "build"
    /\ inDegree' = [t \in Planned |-> Cardinality({parent[f] : f \in {g \in Edges : child[g] = t}})]
    /\ pc' = "seed"
    /\ UNCHANGED <<input, queue, relaxing, result, at, order>>

\* Mutant of BuildGraph: excluded tables are counted among the nodes.
BuildGraphAll ==
    /\ pc = "build"
    /\ inDegree' = [t \in Tables |-> Cardinality({f \in Edges : child[f] = t})]
    /\ pc' = "seed"
    /\ UNCHANGED <<input, queue, relaxing, result, at, order>>

BuildGraph ==
    /\ pc = "build"
    /\ inDegree' = [t \in Planned |-> Cardinality({f \in Edges : child[f] = t})]
    /\ pc' = "seed"
    /\ UNCHANGED <<input, queue, relaxing, result, at, order>>

\* range over a Go map: the free tables enter the queue in any order.
SeedQueue ==
    /\ pc = "seed"
    /\ \E t \in Planned \ Elements(queue) : inDegree[t] = 0 /\ queue' = Append(queue, t)
    /\ UNCHANGED <<input, pc, inDegree, relaxing, result, at, order>>

Seeded ==
    /\ pc = "seed"
    /\ \A t \in Planned \ Elements(queue) : inDegree[t] # 0
    /\ pc' = "sort"
    /\ UNCHANGED <<input, inDegree, queue, relaxing, result, at, order>>

PopTable ==
    /\ pc = "sort" /\ relaxing = {} /\ queue # <<>>
    /\ result' = Append(result, Head(queue))
    /\ queue' = Tail(queue)
    /\ relaxing' = {f \in Edges : parent[f] = Head(queue)}
    /\ UNCHANGED <<input, pc, inDegree, at, order>>

\* The edges of one table in any order: no property depends on it.
RelaxEdge ==
    /\ pc = "sort"
    /\ \E f \in relaxing :
          /\ inDegree' = [inDegree EXCEPT ![child[f]] = @ - 1]
          /\ queue' = IF inDegree'[child[f]] = 0 THEN Append(queue, child[f]) ELSE queue
          /\ relaxing' = relaxing \ {f}
    /\ UNCHANGED <<input, pc, result, at, order>>

Circular == Len(result) < Cardinality(Planned)

\* Mutant of CreatePlan: the sort loops until it has all the tables.
CreatePlanWaits ==
    /\ pc = "sort" /\ relaxing = {} /\ queue = <<>> /\ ~Circular
    /\ order' = result /\ pc' = "done"
    /\ UNCHANGED <<input, inDegree, queue, relaxing, result, at>>

\* Mutant of CreatePlan: the partial order is taken for the plan.
CreatePlanPartial ==
    /\ pc = "sort" /\ relaxing = {} /\ queue = <<>>
    /\ order' = result /\ pc' = "done"
    /\ UNCHANGED <<input, inDegree, queue, relaxing, result, at>>

\* The result; or else the fallback begins, and no warning reaches the caller.
CreatePlan ==
    /\ pc = "sort" /\ relaxing = {} /\ queue = <<>>
    /\ IF Circular THEN pc' = "fallback" /\ order' = <<>> ELSE pc' = "done" /\ order' = result
    /\ UNCHANGED <<input, inDegree, queue, relaxing, result, at>>

\* The tables that are not excluded, in the order of the schema.
FallBack ==
    /\ pc = "fallback" /\ at <= Len(SchemaOrder)
    /\ order' = IF SchemaOrder[at] \in Planned THEN Append(order, SchemaOrder[at]) ELSE order
    /\ at' = at + 1
    /\ UNCHANGED <<input, pc, inDegree, queue, relaxing, result>>

FallenBack ==
    /\ pc = "fallback" /\ at > Len(SchemaOrder)
    /\ pc' = "done"
    /\ UNCHANGED <<input, inDegree, queue, relaxing, result, at, order>>

Next ==
    \/ BuildGraph \/ SeedQueue \/ Seeded \/ PopTable \/ RelaxEdge \/ CreatePlan
    \/ FallBack \/ FallenBack

Spec == Init /\ [][Next]_vars
FairSpec == Spec /\ WF_vars(Next)

-----------------------------------------------------------------------------
\* Every variable keeps its type.
TypeOK ==
    /\ child \in [Fks -> Tables] /\ parent \in [Fks -> Tables \cup Outside]
    /\ excludes \in SUBSET Tables
    /\ pc \in {"build", "seed", "sort", "fallback", "done"}
    /\ inDegree \in (IF pc = "build" THEN {[t \in {} |-> 0]} ELSE [Planned -> Int])
    /\ queue \in Seq(Planned) /\ result \in Seq(Planned)
    /\ relaxing \in SUBSET Edges
    /\ at \in 1 .. Len(SchemaOrder) + 1 /\ order \in Seq(Tables)

\* The plan orders every table that is not excluded, each exactly once, sorted
\* or not: none is forgotten by the migration and none is streamed twice.
OrderIsComplete ==
    pc = "done" =>
        /\ Elements(order) = Planned
        /\ Len(order) = Cardinality(Planned)

\* A plan that was sorted loads the parent of every foreign key first.
Precedes(s, a, b) == \E i, j \in 1 .. Len(s) : i < j /\ s[i] = a /\ s[j] = b
SortedParentsFirst ==
    pc = "done" /\ ~Circular => \A f \in Edges : Precedes(order, parent[f], child[f])

\* A set of tables none of which can ever be free: each refers to a table of
\* the set (itself perhaps) or to one that is never sorted.
Blocked(B) == \A t \in B : \E f \in Edges : child[f] = t /\ parent[f] \in B \cup Outside

\* The fallback is taken exactly when it must be: the sort reports a circular
\* dependency if and only if the foreign keys block some set of tables.
CircularIffBlocked ==
    pc = "done" => (Circular <=> \E B \in SUBSET Planned : B # {} /\ Blocked(B))

\* The planner always produces a plan.
EventuallyPlanned == <>(pc = "done")
=============================================================================
