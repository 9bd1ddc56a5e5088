--------------------------- MODULE PlannerProofs ---------------------------
(***************************************************************************)
(* Theorems about Planner for any schema, any foreign keys and any         *)
(* exclusions.  The counters of Kahn's algorithm are tied to the set of    *)
(* foreign keys a table still waits for; the rest follows from that.       *)
(***************************************************************************)
EXTENDS Planner, FiniteSetTheorems, TLAPS

\* The foreign keys whose parent has not been popped, or not been followed.
Waiting(t) == {f \in Edges : child[f] = t /\ (parent[f] \notin Elements(result) \/ f \in relaxing)}

Distinct(s) == \A i, j \in 1 .. Len(s) : s[i] = s[j] => i = j

\* Types, but for inDegree, which DegreeInv has.
PType ==
    /\ child \in [Fks -> Tables] /\ parent \in [Fks -> Tables \cup Outside]
    /\ excludes \in SUBSET Tables
    /\ pc \in {"build", "seed", "sort", "fallback", "done"}
    /\ queue \in Seq(Planned) /\ result \in Seq(Planned)
    /\ relaxing \in SUBSET Edges
    /\ at \in 1 .. Len(SchemaOrder) + 1 /\ order \in Seq(Tables)

DegreeInv ==
    IF pc = "build"
    THEN inDegree = [t \in {} |-> 0] /\ queue = <<>> /\ result = <<>> /\ relaxing = {}
    ELSE /\ inDegree \in [Planned -> Int]
         /\ \A t \in Planned : inDegree[t] = Cardinality(Waiting(t))
         /\ \A f \in relaxing : parent[f] \in Elements(result)
         /\ pc = "seed" => result = <<>> /\ relaxing = {}

\* What is queued or sorted waits for nothing, and nothing else is free.
ReadyInv ==
    /\ \A t \in Elements(queue) \cup Elements(result) : Waiting(t) = {}
    /\ pc \in {"sort", "fallback", "done"} => \A t \in Planned :
           Waiting(t) = {} => t \in Elements(queue) \cup Elements(result)

QueueInv ==
    /\ Distinct(queue)
    /\ Elements(queue) \cap Elements(result) = {}
    /\ IsFiniteSet(Elements(result)) /\ Cardinality(Elements(result)) = Len(result)

\* The result so far is in order, and no blocked table is in it.
OrderInv ==
    /\ \A i \in 1 .. Len(result) : \A f \in Edges :
          child[f] = result[i] => \E j \in 1 .. Len(result) : j < i /\ result[j] = parent[f]
    /\ \A B \in SUBSET Planned : Blocked(B) => B \cap Elements(result) = {}

DoneInv ==
    /\ pc \in {"fallback", "done"} => queue = <<>> /\ relaxing = {}
    /\ pc = "done" /\ ~Circular => order = result

\* The fallback has the planned tables of the part of the schema it has been through.
FallbackInv ==
    /\ pc \in {"build", "seed", "sort"} => at = 1
    /\ pc = "fallback" => Circular
    /\ pc = "fallback" \/ (pc = "done" /\ Circular) =>
          /\ Distinct(order)
          /\ Elements(order) = {SchemaOrder[i] : i \in 1 .. at - 1} \cap Planned
    /\ pc = "done" /\ Circular => at = Len(SchemaOrder) + 1

PInv ==
    PType /\ DegreeInv /\ ReadyInv /\ QueueInv /\ OrderInv /\ DoneInv /\ FallbackInv

-----------------------------------------------------------------------------
(* Sequences.                                                                *)

\* The elements of an extended sequence.
LEMMA AppendElements ==
    ASSUME NEW S, NEW s \in Seq(S), NEW e \in S
    PROVE  /\ Append(s, e) \in Seq(S)
           /\ Elements(Append(s, e)) = Elements(s) \cup {e}
           /\ Distinct(s) /\ e \notin Elements(s) => Distinct(Append(s, e))
           /\ Len(Append(s, e)) = Len(s) + 1
           /\ \A i \in 1 .. Len(s) : Append(s, e)[i] = s[i]
           /\ Append(s, e)[Len(s) + 1] = e
  <1>1. /\ Append(s, e) \in Seq(S) /\ Len(s) \in Nat /\ Len(Append(s, e)) = Len(s) + 1
        /\ \A i \in 1 .. Len(s) : Append(s, e)[i] = s[i]
        /\ Append(s, e)[Len(s) + 1] = e
    OBVIOUS
  <1>2. 1 .. Len(s) + 1 = (1 .. Len(s)) \cup {Len(s) + 1}
    BY <1>1
  <1>3. Elements(Append(s, e)) = Elements(s) \cup {e}
    BY <1>1, <1>2 DEF Elements
  <1>4. Distinct(s) /\ e \notin Elements(s) => Distinct(Append(s, e))
    BY <1>1, <1>2 DEF Elements, Distinct
  <1> QED
    BY <1>1, <1>3, <1>4

\* The elements of a sequence without its head.
LEMMA TailElements ==
    ASSUME NEW S, NEW s \in Seq(S), s # <<>>, Distinct(s)
    PROVE  /\ Head(s) \in S /\ Tail(s) \in Seq(S) /\ Distinct(Tail(s))
           /\ Head(s) \in Elements(s)
           /\ Elements(Tail(s)) = Elements(s) \ {Head(s)}
  <1>1. /\ Len(s) \in Nat /\ Len(s) >= 1 /\ Head(s) = s[1] /\ s[1] \in S
        /\ Tail(s) \in Seq(S) /\ Len(Tail(s)) = Len(s) - 1
        /\ \A i \in 1 .. Len(s) - 1 : Tail(s)[i] = s[i + 1]
    OBVIOUS
  <1>2. Distinct(Tail(s))
    BY <1>1 DEF Distinct
  <1>3. Head(s) \in Elements(s)
    BY <1>1 DEF Elements
  <1>4. Elements(Tail(s)) \subseteq Elements(s) \ {Head(s)}
    BY <1>1 DEF Elements, Distinct
  <1>5. Elements(s) \ {Head(s)} \subseteq Elements(Tail(s))
    <2> SUFFICES ASSUME NEW i \in 1 .. Len(s), s[i] # Head(s)
                 PROVE  s[i] \in Elements(Tail(s))
      BY DEF Elements
    <2>1. i - 1 \in 1 .. Len(Tail(s)) /\ Tail(s)[i - 1] = s[i]
      BY <1>1
    <2> QED
      BY <2>1 DEF Elements
  <1> QED
    BY <1>1, <1>2, <1>3, <1>4, <1>5

\* The set of foreign keys a table waits for is finite.
LEMMA WaitingFinite == PType => \A t : IsFiniteSet(Waiting(t)) /\ Cardinality(Waiting(t)) \in Nat
  <1> SUFFICES ASSUME NEW t PROVE IsFiniteSet(Waiting(t)) /\ Cardinality(Waiting(t)) \in Nat
    OBVIOUS
  <1>1. Waiting(t) \in SUBSET Fks
    BY DEF Waiting, Edges
  <1> QED
    BY <1>1, FksAssumption, FS_Subset, FS_CardinalityType

-----------------------------------------------------------------------------
\* The initial states satisfy the invariant.
LEMMA InitInv == Init => PInv
  <1> SUFFICES ASSUME Init PROVE PInv
    OBVIOUS
  <1>1. Elements(<<>>) = {}
    BY DEF Elements
  <1>2. PType /\ DegreeInv /\ DoneInv
    BY DEF Init, PType, DegreeInv, DoneInv
  <1>3. ReadyInv /\ OrderInv
    BY <1>1 DEF Init, ReadyInv, OrderInv
  <1>4. QueueInv
    BY <1>1, FS_EmptySet DEF Init, QueueInv, Distinct
  <1>5. FallbackInv
    BY DEF Init, FallbackInv
  <1> QED
    BY <1>2, <1>3, <1>4, <1>5 DEF PInv

\* Every step preserves the invariant.
LEMMA StepInv == PInv /\ [Next]_vars => PInv'
  <1> SUFFICES ASSUME PInv, [Next]_vars PROVE PInv'
    OBVIOUS
  <1> USE DEF input
  <1>e. Elements(<<>>) = {}
    BY DEF Elements
  <1>w. \A t : IsFiniteSet(Waiting(t)) /\ Cardinality(Waiting(t)) \in Nat
    BY WaitingFinite DEF PInv
  <1>1. CASE BuildGraph
    <2>1. queue = <<>> /\ result = <<>> /\ relaxing = {}
      BY <1>1 DEF BuildGraph, PInv, DegreeInv
    <2>2. \A t : Waiting(t)' = {f \in Edges : child[f] = t}
      BY <1>1, <2>1, <1>e DEF BuildGraph, Waiting, Edges, Planned
    <2>3. PType'
      BY <1>1 DEF BuildGraph, PInv, PType, Edges, Planned
    <2>4. \A t \in Planned : Cardinality({f \in Edges : child[f] = t}) \in Int
      <3>1. \A t \in Planned : {f \in Edges : child[f] = t} \in SUBSET Fks
        BY DEF Edges
      <3> QED
        BY <3>1, FksAssumption, FS_Subset, FS_CardinalityType
    <2>5. DegreeInv'
      BY <1>1, <2>1, <2>2, <2>4 DEF BuildGraph, DegreeInv, Planned
    <2>6. ReadyInv'
      BY <1>1, <2>1, <1>e DEF BuildGraph, ReadyInv
    <2>7. QueueInv'
      BY <1>1 DEF BuildGraph, PInv, QueueInv, Distinct
    <2>8. OrderInv'
      BY <1>1 DEF BuildGraph, PInv, OrderInv, Edges, Planned, Blocked
    <2>9. DoneInv'
      BY <1>1 DEF BuildGraph, DoneInv
    <2>10. FallbackInv'
      BY <1>1 DEF BuildGraph, PInv, FallbackInv
    <2> QED
      BY <2>3, <2>5, <2>6, <2>7, <2>8, <2>9, <2>10 DEF PInv
  <1>2. CASE SeedQueue
    <2>1. PICK t \in Planned \ Elements(queue) : inDegree[t] = 0 /\ queue' = Append(queue, t)
      BY <1>2 DEF SeedQueue
    <2>2. queue \in Seq(Planned) /\ result = <<>> /\ relaxing = {} /\ pc = "seed"
      BY <1>2 DEF SeedQueue, PInv, PType, DegreeInv
    <2>3. /\ queue' \in Seq(Planned) /\ Elements(queue') = Elements(queue) \cup {t}
          /\ Distinct(queue')
      BY <2>1, <2>2, AppendElements DEF PInv, QueueInv
    <2>4. Waiting(t) = {}
      BY <2>1, <2>2, <1>w, FS_EmptySet DEF PInv, DegreeInv
    <2>5. \A u : Waiting(u)' = Waiting(u)
      BY <1>2 DEF SeedQueue, Waiting, Edges, Planned
    <2>6. PType'
      BY <1>2, <2>3 DEF SeedQueue, PInv, PType, Edges, Planned
    <2>7. DegreeInv'
      BY <1>2, <2>2, <2>5 DEF SeedQueue, PInv, DegreeInv, Planned
    <2>8. ReadyInv'
      BY <1>2, <2>2, <2>3, <2>4, <2>5 DEF SeedQueue, PInv, ReadyInv
    <2>9. QueueInv'
      BY <1>2, <2>2, <2>3, <1>e DEF SeedQueue, PInv, QueueInv
    <2>10. OrderInv'
      <3>1. UNCHANGED <<child, parent, excludes, result>> /\ Edges' = Edges /\ Planned' = Planned
        BY <1>2 DEF SeedQueue, Edges, Planned
      <3>2. \A B : Blocked(B)' <=> Blocked(B)
        BY <3>1 DEF Blocked
      <3> QED
        BY <3>1, <3>2 DEF PInv, OrderInv
    <2>11. DoneInv' /\ FallbackInv'
      BY <1>2 DEF SeedQueue, PInv, DoneInv, FallbackInv
    <2> QED
      BY <2>6, <2>7, <2>8, <2>9, <2>10, <2>11 DEF PInv
  <1>3. CASE Seeded
    <2>1. \A u : Waiting(u)' = Waiting(u)
      BY <1>3 DEF Seeded, Waiting, Edges, Planned
    <2>2. PType'
      BY <1>3 DEF Seeded, PInv, PType, Edges, Planned
    <2>3. DegreeInv'
      BY <1>3, <2>1 DEF Seeded, PInv, DegreeInv, Planned
    <2>4. \A t \in Planned : Waiting(t) = {} => t \in Elements(queue)
      BY <1>3, FS_EmptySet DEF Seeded, PInv, DegreeInv
    <2>5. ReadyInv'
      BY <1>3, <2>1, <2>4 DEF Seeded, PInv, ReadyInv, Planned
    <2>6. QueueInv'
      BY <1>3 DEF Seeded, PInv, QueueInv
    <2>7. OrderInv'
      <3>1. UNCHANGED <<child, parent, excludes, result>> /\ Edges' = Edges /\ Planned' = Planned
        BY <1>3 DEF Seeded, Edges, Planned
      <3>2. \A B : Blocked(B)' <=> Blocked(B)
        BY <3>1 DEF Blocked
      <3> QED
        BY <3>1, <3>2 DEF PInv, OrderInv
    <2>8. DoneInv' /\ FallbackInv'
      BY <1>3 DEF Seeded, PInv, DoneInv, FallbackInv
    <2> QED
      BY <2>2, <2>3, <2>5, <2>6, <2>7, <2>8 DEF PInv
  <1>4. CASE PopTable
    <2> DEFINE u == Head(queue)
    <2>1. /\ pc = "sort" /\ relaxing = {} /\ queue # <<>>
          /\ queue \in Seq(Planned) /\ result \in Seq(Planned) /\ Distinct(queue)
          /\ result' = Append(result, u) /\ queue' = Tail(queue)
          /\ relaxing' = {f \in Edges : parent[f] = u}
          /\ UNCHANGED <<child, parent, excludes, pc, inDegree, at, order>>
      BY <1>4 DEF PopTable, PInv, PType, QueueInv
    <2>2. /\ u \in Planned /\ u \in Elements(queue) /\ queue' \in Seq(Planned)
          /\ Distinct(queue') /\ Elements(queue') = Elements(queue) \ {u}
      BY <2>1, TailElements
    <2>3. /\ result' \in Seq(Planned) /\ Elements(result') = Elements(result) \cup {u}
          /\ Len(result') = Len(result) + 1 /\ Len(result) \in Nat
          /\ \A i \in 1 .. Len(result) : result'[i] = result[i]
          /\ result'[Len(result) + 1] = u
      BY <2>1, <2>2, AppendElements
    <2>4. u \notin Elements(result) /\ Waiting(u) = {}
      BY <2>2 DEF PInv, QueueInv, ReadyInv
    <2>5. Edges' = Edges /\ Planned' = Planned
      BY <2>1 DEF Edges, Planned
    <2>b. \A B : Blocked(B)' <=> Blocked(B)
      BY <2>1, <2>5 DEF Blocked
    <2>6. \A t : Waiting(t)' = Waiting(t)
      BY <2>1, <2>3, <2>4, <2>5 DEF Waiting
    <2>7. PType'
      BY <2>1, <2>2, <2>3, <2>5 DEF PInv, PType
    <2>8. DegreeInv'
      BY <2>1, <2>3, <2>5, <2>6 DEF PInv, DegreeInv
    <2>9. ReadyInv'
      BY <2>1, <2>2, <2>3, <2>5, <2>6 DEF PInv, ReadyInv
    <2>10. QueueInv'
      <3>1. IsFiniteSet(Elements(result')) /\ Cardinality(Elements(result')) = Len(result')
        <4>1. /\ IsFiniteSet(Elements(result) \cup {u})
              /\ Cardinality(Elements(result) \cup {u}) = Cardinality(Elements(result)) + 1
          BY <2>4, FS_AddElement DEF PInv, QueueInv
        <4>2. Cardinality(Elements(result)) = Len(result)
          BY DEF PInv, QueueInv
        <4> QED
          BY <2>3, <4>1, <4>2
      <3> QED
        BY <2>2, <2>3, <3>1 DEF PInv, QueueInv
    <2>11. \A f \in Edges : child[f] = u => parent[f] \in Elements(result)
      BY <2>4 DEF Waiting
    <2>12. OrderInv'
      <3>1. ASSUME NEW i \in 1 .. Len(result'), NEW f \in Edges, child[f] = result'[i]
            PROVE  \E j \in 1 .. Len(result') : j < i /\ result'[j] = parent[f]
        <4>1. CASE i \in 1 .. Len(result)
          <5>1. PICK j \in 1 .. Len(result) : j < i /\ result[j] = parent[f]
            BY <2>3, <3>1, <4>1 DEF PInv, OrderInv
          <5> QED
            BY <5>1, <2>3
        <4>2. CASE i = Len(result) + 1
          <5>1. PICK j \in 1 .. Len(result) : result[j] = parent[f]
            BY <2>3, <2>11, <3>1, <4>2 DEF Elements
          <5> QED
            BY <5>1, <2>3, <4>2
        <4> QED
          BY <2>3, <4>1, <4>2
      <3>2. ASSUME NEW B \in SUBSET Planned, Blocked(B)
            PROVE  B \cap Elements(result') = {}
        <4>1. B \cap Elements(result) = {}
          BY <3>2 DEF PInv, OrderInv
        <4>2. Elements(result) \subseteq Planned
          BY <2>1 DEF Elements
        <4>3. (B \cup Outside) \cap Elements(result) = {}
          BY <4>1, <4>2, OutsideAssumption DEF Planned
        <4>4. u \notin B
          BY <2>11, <3>2, <4>3 DEF Blocked
        <4> QED
          BY <2>3, <4>1, <4>4
      <3> QED
        <4> HIDE DEF u
        <4>1. child' = child /\ parent' = parent
          BY <2>1
        <4> QED
          BY <2>5, <2>b, <3>1, <3>2, <4>1 DEF OrderInv
    <2>13. DoneInv' /\ FallbackInv'
      BY <2>1 DEF PInv, DoneInv, FallbackInv
    <2> QED
      BY <2>7, <2>8, <2>9, <2>10, <2>12, <2>13 DEF PInv
  <1>5. CASE RelaxEdge
    <2>1. PICK f \in relaxing :
            /\ inDegree' = [inDegree EXCEPT ![child[f]] = @ - 1]
            /\ queue' = IF inDegree'[child[f]] = 0 THEN Append(queue, child[f]) ELSE queue
            /\ relaxing' = relaxing \ {f}
      BY <1>5 DEF RelaxEdge
    <2>v. PICK v : v = child[f]
      OBVIOUS
    <2>2. /\ pc = "sort" /\ queue \in Seq(Planned) /\ result \in Seq(Planned)
          /\ Distinct(queue) /\ f \in Edges /\ v \in Planned
          /\ inDegree \in [Planned -> Int]
          /\ UNCHANGED <<child, parent, excludes, pc, result, at, order>>
      BY <1>5, <2>v DEF RelaxEdge, PInv, PType, DegreeInv, QueueInv, Edges
    <2>3. Edges' = Edges /\ Planned' = Planned
      BY <2>2 DEF Edges, Planned
    <2>4. parent[f] \in Elements(result)
      BY <2>2 DEF PInv, DegreeInv
    <2>5. f \in Waiting(v)
      BY <2>2, <2>v DEF Waiting
    <2>6. \A t : Waiting(t)' = IF t = v THEN Waiting(t) \ {f} ELSE Waiting(t)
      BY <2>1, <2>2, <2>3, <2>4, <2>v DEF Waiting
    <2>7. Cardinality(Waiting(v)') = Cardinality(Waiting(v)) - 1
      <3>1. Cardinality(Waiting(v) \ {f}) = Cardinality(Waiting(v)) - 1
        BY <1>w, <2>5, FS_RemoveElement
      <3> QED
        BY <2>6, <3>1
    <2>8. \A t \in Planned : inDegree'[t] = Cardinality(Waiting(t)')
      BY <2>1, <2>2, <2>6, <2>7, <2>v DEF PInv, DegreeInv
    <2>9. IsFiniteSet(Waiting(v)')
      <3>1. IsFiniteSet(Waiting(v) \ {f})
        BY <1>w, FS_RemoveElement
      <3> QED
        BY <2>6, <3>1
    <2>10. inDegree'[v] = 0 <=> Waiting(v)' = {}
      BY <2>2, <2>8, <2>9, FS_EmptySet
    <2>11. v \notin Elements(queue) \cup Elements(result)
      BY <2>5 DEF PInv, ReadyInv
    <2>12. /\ queue' \in Seq(Planned) /\ Distinct(queue')
           /\ Elements(queue') = IF Waiting(v)' = {} THEN Elements(queue) \cup {v} ELSE Elements(queue)
      <3>1. CASE Waiting(v)' = {}
        <4>1. queue' = Append(queue, v) /\ v \notin Elements(queue)
          BY <2>1, <2>10, <2>11, <2>v, <3>1
        <4> QED
          BY <2>2, <3>1, <4>1, AppendElements
      <3>2. CASE Waiting(v)' # {}
        <4>1. queue' = queue
          BY <2>1, <2>10, <2>v, <3>2
        <4> QED
          BY <2>2, <3>2, <4>1
      <3> QED
        BY <3>1, <3>2
    <2>13. PType'
      BY <2>1, <2>2, <2>3, <2>12 DEF PInv, PType
    <2>14. DegreeInv'
      <3>1. inDegree' \in [Planned -> Int]
        BY <2>1, <2>2, <2>v
      <3> QED
        BY <2>1, <2>2, <2>3, <2>8, <3>1 DEF PInv, DegreeInv
    <2>15. ReadyInv'
      BY <2>2, <2>3, <2>6, <2>12 DEF PInv, ReadyInv
    <2>16. QueueInv'
      BY <2>2, <2>11, <2>12 DEF PInv, QueueInv
    <2>17. OrderInv'
      <3>1. \A B : Blocked(B)' <=> Blocked(B)
        BY <2>2, <2>3 DEF Blocked
      <3> QED
        BY <2>2, <2>3, <3>1 DEF PInv, OrderInv
    <2>18. DoneInv' /\ FallbackInv'
      BY <2>2 DEF PInv, DoneInv, FallbackInv
    <2> QED
      BY <2>13, <2>14, <2>15, <2>16, <2>17, <2>18 DEF PInv
  <1>6. CASE CreatePlan
    <2>1. /\ pc = "sort" /\ relaxing = {} /\ queue = <<>>
          /\ UNCHANGED <<child, parent, excludes, inDegree, queue, relaxing, result, at>>
          /\ \/ Circular /\ pc' = "fallback" /\ order' = <<>>
             \/ ~Circular /\ pc' = "done" /\ order' = result
      BY <1>6 DEF CreatePlan
    <2>2. Edges' = Edges /\ Planned' = Planned /\ (Circular' <=> Circular)
      BY <2>1 DEF Edges, Planned, Circular
    <2>3. \A t : Waiting(t)' = Waiting(t)
      BY <2>1, <2>2 DEF Waiting
    <2>4. PType'
      <3>1. result \in Seq(Tables) /\ <<>> \in Seq(Tables)
        BY DEF PInv, PType, Planned
      <3> QED
        BY <2>1, <2>2, <3>1 DEF PInv, PType
    <2>5. DegreeInv'
      BY <2>1, <2>2, <2>3 DEF PInv, DegreeInv
    <2>6. ReadyInv' /\ QueueInv'
      BY <2>1, <2>2, <2>3 DEF PInv, ReadyInv, QueueInv
    <2>7. OrderInv'
      <3>1. \A B : Blocked(B)' <=> Blocked(B)
        BY <2>1, <2>2 DEF Blocked
      <3> QED
        BY <2>1, <2>2, <3>1 DEF PInv, OrderInv
    <2>8. DoneInv'
      BY <2>1, <2>2 DEF DoneInv
    <2>9. FallbackInv'
      <3>1. at = 1
        BY <2>1 DEF PInv, FallbackInv
      <3>2. 1 .. at - 1 = {} /\ Distinct(<<>>)
        BY <3>1 DEF Distinct
      <3> QED
        BY <2>1, <2>2, <3>1, <3>2, <1>e DEF FallbackInv
    <2> QED
      BY <2>4, <2>5, <2>6, <2>7, <2>8, <2>9 DEF PInv
  <1>7. CASE FallBack
    <2> DEFINE t == SchemaOrder[at]
    <2>1. /\ pc = "fallback" /\ at <= Len(SchemaOrder) /\ at' = at + 1
          /\ order' = IF t \in Planned THEN Append(order, t) ELSE order
          /\ UNCHANGED <<child, parent, excludes, pc, inDegree, queue, relaxing, result>>
      BY <1>7 DEF FallBack
    <2>2. Edges' = Edges /\ Planned' = Planned /\ (Circular' <=> Circular)
      BY <2>1 DEF Edges, Planned, Circular
    <2>3. \A u : Waiting(u)' = Waiting(u)
      BY <2>1, <2>2 DEF Waiting
    <2>4. /\ at \in 1 .. Len(SchemaOrder) /\ Len(SchemaOrder) \in Nat
          /\ order \in Seq(Tables) /\ t \in Tables
      BY <2>1, SchemaAssumption DEF PInv, PType
    <2>5. /\ Distinct(order)
          /\ Elements(order) = {SchemaOrder[i] : i \in 1 .. at - 1} \cap Planned
      BY <2>1 DEF PInv, FallbackInv
    <2>6. t \notin Elements(order)
      BY <2>4, <2>5, SchemaAssumption
    <2>7. 1 .. (at + 1) - 1 = (1 .. at - 1) \cup {at}
      BY <2>4
    <2>8. /\ order' \in Seq(Tables) /\ Distinct(order')
          /\ Elements(order') = {SchemaOrder[i] : i \in 1 .. (at + 1) - 1} \cap Planned
      <3>1. CASE t \in Planned
        <4>1. order' = Append(order, t)
          BY <2>1, <3>1
        <4>2. /\ Append(order, t) \in Seq(Tables) /\ Distinct(Append(order, t))
              /\ Elements(Append(order, t)) = Elements(order) \cup {t}
          BY <2>4, <2>5, <2>6, AppendElements
        <4> QED
          BY <2>5, <2>7, <3>1, <4>1, <4>2
      <3>2. CASE t \notin Planned
        BY <2>1, <2>4, <2>5, <2>7, <3>2
      <3> QED
        BY <3>1, <3>2
    <2>9. PType'
      BY <2>1, <2>2, <2>4, <2>8 DEF PInv, PType
    <2>10. DegreeInv'
      BY <2>1, <2>2, <2>3 DEF PInv, DegreeInv
    <2>11. ReadyInv' /\ QueueInv'
      BY <2>1, <2>2, <2>3 DEF PInv, ReadyInv, QueueInv
    <2>12. OrderInv'
      <3>1. \A B : Blocked(B)' <=> Blocked(B)
        BY <2>1, <2>2 DEF Blocked
      <3> QED
        BY <2>1, <2>2, <3>1 DEF PInv, OrderInv
    <2>13. DoneInv'
      BY <2>1 DEF PInv, DoneInv
    <2>14. FallbackInv'
      BY <2>1, <2>2, <2>8 DEF PInv, FallbackInv
    <2> QED
      BY <2>9, <2>10, <2>11, <2>12, <2>13, <2>14 DEF PInv
  <1>8. CASE FallenBack
    <2>1. /\ pc = "fallback" /\ at > Len(SchemaOrder) /\ pc' = "done"
          /\ UNCHANGED <<child, parent, excludes, inDegree, queue, relaxing, result, at, order>>
      BY <1>8 DEF FallenBack
    <2>2. Edges' = Edges /\ Planned' = Planned /\ (Circular' <=> Circular)
      BY <2>1 DEF Edges, Planned, Circular
    <2>3. \A u : Waiting(u)' = Waiting(u)
      BY <2>1, <2>2 DEF Waiting
    <2>4. PType'
      BY <2>1, <2>2 DEF PInv, PType
    <2>5. DegreeInv'
      BY <2>1, <2>2, <2>3 DEF PInv, DegreeInv
    <2>6. ReadyInv' /\ QueueInv'
      BY <2>1, <2>2, <2>3 DEF PInv, ReadyInv, QueueInv
    <2>7. OrderInv'
      <3>1. \A B : Blocked(B)' <=> Blocked(B)
        BY <2>1, <2>2 DEF Blocked
      <3> QED
        BY <2>1, <2>2, <3>1 DEF PInv, OrderInv
    <2>8. Circular
      BY <2>1 DEF PInv, FallbackInv
    <2>9. DoneInv'
      BY <2>1, <2>2, <2>8 DEF PInv, DoneInv
    <2>10. at = Len(SchemaOrder) + 1
      BY <2>1, SchemaAssumption DEF PInv, PType
    <2>11. FallbackInv'
      BY <2>1, <2>2, <2>8, <2>10 DEF PInv, FallbackInv
    <2> QED
      BY <2>4, <2>5, <2>6, <2>7, <2>9, <2>11 DEF PInv
  <1>9. CASE UNCHANGED vars
    <2>1. Edges' = Edges /\ Planned' = Planned /\ (Circular' <=> Circular)
      BY <1>9 DEF vars, Edges, Planned, Circular
    <2>2. \A t : Waiting(t)' = Waiting(t)
      BY <1>9, <2>1 DEF vars, Waiting
    <2>3. PType' /\ DegreeInv'
      BY <1>9, <2>1, <2>2 DEF vars, PInv, PType, DegreeInv
    <2>4. ReadyInv' /\ QueueInv'
      BY <1>9, <2>1, <2>2 DEF vars, PInv, ReadyInv, QueueInv
    <2>5. OrderInv'
      <3>1. \A B : Blocked(B)' <=> Blocked(B)
        BY <1>9, <2>1 DEF vars, Blocked
      <3> QED
        BY <1>9, <2>1, <3>1 DEF vars, PInv, OrderInv
    <2>6. DoneInv'
      BY <1>9, <2>1 DEF vars, PInv, DoneInv
    <2>7. FallbackInv'
      BY <1>9, <2>1 DEF vars, PInv, FallbackInv
    <2> QED
      BY <2>3, <2>4, <2>5, <2>6, <2>7 DEF PInv
  <1> QED
    BY <1>1, <1>2, <1>3, <1>4, <1>5, <1>6, <1>7, <1>8, <1>9 DEF Next

\* The invariant holds in every behaviour.
LEMMA Invariant == Spec => []PInv
  <1> QED
    BY InitInv, StepInv, PTL DEF Spec

\* The planned tables are finitely many.
LEMMA PlannedFinite == IsFiniteSet(Planned)
  <1>1. IsFiniteSet(1 .. Len(SchemaOrder))
    BY SchemaAssumption, FS_Interval
  <1> DEFINE f == [i \in 1 .. Len(SchemaOrder) |-> SchemaOrder[i]]
  <1>2. f \in Surjection(1 .. Len(SchemaOrder), Tables)
    BY DEF Surjection, Tables
  <1>3. IsFiniteSet(Tables)
    BY <1>1, <1>2, FS_Surjection
  <1> QED
    BY <1>3, FS_Subset DEF Planned

\* A sequence without repetitions has as many elements as its length.
LEMMA DistinctLength ==
    ASSUME NEW S, NEW s \in Seq(S), Distinct(s)
    PROVE  Cardinality(Elements(s)) = Len(s)
  <1> DEFINE n == Len(s)
             f == [i \in 1 .. n |-> s[i]]
  <1>1. n \in Nat
    OBVIOUS
  <1> HIDE DEF n
  <1>2. IsFiniteSet(1 .. n) /\ Cardinality(1 .. n) = n
    BY <1>1, FS_Interval
  <1>3. f \in Bijection(1 .. n, Elements(s))
    <2>1. \A i \in 1 .. n : f[i] = s[i]
      OBVIOUS
    <2>2. f \in [1 .. n -> Elements(s)] /\ \A e \in Elements(s) : \E i \in 1 .. n : f[i] = e
      BY DEF Elements, n
    <2>3. \A i, j \in 1 .. n : f[i] = f[j] => i = j
      BY <2>1 DEF Distinct, n
    <2> QED
      BY <2>2, <2>3 DEF Bijection, Injection, Surjection, IsInjective
  <1> HIDE DEF f
  <1>4. Cardinality(Elements(s)) = Cardinality(1 .. n)
    BY <1>2, <1>3, FS_Bijection DEF ExistsBijection
  <1> QED
    BY <1>2, <1>4 DEF n

\* A sorted plan contains every planned table.
LEMMA SortedIsAll ==
    ASSUME PInv, pc = "done", ~Circular
    PROVE  Elements(result) = Planned
  <1>1. IsFiniteSet(Planned)
    BY PlannedFinite
  <1>2. Elements(result) \in SUBSET Planned
    BY DEF PInv, PType, Elements
  <1>3. Cardinality(Elements(result)) = Len(result) /\ Len(result) \in Nat
    BY DEF PInv, QueueInv, PType
  <1>4. Cardinality(Planned) = Cardinality(Elements(result))
    BY <1>1, <1>2, <1>3, FS_Subset, FS_CardinalityType DEF Circular
  <1> QED
    BY <1>1, <1>2, <1>4, FS_Subset

\* Every variable keeps its type: no counter is kept for an excluded table, and
\* nothing that is excluded is queued or sorted.
THEOREM PlannerTypeCorrect == Spec => []TypeOK
  <1>1. PInv => TypeOK
    BY DEF PInv, PType, DegreeInv, TypeOK
  <1> QED
    BY <1>1, Invariant, PTL

\* A plan has every table that is not excluded exactly once, in whichever of its
\* two ways CreatePlan ordered it.
THEOREM PlanIsComplete == Spec => []OrderIsComplete
  <1>1. PInv => OrderIsComplete
    <2> SUFFICES ASSUME PInv, pc = "done"
                 PROVE  Elements(order) = Planned /\ Len(order) = Cardinality(Planned)
      BY DEF OrderIsComplete
    <2>1. CASE ~Circular
      <3>1. order = result /\ Elements(result) = Planned
        BY <2>1, SortedIsAll DEF PInv, DoneInv
      <3> QED
        BY <3>1 DEF PInv, QueueInv
    <2>2. CASE Circular
      <3>1. /\ order \in Seq(Tables) /\ Distinct(order) /\ at = Len(SchemaOrder) + 1
            /\ Elements(order) = {SchemaOrder[i] : i \in 1 .. at - 1} \cap Planned
        BY <2>2 DEF PInv, PType, FallbackInv
      <3>2. 1 .. at - 1 = 1 .. Len(SchemaOrder)
        BY <3>1, SchemaAssumption
      <3>3. Elements(order) = Planned
        BY <3>1, <3>2 DEF Planned, Tables
      <3> QED
        BY <3>1, <3>3, DistinctLength
    <2> QED
      BY <2>1, <2>2
  <1> QED
    BY <1>1, Invariant, PTL

\* In a plan that was sorted, the parent of every foreign key comes before its
\* child: none of them is left unordered, nor refers outside the schema.
THEOREM ParentsComeFirst == Spec => []SortedParentsFirst
  <1>1. PInv => SortedParentsFirst
    <2> SUFFICES ASSUME PInv, pc = "done", ~Circular, NEW f \in Edges
                 PROVE  Precedes(order, parent[f], child[f])
      BY DEF SortedParentsFirst
    <2>1. order = result
      BY DEF PInv, DoneInv
    <2>2. child[f] \in Elements(result)
      BY SortedIsAll DEF Edges
    <2>3. PICK i \in 1 .. Len(result) : result[i] = child[f]
      BY <2>2 DEF Elements
    <2>4. PICK j \in 1 .. Len(result) : j < i /\ result[j] = parent[f]
      BY <2>3 DEF PInv, OrderInv
    <2> QED
      BY <2>1, <2>3, <2>4 DEF Precedes
  <1> QED
    BY <1>1, Invariant, PTL

\* The planner falls back to the schema's order exactly when some set of tables
\* is blocked by its own foreign keys or by tables outside the schema.
THEOREM FallbackIsForced == Spec => []CircularIffBlocked
  <1>1. PInv => CircularIffBlocked
    <2> SUFFICES ASSUME PInv, pc = "done" PROVE CircularIffBlocked
      BY DEF CircularIffBlocked
    <2>1. ASSUME Circular PROVE \E B \in SUBSET Planned : B # {} /\ Blocked(B)
      <3> DEFINE B == Planned \ Elements(result)
      <3>1. B # {}
        <4>1. Elements(result) \subseteq Planned
          BY DEF PInv, PType, Elements
        <4>2. Elements(result) # Planned
          BY <2>1 DEF Circular, PInv, QueueInv, PType
        <4> QED
          BY <4>1, <4>2
      <3>2. queue = <<>> /\ relaxing = {}
        BY DEF PInv, DoneInv
      <3>3. ASSUME NEW t \in B
            PROVE  \E f \in Edges : child[f] = t /\ parent[f] \in B \cup Outside
        <4>1. Waiting(t) # {}
          BY <3>2, <3>3 DEF PInv, ReadyInv, Elements
        <4>2. PICK f \in Edges : child[f] = t /\ parent[f] \notin Elements(result)
          BY <3>2, <4>1 DEF Waiting
        <4>3. parent[f] \in Tables \cup Outside /\ parent[f] \notin excludes
          BY DEF PInv, PType, Edges
        <4> QED
          BY <4>2, <4>3 DEF Planned
      <3> QED
        BY <3>1, <3>3 DEF Blocked
    <2>2. ASSUME NEW B \in SUBSET Planned, B # {}, Blocked(B) PROVE Circular
      <3>1. B \cap Elements(result) = {}
        BY <2>2 DEF PInv, OrderInv
      <3> QED
        BY <2>2, <3>1, SortedIsAll
    <2> QED
      BY <2>1, <2>2 DEF CircularIffBlocked
  <1> QED
    BY <1>1, Invariant, PTL
=============================================================================
