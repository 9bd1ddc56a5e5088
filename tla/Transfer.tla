------------------------------ MODULE Transfer ------------------------------
(***************************************************************************)
(* What the copy phase of a migration promises, without chunks, cursors,   *)
(* checkpoints or processes: rows of the wanted set arrive in the target   *)
(* and stay there; a table may be declared done only when all its wanted   *)
(* rows have arrived; declarations may be forgotten (the job's state file  *)
(* can be lost), but never made early.                                     *)
(***************************************************************************)
CONSTANTS Tables, Keys

VARIABLES
    want,   \* want[t]: the rows of t that must arrive
    have,   \* have[t]: the rows of t that have arrived
    done    \* the tables declared completely migrated

vars == <<want, have, done>>

Init ==
    /\ want \in [Tables -> SUBSET Keys]
    /\ have = [t \in Tables |-> {}]
    /\ done = {}

Arrive(t, rows) ==
    /\ have' = [have EXCEPT ![t] = @ \cup rows]
    /\ UNCHANGED <<want, done>>

Declare(S) ==
    /\ \A t \in S : want[t] \subseteq have[t]
    /\ done' = done \cup S
    /\ UNCHANGED <<want, have>>

Forget ==
    /\ done' = {}
    /\ UNCHANGED <<want, have>>

Next ==
    \/ \E t \in Tables, rows \in SUBSET Keys : Arrive(t, rows)
    \/ \E S \in SUBSET Tables : Declare(S)
    \/ Forget

Spec == Init /\ [][Next]_vars
=============================================================================
